------------------------------ MODULE SiteProofs ------------------------------
(****************************************************************************)
(* The user centre and the item pages, for every number of requests,        *)
(* accounts and items: accounts stay consistent, a customer with addresses  *)
(* has a default one, the history holds what was last viewed, and a list    *)
(* page that is answered exists.  Each part has an inductive invariant of   *)
(* its own; the parts meet in OnlyActiveUsersLeaveTraces.  Then the index   *)
(* page, for every number of views, forms and tasks.                        *)
(****************************************************************************)
EXTENDS Site, IndexPage, SumLemmas, TLAPS

------------------------------------------------------------------------------
(* Accounts.                                                                *)

\* The inductive invariant of the accounts.
AccountInv ==
    /\ AccountTypeOK /\ \A r \in Requests : AccountLocal(areq[r])
    /\ ActivatedByToken /\ NameRegisteredOnce

\* Request l is what keeps the account of n open.
Opens(l, n) == l.name = n /\ (HalfRegistered(l) \/ TokenAccepted(l))

\* The tables start with the customers' rows active.
LEMMA AccountStarts == AccountInit => AccountInv
<1> SUFFICES ASSUME AccountInit PROVE AccountInv
  OBVIOUS
<1> USE AccountAssumption
<1>1. AccountIdle \in AccountRequest /\ AccountLocal(AccountIdle) /\ ~PastCreate(AccountIdle)
  BY DEF AccountIdle, AccountRequest, AccountPCs, AccountKinds, AccountResults, AccountLocal, PastCreate,
         HalfRegistered
<1>2. users \in [Names -> {Nil, "active", "inactive"}]
      /\ Customers = {n \in Names : users[n] = "active"}
  BY DEF AccountInit
<1>3. AccountTypeOK
  BY <1>1, <1>2 DEF AccountInit, AccountTypeOK
<1>4. ActivatedByToken
  BY <1>2 DEF ActivatedByToken
<1>5. NameRegisteredOnce
  BY <1>1, <1>2 DEF AccountInit, NameRegisteredOnce
<1> QED BY <1>1, <1>3, <1>4, <1>5 DEF AccountInit, AccountInv

\* A step that leaves the accounts alone, and in which a request neither gets
\* past create_user nor stops to keep an account open.
LEMMA QuietStep ==
    ASSUME AccountInv, AccountTypeOK', users' = users,
           NEW r \in Requests, NEW l, l = areq[r], NEW m, m = areq'[r],
           \A q \in Requests \ {r} : areq'[q] = areq[q],
           AccountLocal(m), \A n \in Names : Opens(l, n) => Opens(m, n),
           PastCreate(m) => PastCreate(l) /\ m.name = l.name,
           \A n \in Names : token'[n] # Nil => token[n] # Nil \/ (PastCreate(l) /\ l.name = n)
    PROVE AccountInv'
<1>1. \A q \in Requests : AccountLocal(areq'[q])
  BY DEF AccountInv
<1>2. ActivatedByToken'
  BY DEF AccountInv, ActivatedByToken, Opens
<1>3. NameRegisteredOnce'
  BY DEF AccountInv, NameRegisteredOnce
<1> QED BY <1>1, <1>2, <1>3 DEF AccountInv

\* A mail is delivered or lost, or its token expires.
LEMMA WorldStep ==
    ASSUME AccountInv, AccountTypeOK', users' = users, areq' = areq,
           \A n \in Names : token'[n] # Nil => token[n] # Nil
    PROVE AccountInv'
<1>1. ActivatedByToken'
  BY DEF AccountInv, ActivatedByToken
<1>2. NameRegisteredOnce'
  BY DEF AccountInv, NameRegisteredOnce
<1> QED BY <1>1, <1>2 DEF AccountInv

\* create_user inserts the row of its name.
LEMMA CreateStep ==
    ASSUME AccountInv, AccountTypeOK', token' = token,
           NEW r \in Requests, NEW l, l = areq[r], NEW m, m = areq'[r],
           \A q \in Requests \ {r} : areq'[q] = areq[q],
           l.name \in Names, users[l.name] = Nil, users' = [users EXCEPT ![l.name] = "active"],
           AccountLocal(m), Opens(m, l.name), m.name = l.name
    PROVE AccountInv'
<1> USE AccountAssumption
<1>0. users \in [Names -> {Nil, "active", "inactive"}] /\ areq \in [Requests -> AccountRequest]
  BY DEF AccountInv, AccountTypeOK
<1>1. \A q \in Requests : AccountLocal(areq'[q])
  BY DEF AccountInv
<1>2. ActivatedByToken'
  <2> SUFFICES ASSUME NEW n \in Names, users'[n] = "active", n \notin Customers
               PROVE \E q \in Requests : Opens(areq'[q], n)
    BY DEF ActivatedByToken, Opens
  <2>1. CASE n = l.name
    BY <2>1
  <2>2. CASE n # l.name
    <3>1. PICK q \in Requests : Opens(areq[q], n)
      BY <1>0, <2>2 DEF AccountInv, ActivatedByToken, Opens
    <3>2. q # r
      BY <2>2, <3>1 DEF Opens
    <3> QED BY <3>1, <3>2
  <2> QED BY <2>1, <2>2
<1>3. NameRegisteredOnce'
  <2>1. \A q \in Requests : PastCreate(areq[q]) => areq[q].name # l.name
    BY DEF AccountInv, NameRegisteredOnce
  <2>2. \A q \in Requests : PastCreate(areq[q]) => areq[q].name \in Names
    BY DEF AccountInv, AccountLocal
  <2>3. \A n \in Names : users[n] # Nil => users'[n] # Nil
    BY <1>0
  <2>4. l.name \notin Customers /\ users'[l.name] # Nil
    BY <1>0 DEF AccountInv, NameRegisteredOnce
  <2> QED BY <2>1, <2>2, <2>3, <2>4 DEF AccountInv, NameRegisteredOnce
<1> QED BY <1>1, <1>2, <1>3 DEF AccountInv

\* The second save of a registration deactivates the row of its name.
LEMMA DeactivateStep ==
    ASSUME AccountInv, AccountTypeOK', token' = token,
           NEW r \in Requests, NEW l, l = areq[r], NEW m, m = areq'[r],
           \A q \in Requests \ {r} : areq'[q] = areq[q],
           PastCreate(l), l.name \in Names, users' = [users EXCEPT ![l.name] = "inactive"],
           AccountLocal(m), m.name = l.name
    PROVE AccountInv'
<1> USE AccountAssumption
<1>0. users \in [Names -> {Nil, "active", "inactive"}] /\ areq \in [Requests -> AccountRequest]
  BY DEF AccountInv, AccountTypeOK
<1>1. \A q \in Requests : AccountLocal(areq'[q])
  BY DEF AccountInv
<1>2. ActivatedByToken'
  <2> SUFFICES ASSUME NEW n \in Names, users'[n] = "active", n \notin Customers
               PROVE \E q \in Requests : Opens(areq'[q], n)
    BY DEF ActivatedByToken, Opens
  <2>2. n # l.name /\ users[n] = "active"
    BY <1>0
  <2>3. PICK q \in Requests : Opens(areq[q], n)
    BY <2>2 DEF AccountInv, ActivatedByToken, Opens
  <2>4. q # r
    BY <2>2, <2>3 DEF Opens
  <2> QED BY <2>3, <2>4
<1>3. NameRegisteredOnce'
  <2>2. \A q \in Requests : PastCreate(areq[q]) => areq[q].name \in Names
    BY DEF AccountInv, AccountLocal
  <2>3. \A n \in Names : users[n] # Nil => users'[n] # Nil
    BY <1>0
  <2> QED BY <2>2, <2>3 DEF AccountInv, NameRegisteredOnce
<1> QED BY <1>1, <1>2, <1>3 DEF AccountInv

\* A token is accepted by a request that was not there before.
LEMMA ActiveStep ==
    ASSUME AccountInv, AccountTypeOK', token' = token,
           NEW r \in Requests, NEW l, l = areq[r], NEW m, m = areq'[r],
           \A q \in Requests \ {r} : areq'[q] = areq[q],
           ~HalfRegistered(l), ~TokenAccepted(l),
           m.name \in Names, users' = [users EXCEPT ![m.name] = "active"],
           AccountLocal(m), Opens(m, m.name), ~PastCreate(m)
    PROVE AccountInv'
<1> USE AccountAssumption
<1>0. users \in [Names -> {Nil, "active", "inactive"}] /\ areq \in [Requests -> AccountRequest]
  BY DEF AccountInv, AccountTypeOK
<1>1. \A q \in Requests : AccountLocal(areq'[q])
  BY DEF AccountInv
<1>2. ActivatedByToken'
  <2> SUFFICES ASSUME NEW n \in Names, users'[n] = "active", n \notin Customers
               PROVE \E q \in Requests : Opens(areq'[q], n)
    BY DEF ActivatedByToken, Opens
  <2>1. CASE n = m.name
    BY <2>1
  <2>2. CASE n # m.name
    <3>1. PICK q \in Requests : Opens(areq[q], n)
      BY <1>0, <2>2 DEF AccountInv, ActivatedByToken, Opens
    <3>2. q # r
      BY <3>1 DEF Opens
    <3> QED BY <3>1, <3>2
  <2> QED BY <2>1, <2>2
<1>3. NameRegisteredOnce'
  <2>2. \A q \in Requests : PastCreate(areq[q]) => areq[q].name \in Names
    BY DEF AccountInv, AccountLocal
  <2>3. \A n \in Names : users[n] # Nil => users'[n] # Nil
    BY <1>0
  <2> QED BY <2>2, <2>3 DEF AccountInv, NameRegisteredOnce
<1> QED BY <1>1, <1>2, <1>3 DEF AccountInv

\* The local variables of request r, and of no other, change to these.
Becomes(r, p, k, n, s) ==
    /\ areq' \in [Requests -> AccountRequest]
    /\ \A q \in Requests \ {r} : areq'[q] = areq[q]
    /\ areq'[r].pc = p /\ areq'[r].kind = k /\ areq'[r].name = n /\ areq'[r].res = s

\* What a request is then.
LEMMA AccountPut ==
    ASSUME NEW r \in Requests, NEW p, NEW k, NEW n, NEW s, Becomes(r, p, k, n, s),
           NEW m, m = areq'[r]
    PROVE /\ areq' \in [Requests -> AccountRequest]
          /\ m.pc = p /\ m.kind = k /\ m.name = n /\ m.res = s
          /\ \A q \in Requests \ {r} : areq'[q] = areq[q]
          /\ HalfRegistered(m) <=> "deactivate" \in {p, s}
          /\ TokenAccepted(m) <=> k = "active" /\ s = "ok"
          /\ PastCreate(m) <=> k = "register" /\ (p \in {"deactivate", "mail"}
                                                   \/ s \in {"ok", "deactivate", "mail"})
BY DEF Becomes, HalfRegistered, TokenAccepted, PastCreate

\* A view that only moves on, or answers.
LEMMA AccountMoves ==
    ASSUME AccountInv, NEW r \in Requests, NEW p \in AccountPCs
    PROVE /\ Goto(r, p) => Becomes(r, p, areq[r].kind, areq[r].name, areq[r].res)
          /\ \A s \in AccountResults :
                areq' = [areq EXCEPT ![r] = [@ EXCEPT !.pc = p, !.res = s]] =>
                    Becomes(r, p, areq[r].kind, areq[r].name, s)
<1>1. areq \in [Requests -> AccountRequest]
  BY DEF AccountInv, AccountTypeOK
<1>2. Goto(r, p) => Becomes(r, p, areq[r].kind, areq[r].name, areq[r].res)
  BY <1>1 DEF Goto, Becomes, AccountRequest
<1>3. ASSUME NEW s \in AccountResults,
             areq' = [areq EXCEPT ![r] = [@ EXCEPT !.pc = p, !.res = s]]
      PROVE Becomes(r, p, areq[r].kind, areq[r].name, s)
  BY <1>1, <1>3 DEF Becomes, AccountRequest
<1> QED BY <1>2, <1>3

\* A view that begins.
LEMMA AccountBegins ==
    ASSUME AccountInv, NEW r \in Requests, areq[r].name = Nil,
           NEW p \in AccountPCs, NEW k \in AccountKinds, NEW s \in AccountResults
    PROVE /\ \A n \in Names :
                areq' = [areq EXCEPT ![r] =
                           [@ EXCEPT !.pc = p, !.kind = k, !.name = n, !.res = s]] =>
                    Becomes(r, p, k, n, s)
          /\ areq' = [areq EXCEPT ![r] = [@ EXCEPT !.pc = p, !.kind = k, !.res = s]] =>
                Becomes(r, p, k, Nil, s)
<1>1. areq \in [Requests -> AccountRequest]
  BY DEF AccountInv, AccountTypeOK
<1>2. ASSUME NEW n \in Names,
             areq' = [areq EXCEPT ![r] = [@ EXCEPT !.pc = p, !.kind = k, !.name = n, !.res = s]]
      PROVE Becomes(r, p, k, n, s)
  BY <1>1, <1>2 DEF Becomes, AccountRequest
<1>3. ASSUME areq' = [areq EXCEPT ![r] = [@ EXCEPT !.pc = p, !.kind = k, !.res = s]]
      PROVE Becomes(r, p, k, Nil, s)
  BY <1>1, <1>3 DEF Becomes, AccountRequest
<1> QED BY <1>2, <1>3

\* The views that begin.
LEMMA AccountStartSteps ==
    ASSUME AccountInv, NEW r \in Requests, AccountStart(r)
    PROVE AccountInv'
<1> USE AccountAssumption
<1>0. /\ areq[r].pc = "idle" /\ areq[r] = AccountIdle
      /\ ~PastCreate(AccountIdle) /\ ~HalfRegistered(AccountIdle) /\ ~TokenAccepted(AccountIdle)
  BY DEF AccountInv, AccountTypeOK, AccountLocal, AccountStart, Register, BadForm, Active,
         Authenticate, Logout, AccountIdle, PastCreate, HalfRegistered, TokenAccepted
<1>q. ASSUME NEW p \in {"create", "login", "done"}, NEW k \in {"register", "active", "login", "logout"},
             NEW n \in Names \cup {Nil},
             NEW s \in {Nil, "taken", "invalid", "expired", "mismatch", "ok", ServerError},
             Becomes(r, p, k, n, s),
             p # "done" => s = Nil /\ n \in Names,
             p = "create" => k = "register", p = "login" => k = "login",
             s = "ok" => k # "register",
             users' = users, token' = token, session' \in [Names -> BOOLEAN]
      PROVE AccountInv'
  <2> DEFINE m == areq'[r]
  <2>1. p \in AccountPCs /\ s \in AccountResults
    BY DEF AccountPCs, AccountResults
  <2>2. /\ areq' \in [Requests -> AccountRequest]
        /\ m.pc = p /\ m.kind = k /\ m.name = n /\ m.res = s
        /\ \A q \in Requests \ {r} : areq'[q] = areq[q]
        /\ ~HalfRegistered(m) /\ ~PastCreate(m)
    BY <1>q, <2>1, AccountPut DEF ServerError
  <2>3. AccountLocal(m)
    BY <1>q, <2>2 DEF AccountLocal
  <2>4. AccountTypeOK'
    BY <1>q, <2>2 DEF AccountInv, AccountTypeOK
  <2>5. \A x \in Names : ~Opens(AccountIdle, x)
    BY <1>0 DEF Opens
  <2> HIDE DEF m
  <2> QED BY <1>0, <1>q, <2>2, <2>3, <2>4, <2>5, QuietStep DEF m
<1>s. session \in [Names -> BOOLEAN] /\ users \in [Names -> {Nil, "active", "inactive"}]
  BY DEF AccountInv, AccountTypeOK
<1>f. /\ areq \in [Requests -> AccountRequest]
      /\ areq[r].kind = Nil /\ areq[r].name = Nil /\ areq[r].res = Nil
  BY <1>0 DEF AccountInv, AccountTypeOK, AccountIdle
<1>1. CASE Register(r)
  <2>1. PICK n \in Names :
          areq' = [areq EXCEPT ![r] =
                     [@ EXCEPT !.pc = IF users[n] = Nil THEN "create" ELSE "done",
                               !.kind = "register", !.name = n,
                               !.res = IF users[n] = Nil THEN Nil ELSE "taken"]]
    BY <1>0, <1>1 DEF Register
  <2>2. \/ Becomes(r, "create", "register", n, Nil)
        \/ Becomes(r, "done", "register", n, "taken")
    BY <1>f, <2>1, AccountBegins DEF AccountPCs, AccountKinds, AccountResults, ServerError
  <2> QED BY <1>1, <1>s, <1>q, <2>2 DEF Register
<1>2. CASE BadForm(r)
  <2>1. PICK k \in {"register", "login", "active"} : \E s \in BadAnswers[k] :
          areq' = [areq EXCEPT ![r] = [@ EXCEPT !.pc = "done", !.kind = k, !.res = s]]
    BY <1>2 DEF BadForm
  <2>a. PICK s \in BadAnswers[k] :
          areq' = [areq EXCEPT ![r] = [@ EXCEPT !.pc = "done", !.kind = k, !.res = s]]
    BY <2>1
  <2>b. s \in {"invalid", ServerError}
    BY DEF BadAnswers
  <2>2. Becomes(r, "done", k, Nil, s)
    BY <1>f, <2>a, <2>b, AccountBegins DEF AccountPCs, AccountKinds, AccountResults, ServerError
  <2> QED BY <1>2, <1>s, <1>q, <2>b, <2>2 DEF BadForm, ServerError
<1>3. CASE Active(r)
  <2>1. PICK n \in Names :
          /\ areq' = [areq EXCEPT ![r] =
               [@ EXCEPT !.pc = "done", !.kind = "active", !.name = n,
                         !.res = IF token[n] = "expired" THEN "expired" ELSE "ok"]]
          /\ users' = IF token[n] = "expired" THEN users
                      ELSE [users EXCEPT ![n] = "active"]
    BY <1>0, <1>3 DEF Active
  <2>2. token' = token /\ session' = session
    BY <1>3 DEF Active
  <2>3. CASE token[n] = "expired"
    <3>1. Becomes(r, "done", "active", n, "expired") /\ users' = users
      BY <1>f, <2>1, AccountBegins, <2>3 DEF AccountPCs, AccountKinds, AccountResults, ServerError
    <3> QED BY <1>s, <1>q, <2>2, <3>1
  <2>4. CASE token[n] # "expired"
    <3>1. Becomes(r, "done", "active", n, "ok")
          /\ users' = [users EXCEPT ![n] = "active"]
      BY <1>f, <2>1, AccountBegins, <2>4 DEF AccountPCs, AccountKinds, AccountResults, ServerError
    <3> DEFINE m == areq'[r]
    <3>2. /\ areq' \in [Requests -> AccountRequest]
          /\ m.pc = "done" /\ m.kind = "active" /\ m.name = n /\ m.res = "ok"
          /\ \A q \in Requests \ {r} : areq'[q] = areq[q]
          /\ ~HalfRegistered(m) /\ ~PastCreate(m) /\ TokenAccepted(m)
      BY <3>1, AccountPut DEF AccountPCs, AccountResults
    <3>3. AccountLocal(m) /\ Opens(m, n)
      BY <3>2 DEF AccountLocal, Opens
    <3>4. users' \in [Names -> {Nil, "active", "inactive"}]
      BY <1>s, <3>1
    <3>5. AccountTypeOK'
      BY <2>2, <3>2, <3>4 DEF AccountInv, AccountTypeOK
    <3> HIDE DEF m
    <3> QED BY <1>0, <2>2, <3>1, <3>2, <3>3, <3>5, ActiveStep DEF m
  <2> QED BY <2>3, <2>4
<1>4. CASE Authenticate(r)
  <2>1. PICK n \in Names, password \in BOOLEAN :
          areq' = [areq EXCEPT ![r] =
                     [@ EXCEPT !.pc = IF password /\ users[n] = "active" THEN "login" ELSE "done",
                               !.kind = "login", !.name = n,
                               !.res = IF password /\ users[n] = "active" THEN Nil ELSE "mismatch"]]
    BY <1>0, <1>4 DEF Authenticate
  <2>2. \/ Becomes(r, "login", "login", n, Nil)
        \/ Becomes(r, "done", "login", n, "mismatch")
    BY <1>f, <2>1, AccountBegins DEF AccountPCs, AccountKinds, AccountResults, ServerError
  <2> QED BY <1>4, <1>s, <1>q, <2>2 DEF Authenticate
<1>5. CASE Logout(r)
  <2>1. PICK n \in Names :
          /\ session' = [session EXCEPT ![n] = FALSE]
          /\ areq' = [areq EXCEPT ![r] = [@ EXCEPT
                        !.pc = "done", !.kind = "logout", !.name = n, !.res = "ok"]]
    BY <1>0, <1>5 DEF Logout
  <2>2. Becomes(r, "done", "logout", n, "ok")
    BY <1>f, <2>1, AccountBegins DEF AccountPCs, AccountKinds, AccountResults, ServerError
  <2>3. session' \in [Names -> BOOLEAN]
    BY <1>s, <2>1
  <2> QED BY <1>5, <1>q, <2>2, <2>3 DEF Logout
<1> QED BY <1>1, <1>2, <1>3, <1>4, <1>5 DEF AccountStart

\* The views that go on, or die.
LEMMA AccountViewSteps ==
    ASSUME AccountInv, NEW r \in Requests, AccountView(r)
    PROVE AccountInv'
<1> USE AccountAssumption
<1> DEFINE l == areq[r]
           m == areq'[r]
<1>0. /\ l.pc \in {"create", "deactivate", "mail", "login"} /\ l.name \in Names /\ l.res = Nil
      /\ l.pc # "login" => l.kind = "register"
      /\ l.pc = "login" => l.kind = "login"
      /\ l.kind \in {"register", "login"}
  BY DEF AccountView, CreateUser, Deactivate, SendMail, Login, AccountCrash, AccountInv, AccountLocal
<1>1. /\ session \in [Names -> BOOLEAN] /\ users \in [Names -> {Nil, "active", "inactive"}]
      /\ token \in [Names -> {Nil, "queued", "mailed", "lost", "expired"}]
      /\ areq \in [Requests -> AccountRequest]
  BY DEF AccountInv, AccountTypeOK
<1>2. /\ HalfRegistered(l) <=> l.pc = "deactivate"
      /\ ~TokenAccepted(l)
      /\ PastCreate(l) <=> l.pc \in {"deactivate", "mail"}
  BY <1>0 DEF HalfRegistered, TokenAccepted, PastCreate
<1>g. /\ \A p \in AccountPCs : Goto(r, p) => Becomes(r, p, l.kind, l.name, Nil)
      /\ \A s \in AccountResults : Answer(r, s) => Becomes(r, "done", l.kind, l.name, s)
  BY <1>0, AccountMoves DEF Answer, AccountPCs
<1>q. ASSUME NEW p \in {"done", "dead"}, NEW s \in AccountResults,
             Becomes(r, p, l.kind, l.name, s),
             s # Nil, l.pc = "deactivate" <=> s = "deactivate",
             l.pc \notin {"deactivate", "mail"} /\ l.kind = "register" =>
                s \notin {"ok", "deactivate", "mail"},
             users' = users, session' \in [Names -> BOOLEAN],
             token' \in [Names -> {Nil, "queued", "mailed", "lost", "expired"}],
             \A n \in Names : token'[n] # Nil => token[n] # Nil \/ (PastCreate(l) /\ l.name = n)
      PROVE AccountInv'
  <2>1. p \in AccountPCs
    BY DEF AccountPCs
  <2>2. /\ areq' \in [Requests -> AccountRequest]
        /\ m.pc = p /\ m.kind = l.kind /\ m.name = l.name /\ m.res = s
        /\ \A q \in Requests \ {r} : areq'[q] = areq[q]
        /\ HalfRegistered(m) <=> "deactivate" \in {p, s}
        /\ PastCreate(m) <=> l.kind = "register" /\ (p \in {"deactivate", "mail"}
                                                   \/ s \in {"ok", "deactivate", "mail"})
    BY <1>0, <1>q, <2>1, AccountPut
  <2>3. AccountLocal(m)
    BY <1>0, <1>q, <2>2 DEF AccountLocal
  <2>4. AccountTypeOK'
    BY <1>1, <1>q, <2>2 DEF AccountTypeOK
  <2>5. \A n \in Names : Opens(l, n) => Opens(m, n)
    BY <1>2, <1>q, <2>2 DEF Opens
  <2>6. PastCreate(m) => PastCreate(l)
    BY <1>0, <1>2, <1>q, <2>2
  <2> HIDE DEF l, m
  <2> QED BY <1>q, <2>2, <2>3, <2>4, <2>5, <2>6, QuietStep DEF l, m
<1>3. CASE CreateUser(r)
  <2>1. l.pc = "create" /\ token' = token /\ session' = session
    BY <1>3 DEF CreateUser
  <2>2. CASE users[l.name] = Nil
    <3>1. /\ Becomes(r, "deactivate", l.kind, l.name, Nil)
          /\ users' = [users EXCEPT ![l.name] = "active"]
      BY <1>1, <1>3, <1>g, <2>2 DEF CreateUser, Goto, AccountPCs, AccountResults
    <3>2. /\ areq' \in [Requests -> AccountRequest]
          /\ m.pc = "deactivate" /\ m.kind = l.kind /\ m.name = l.name /\ m.res = Nil
          /\ \A q \in Requests \ {r} : areq'[q] = areq[q]
          /\ HalfRegistered(m) /\ PastCreate(m)
      BY <1>0, <2>1, <3>1, AccountPut DEF AccountPCs, AccountResults
    <3>3. AccountLocal(m) /\ Opens(m, l.name)
      BY <1>0, <2>1, <3>2 DEF AccountLocal, Opens
    <3>4. users' \in [Names -> {Nil, "active", "inactive"}]
      BY <1>1, <3>1
    <3>5. AccountTypeOK'
      BY <1>1, <2>1, <3>2, <3>4 DEF AccountTypeOK
    <3> HIDE DEF l, m
    <3> QED BY <1>0, <2>1, <2>2, <3>1, <3>2, <3>3, <3>5, CreateStep DEF l, m
  <2>3. CASE users[l.name] # Nil
    <3>1. Becomes(r, "done", l.kind, l.name, ServerError) /\ users' = users
      BY <1>3, <1>g, <2>3 DEF CreateUser, Answer, AccountPCs, AccountResults
    <3>2. ServerError \in AccountResults
      BY DEF AccountResults
    <3>3. ServerError \notin {Nil, "deactivate", "ok", "mail"}
      BY DEF ServerError
    <3> QED BY <1>1, <1>q, <2>1, <3>1, <3>2, <3>3
  <2> QED BY <2>2, <2>3
<1>4. CASE Deactivate(r)
  <2>1. l.pc = "deactivate" /\ token' = token /\ session' = session
        /\ users' = [users EXCEPT ![l.name] = "inactive"]
    BY <1>4 DEF Deactivate
  <2>2. Becomes(r, "mail", l.kind, l.name, Nil)
    BY <1>1, <1>4, <1>g DEF Deactivate, Goto, AccountPCs, AccountResults
  <2>3. /\ areq' \in [Requests -> AccountRequest]
        /\ m.pc = "mail" /\ m.kind = l.kind /\ m.name = l.name /\ m.res = Nil
        /\ \A q \in Requests \ {r} : areq'[q] = areq[q]
        /\ ~HalfRegistered(m) /\ PastCreate(m)
    BY <1>0, <2>1, <2>2, AccountPut DEF AccountPCs, AccountResults
  <2>4. AccountLocal(m)
    BY <1>0, <2>1, <2>3 DEF AccountLocal
  <2>5. users' \in [Names -> {Nil, "active", "inactive"}]
    BY <1>1, <2>1
  <2>6. AccountTypeOK'
    BY <1>1, <2>1, <2>3, <2>5 DEF AccountTypeOK
  <2> HIDE DEF l, m
  <2> QED BY <1>0, <1>2, <2>1, <2>3, <2>4, <2>6, DeactivateStep DEF l, m
<1>5. CASE SendMail(r)
  <2>1. l.pc = "mail" /\ users' = users /\ session' = session
    BY <1>5 DEF SendMail
  <2>2. CASE token' = [token EXCEPT ![l.name] = "queued"] /\ Answer(r, "ok")
    <3>1. Becomes(r, "done", l.kind, l.name, "ok")
      BY <2>2, <1>g DEF Answer, AccountPCs, AccountResults
    <3>2. /\ token' \in [Names -> {Nil, "queued", "mailed", "lost", "expired"}]
          /\ \A n \in Names : token'[n] # Nil => token[n] # Nil \/ (PastCreate(l) /\ l.name = n)
      BY <1>0, <1>1, <1>2, <2>1, <2>2
    <3>3. "ok" \in AccountResults
      BY DEF AccountResults
    <3> QED BY <1>1, <1>q, <2>1, <3>1, <3>2, <3>3
  <2>3. CASE token' = token /\ Answer(r, ServerError)
    <3>1. Becomes(r, "done", l.kind, l.name, ServerError)
      BY <2>3, <1>g DEF Answer, AccountPCs, AccountResults
    <3>2. ServerError \in AccountResults
      BY DEF AccountResults
    <3>3. ServerError \notin {Nil, "deactivate", "ok", "mail"}
      BY DEF ServerError
    <3> QED BY <1>1, <1>q, <2>1, <2>3, <3>1, <3>2, <3>3
  <2> QED BY <1>5, <2>2, <2>3 DEF SendMail
<1>6. CASE Login(r)
  <2>1. l.pc = "login" /\ users' = users /\ token' = token
        /\ session' = [session EXCEPT ![l.name] = TRUE]
    BY <1>6 DEF Login
  <2>2. Becomes(r, "done", l.kind, l.name, "ok")
    BY <1>6, <1>g DEF Login, Answer, AccountPCs, AccountResults
  <2>3. session' \in [Names -> BOOLEAN] /\ "ok" \in AccountResults
    BY <1>1, <2>1 DEF AccountResults
  <2> QED BY <1>0, <1>1, <1>q, <2>1, <2>2, <2>3
<1>7. CASE AccountCrash(r)
  <2>1. users' = users /\ token' = token /\ session' = session
        /\ l.pc \in AccountResults
    BY <1>0, <1>7 DEF AccountCrash, AccountResults
  <2>2. Becomes(r, "dead", l.kind, l.name, l.pc)
    BY <1>7, <2>1, AccountMoves DEF AccountCrash, AccountPCs
  <2> QED BY <1>0, <1>1, <1>q, <2>1, <2>2
<1> QED BY <1>3, <1>4, <1>5, <1>6, <1>7 DEF AccountView

\* Every step of the accounts keeps their invariant.
LEMMA AccountSteps ==
    ASSUME AccountInv, [AccountStep]_accountVars
    PROVE AccountInv'
<1>1. CASE \E r \in Requests : AccountStart(r)
  BY <1>1, AccountStartSteps
<1>2. CASE \E r \in Requests : AccountView(r)
  BY <1>2, AccountViewSteps
<1>3. CASE AccountWorld
  <2>1. PICK n \in Names : MailTask(n) \/ TokenExpires(n)
    BY <1>3 DEF AccountWorld
  <2>2. /\ users' = users /\ areq' = areq /\ session' = session
        /\ token[n] # Nil
        /\ \E v \in {"mailed", "lost", "expired"} : token' = [token EXCEPT ![n] = v]
    BY <2>1, AccountAssumption DEF MailTask, TokenExpires
  <2>3. AccountTypeOK' /\ \A x \in Names : token'[x] # Nil => token[x] # Nil
    BY <2>2 DEF AccountInv, AccountTypeOK
  <2> QED BY <2>2, <2>3, WorldStep
<1>4. CASE UNCHANGED accountVars
  <2>1. AccountTypeOK'
    BY <1>4 DEF accountVars, AccountInv, AccountTypeOK
  <2> QED BY <1>4, <2>1, WorldStep DEF accountVars
<1> QED BY <1>1, <1>2, <1>3, <1>4 DEF AccountStep

\* An account that was active once counts as opened from then on.
LEMMA OpenedGrows ==
    ASSUME AccountInv, [AccountStep]_accountVars, NEW u \in Names, Opened(u)
    PROVE Opened(u)'
<1> USE AccountAssumption
<1>0. areq \in [Requests -> AccountRequest] /\ \A r \in Requests : AccountLocal(areq[r])
  BY DEF AccountInv, AccountTypeOK
<1>1. CASE areq' = areq
  BY <1>1 DEF Opened
<1>2. ASSUME NEW r \in Requests, AccountStart(r) PROVE Opened(u)'
  <2>1. areq[r] = AccountIdle
    BY <1>0, <1>2 DEF AccountLocal, AccountStart, Register, BadForm, Active, Authenticate, Logout
  <2>2. ~OpenedBy(areq[r], u)
    BY <2>1 DEF OpenedBy, AccountIdle
  <2>3. \A q \in Requests \ {r} : areq'[q] = areq[q]
    BY <1>0, <1>2 DEF AccountStart, Register, BadForm, Active, Authenticate, Logout
  <2> QED BY <2>2, <2>3 DEF Opened
<1>3. ASSUME NEW r \in Requests, AccountView(r) PROVE Opened(u)'
  <2>1. /\ areq[r].pc \in {"create", "deactivate", "mail", "login"} /\ areq[r].res = Nil
        /\ areq[r].pc = "login" => areq[r].kind = "login"
    BY <1>0, <1>3 DEF AccountLocal, AccountView, CreateUser, Deactivate, SendMail, Login, AccountCrash
  <2>2. \A q \in Requests \ {r} : areq'[q] = areq[q]
    BY <1>0, <1>3 DEF AccountView, CreateUser, Deactivate, SendMail, Login, AccountCrash, Goto, Answer
  <2>3. OpenedBy(areq[r], u) => OpenedBy(areq'[r], u)
    <3> SUFFICES ASSUME OpenedBy(areq[r], u) PROVE OpenedBy(areq'[r], u)
      OBVIOUS
    <3>1. areq[r].pc \in {"deactivate", "mail"} /\ areq[r].kind = "register" /\ areq[r].name = u
      BY <2>1 DEF OpenedBy, TokenAccepted
    <3>2. \/ \E p \in {"mail"} : Goto(r, p)
          \/ \E s \in {"ok", ServerError} : Answer(r, s)
          \/ areq' = [areq EXCEPT ![r] = [@ EXCEPT !.pc = "dead", !.res = areq[r].pc]]
      BY <1>3, <3>1 DEF AccountView, CreateUser, Deactivate, SendMail, Login, AccountCrash
    <3>3. /\ areq'[r].kind = "register" /\ areq'[r].name = u /\ areq'[r].pc # "create"
          /\ areq'[r].res \in {Nil, "ok", ServerError, "deactivate", "mail"}
      <4>1. \E p \in {"mail", "done", "dead"}, s \in {Nil, "ok", ServerError, "deactivate", "mail"} :
              Becomes(r, p, "register", u, s)
        <5>1. ASSUME Goto(r, "mail") PROVE Becomes(r, "mail", "register", u, Nil)
          BY <2>1, <3>1, <5>1, AccountMoves DEF AccountPCs
        <5>2. ASSUME NEW s \in {"ok", ServerError}, Answer(r, s)
              PROVE Becomes(r, "done", "register", u, s)
          BY <3>1, <5>2, AccountMoves DEF Answer, AccountPCs, AccountResults
        <5>3. ASSUME areq' = [areq EXCEPT ![r] = [@ EXCEPT !.pc = "dead", !.res = areq[r].pc]]
              PROVE Becomes(r, "dead", "register", u, areq[r].pc)
          BY <3>1, <5>3, AccountMoves DEF AccountPCs, AccountResults
        <5> QED BY <3>1, <3>2, <5>1, <5>2, <5>3
      <4> QED BY <4>1 DEF Becomes
    <3> QED BY <3>3 DEF OpenedBy, ServerError
  <2> QED BY <2>2, <2>3 DEF Opened
<1>4. AccountWorld \/ UNCHANGED accountVars => areq' = areq
  BY DEF AccountWorld, MailTask, TokenExpires, accountVars
<1> QED BY <1>1, <1>2, <1>3, <1>4 DEF AccountStep

\* A session that counts is one of an account that was opened.
LEMMA LoggedInOpened ==
    ASSUME AccountInv, NEW u \in Names, LoggedIn(u)
    PROVE Opened(u)
<1>1. u \in Customers \/ \E r \in Requests : Opens(areq[r], u)
  BY DEF AccountInv, ActivatedByToken, LoggedIn, Opens
<1>2. ASSUME NEW r \in Requests, Opens(areq[r], u) PROVE OpenedBy(areq[r], u)
  <2>1. AccountLocal(areq[r])
    BY DEF AccountInv
  <2> QED BY <1>2, <2>1, AccountAssumption
          DEF Opens, OpenedBy, HalfRegistered, PastCreate, AccountLocal
<1> QED BY <1>1, <1>2 DEF Opened

------------------------------------------------------------------------------
(* Addresses.                                                               *)

\* The inductive invariant of the addresses.
AddressInv == AddressTypeOK /\ OneDefaultAddress

\* There is no address at the start.
LEMMA AddressStarts == AddressInit => AddressInv
<1> SUFFICES ASSUME AddressInit PROVE AddressInv
  OBVIOUS
<1>1. AddressIdle \in AddressRequest
  BY DEF AddressIdle, AddressRequest
<1>2. AddressTypeOK
  BY <1>1 DEF AddressInit, AddressTypeOK
<1>3. \A u : Rows(u) = {} /\ Defaults(u) = {}
  BY DEF AddressInit, Rows, Defaults
<1>4. \A r \in Requests : dreq[r] = AddressIdle /\ address[r] = Nil
  BY DEF AddressInit
<1>5. SomeDefault /\ TwoDefaultsOnlyByRace
  BY <1>3, <1>4 DEF SomeDefault, TwoDefaultsOnlyByRace, AddressIdle
<1>6. AddressIdle.pc = "idle"
  BY DEF AddressIdle
<1>7. \A r \in Requests : AddressLocal(dreq[r], address[r])
  BY <1>4, <1>6 DEF AddressLocal
<1> QED BY <1>2, <1>5, <1>7 DEF AddressInv, OneDefaultAddress

\* Request r, and no other, gets these local variables.
DBecomes(r, p, u, d, s) ==
    /\ dreq' \in [Requests -> AddressRequest]
    /\ \A q \in Requests \ {r} : dreq'[q] = dreq[q]
    /\ dreq'[r].pc = p /\ dreq'[r].user = u /\ dreq'[r].is_default = d /\ dreq'[r].seen = s

\* A step that inserts no row, of a request that has none: a form that will be
\* saved saw a default address or will insert the first one.
LEMMA NoRowStep ==
    ASSUME AddressInv, address' = address, NEW r \in Requests, address[r] = Nil,
           NEW p, NEW u, NEW d \in BOOLEAN, NEW s, DBecomes(r, p, u, d, s),
           p # "idle", p = "create" => u \in Names,
           p = "create" /\ ~d => Defaults(u) # {}, d => s = {}
    PROVE AddressInv'
<1>0. AddressTypeOK /\ OneDefaultAddress
  BY DEF AddressInv
<1>1. AddressTypeOK'
  BY <1>0 DEF AddressTypeOK, DBecomes
<1>2. \A x : Rows(x)' = Rows(x) /\ Defaults(x)' = Defaults(x)
  BY DEF Rows, Defaults
<1>3. \A q \in Requests : AddressLocal(dreq'[q], address'[q])
  BY <1>0 DEF DBecomes, OneDefaultAddress, AddressLocal
<1>4. \A x : r \notin Defaults(x)
  BY DEF Rows, Defaults
<1>5. SomeDefault'
  <2>1. ASSUME NEW q \in Requests, NEW x, x = dreq'[q].user,
               dreq'[q].pc = "create", ~dreq'[q].is_default
        PROVE Defaults(x) # {}
    BY <1>0, <2>1 DEF OneDefaultAddress, SomeDefault, DBecomes
  <2>2. \A x \in Names : Rows(x)' # {} => Defaults(x)' # {}
    BY <1>0, <1>2 DEF OneDefaultAddress, SomeDefault
  <2>3. ASSUME NEW q \in Requests, dreq'[q].pc = "create", ~dreq'[q].is_default
        PROVE Defaults(dreq[q].user)' # {}
    <3>1. PICK x : x = dreq'[q].user
      OBVIOUS
    <3>2. Defaults(x)' # {}
      BY <1>2, <2>1, <2>3, <3>1
    <3> QED BY <3>1, <3>2 DEF Defaults, Rows
  <2> QED BY <2>2, <2>3 DEF SomeDefault
<1>6. TwoDefaultsOnlyByRace'
  <2>1. \A x \in Names : \A q, t \in Defaults(x) :
          q # t => q \notin dreq'[t].seen /\ t \notin dreq'[q].seen
    <3>1. \A x \in Names : Defaults(x) \subseteq Requests \ {r}
      BY <1>4 DEF Defaults, Rows
    <3> QED BY <1>0, <3>1 DEF DBecomes, OneDefaultAddress, TwoDefaultsOnlyByRace
  <2>2. \A q \in Requests : dreq'[q].is_default => dreq'[q].seen = {}
    BY <1>0 DEF DBecomes, OneDefaultAddress, TwoDefaultsOnlyByRace
  <2> QED BY <1>2, <2>1, <2>2 DEF TwoDefaultsOnlyByRace
<1> QED BY <1>1, <1>3, <1>5, <1>6 DEF AddressInv, OneDefaultAddress

\* The query, the forms that are refused, and a crash.
LEMMA AddressQuietSteps ==
    ASSUME AddressInv, NEW r \in Requests,
           (\E u \in Names : AddressStart(r, u)) \/ AddressCrash(r)
    PROVE AddressInv'
<1>0. /\ dreq \in [Requests -> AddressRequest] /\ address' = address
      /\ AddressLocal(dreq[r], address[r]) /\ dreq[r].pc \in {"idle", "create"}
  BY DEF AddressInv, AddressTypeOK, OneDefaultAddress, AddressStart, GetDefaultAddress,
         AddressBadForm, AddressCrash
<1>1. address[r] = Nil
  BY <1>0 DEF AddressLocal
<1>2. ASSUME NEW u \in Names, GetDefaultAddress(r, u) PROVE AddressInv'
  <2>1. PICK kind \in {"page", "form"} :
          dreq' = [dreq EXCEPT ![r] =
            [@ EXCEPT !.user = u, !.seen = Rows(u),
                      !.is_default = kind = "form" /\ Defaults(u) = {},
                      !.pc = IF Cardinality(Defaults(u)) =< 1 /\ kind = "form"
                             THEN "create" ELSE "done",
                      !.res = IF Cardinality(Defaults(u)) > 1 THEN ServerError
                              ELSE IF kind = "page" THEN "page" ELSE Nil]]
    BY <1>2 DEF GetDefaultAddress
  <2> DEFINE d == kind = "form" /\ Defaults(u) = {}
             p == IF Cardinality(Defaults(u)) =< 1 /\ kind = "form" THEN "create" ELSE "done"
             s == IF Cardinality(Defaults(u)) > 1 THEN ServerError
                  ELSE IF kind = "page" THEN "page" ELSE Nil
             w == Rows(u)
  <2>2. /\ d \in BOOLEAN /\ p \in {"create", "done"} /\ w \in SUBSET Requests
        /\ s \in {Nil, "page", "redirect", ServerError}
    BY DEF Rows
  <2>3. dreq' = [dreq EXCEPT ![r] = [@ EXCEPT !.user = u, !.seen = w, !.is_default = d,
                                              !.pc = p, !.res = s]]
    BY <2>1
  <2>4. p = "create" /\ ~d => Defaults(u) # {}
    OBVIOUS
  <2>5. d => w = {}
    BY DEF AddressInv, OneDefaultAddress, SomeDefault
  <2> HIDE DEF d, p, s, w
  <2>6. DBecomes(r, p, u, d, w)
    BY <1>0, <2>2, <2>3 DEF DBecomes, AddressRequest
  <2> QED BY <1>0, <1>1, <2>2, <2>4, <2>5, <2>6, NoRowStep
<1>3. ASSUME NEW u \in Names, AddressBadForm(r, u) PROVE AddressInv'
  <2>1. dreq[r] = AddressIdle
    BY <1>0, <1>3 DEF AddressLocal, AddressBadForm
  <2>2. dreq' = [dreq EXCEPT ![r] = [@ EXCEPT !.user = u, !.pc = "done", !.res = "page"]]
    BY <1>3 DEF AddressBadForm
  <2>3. dreq[r].is_default = FALSE /\ dreq[r].seen = {}
    BY <2>1 DEF AddressIdle
  <2>4. DBecomes(r, "done", u, FALSE, {})
    BY <1>0, <2>2, <2>3 DEF DBecomes, AddressRequest
  <2> QED BY <1>0, <1>1, <2>4, NoRowStep
<1>4. ASSUME AddressCrash(r) PROVE AddressInv'
  <2> DEFINE d == dreq[r].is_default
             u == dreq[r].user
             w == dreq[r].seen
  <2>1. dreq' = [dreq EXCEPT ![r].pc = "dead"]
    BY <1>4 DEF AddressCrash
  <2>2. DBecomes(r, "dead", u, d, w)
    BY <1>0, <2>1 DEF DBecomes, AddressRequest
  <2>3. d \in BOOLEAN /\ (d => w = {})
    BY <1>0 DEF AddressRequest, AddressInv, OneDefaultAddress, TwoDefaultsOnlyByRace
  <2> HIDE DEF d, u, w
  <2> QED BY <1>0, <1>1, <2>2, <2>3, NoRowStep
<1> QED BY <1>2, <1>3, <1>4 DEF AddressStart

\* A row is inserted.
LEMMA CreateAddressStep ==
    ASSUME AddressInv, NEW r \in Requests, CreateAddress(r)
    PROVE AddressInv'
<1>0. AddressTypeOK /\ OneDefaultAddress
  BY DEF AddressInv
<1>1. PICK u, d, w : u = dreq[r].user /\ d = dreq[r].is_default /\ w = dreq[r].seen
  OBVIOUS
<1>2. /\ u \in Names /\ d \in BOOLEAN /\ dreq[r].pc = "create" /\ address[r] = Nil
      /\ ~d => Defaults(u) # {}
      /\ d => w = {}
  BY <1>0, <1>1 DEF AddressTypeOK, AddressRequest, OneDefaultAddress, AddressLocal, CreateAddress,
     SomeDefault, TwoDefaultsOnlyByRace
<1>3. PICK row : row = [user |-> u, is_default |-> d]
  OBVIOUS
<1>4. row \in AddressRow /\ row.user = u /\ row.is_default = d /\ row # Nil
  BY <1>2, <1>3, AddressAssumption DEF AddressRow
<1>5. /\ address' \in [Requests -> {Nil} \cup AddressRow]
      /\ address'[r] = row /\ \A q \in Requests \ {r} : address'[q] = address[q]
  BY <1>0, <1>1, <1>3, <1>4 DEF AddressTypeOK, CreateAddress
<1>6. DBecomes(r, "done", u, d, w)
  BY <1>0, <1>1 DEF CreateAddress, DBecomes, AddressTypeOK, AddressRequest
<1>7. AddressTypeOK'
  BY <1>5, <1>6 DEF AddressTypeOK, DBecomes
<1>8. \A q \in Requests : AddressLocal(dreq'[q], address'[q])
  BY <1>0, <1>4, <1>5, <1>6 DEF DBecomes, AddressLocal, OneDefaultAddress
<1>9. /\ \A x : x # u => Rows(x)' = Rows(x) /\ Defaults(x)' = Defaults(x)
      /\ Rows(u)' = Rows(u) \cup {r}
      /\ Defaults(u)' = IF d THEN Defaults(u) \cup {r} ELSE Defaults(u)
  BY <1>2, <1>4, <1>5 DEF Rows, Defaults
<1>10. \A x : Defaults(x) \subseteq Defaults(x)'
  BY <1>9
<1>11. SomeDefault'
  <2>1. \A x \in Names : Rows(x)' # {} => Defaults(x)' # {}
    BY <1>0, <1>2, <1>9 DEF OneDefaultAddress, SomeDefault
  <2>2. ASSUME NEW q \in Requests, dreq'[q].pc = "create", ~dreq'[q].is_default
        PROVE Defaults(dreq[q].user)' # {}
    <3>1. PICK x : x = dreq'[q].user
      OBVIOUS
    <3>2. q # r /\ dreq'[q] = dreq[q]
      BY <1>6, <2>2 DEF DBecomes
    <3>3. Defaults(x)' # {}
      BY <1>0, <1>10, <2>2, <3>1, <3>2 DEF OneDefaultAddress, SomeDefault
    <3> QED BY <3>1, <3>3 DEF Defaults, Rows
  <2> QED BY <2>1, <2>2 DEF SomeDefault
<1>12. \A q \in Requests : dreq'[q].is_default = dreq[q].is_default /\ dreq'[q].seen = dreq[q].seen
  BY <1>1, <1>6 DEF DBecomes
<1>13. \A q \in Requests : dreq'[q].is_default => dreq'[q].seen = {}
  BY <1>0, <1>12 DEF OneDefaultAddress, TwoDefaultsOnlyByRace
<1>14. TwoDefaultsOnlyByRace'
  <2>1. \A x \in Names : \A q \in Defaults(x)' : q \in Requests /\ dreq'[q].is_default
    BY <1>8, <1>7, AddressAssumption DEF Defaults, Rows, AddressLocal
  <2>2. \A x \in Names : \A q, t \in Defaults(x)' :
          q # t => q \notin dreq'[t].seen /\ t \notin dreq'[q].seen
    BY <1>13, <2>1
  <2> QED BY <1>13, <2>2 DEF TwoDefaultsOnlyByRace
<1> QED BY <1>7, <1>8, <1>11, <1>14 DEF AddressInv, OneDefaultAddress

\* Every step of the address views keeps their invariant.
LEMMA AddressSteps ==
    ASSUME AddressInv, [AddressStep]_addressVars
    PROVE AddressInv'
<1>1. CASE AddressStep
  BY <1>1, AddressQuietSteps, CreateAddressStep DEF AddressStep, AddressView
<1>2. CASE UNCHANGED addressVars
  BY <1>2 DEF addressVars, AddressInv, AddressTypeOK, OneDefaultAddress, SomeDefault,
     TwoDefaultsOnlyByRace, Rows, Defaults
<1> QED BY <1>1, <1>2
------------------------------------------------------------------------------
(* The history.                                                             *)

\* What lrem keeps of the first i entries, when g has it for the shorter
\* prefixes; and g has it for every prefix up to n.
KeptStep(list, s, g, i) ==
    IF i = 0 THEN <<>>
    ELSE IF list[i] = s THEN g[i - 1] ELSE Append(g[i - 1], list[i])

IsKept(list, s, n, g) == g = [i \in 0..n |-> KeptStep(list, s, g, i)]

\* The recursion of lrem has a solution.
LEMMA KeptExists ==
    ASSUME NEW list, NEW s
    PROVE \A n \in Nat : \E g : IsKept(list, s, n, g)
<1> DEFINE T == {n \in Nat : \E g : IsKept(list, s, n, g)}
<1>1. 0 \in T
  <2> DEFINE g == [i \in 0..0 |-> <<>>]
  <2>0. \A i \in 0..0 : KeptStep(list, s, g, i) = <<>>
    BY DEF KeptStep
  <2>1. g = [i \in 0..0 |-> KeptStep(list, s, g, i)]
    BY <2>0
  <2>2. IsKept(list, s, 0, g)
    BY <2>1 DEF IsKept
  <2> HIDE DEF g
  <2>3. \E g1 : IsKept(list, s, 0, g1)
    BY <2>2
  <2> QED BY <2>3
<1>2. ASSUME NEW n \in Nat, n \in T PROVE n + 1 \in T
  <2>1. PICK g : IsKept(list, s, n, g)
    BY <1>2
  <2> DEFINE h == [i \in 0..(n + 1) |-> KeptStep(list, s, g, i)]
  <2>a. g = [i \in 0..n |-> KeptStep(list, s, g, i)]
    BY <2>1 DEF IsKept
  <2>b. \A i \in 0..n : g[i] = KeptStep(list, s, g, i)
    BY <2>a
  <2>c. /\ \A i \in 0..n : i \in 0..(n + 1)
        /\ \A i \in 0..(n + 1) : i # 0 => i - 1 \in 0..n
    OBVIOUS
  <2>2. \A i \in 0..n : h[i] = g[i]
    BY <2>b, <2>c
  <2>d. h = [i \in 0..(n + 1) |-> KeptStep(list, s, g, i)]
    OBVIOUS
  <2> HIDE DEF h
  <2>3. \A i \in 0..(n + 1) : KeptStep(list, s, h, i) = KeptStep(list, s, g, i)
    <3> SUFFICES ASSUME NEW i \in 0..(n + 1), i # 0
                 PROVE  KeptStep(list, s, h, i) = KeptStep(list, s, g, i)
      BY DEF KeptStep
    <3>1. h[i - 1] = g[i - 1]
      BY <2>c, <2>2
    <3> QED BY <3>1 DEF KeptStep
  <2>e. [i \in 0..(n + 1) |-> KeptStep(list, s, g, i)]
          = [i \in 0..(n + 1) |-> KeptStep(list, s, h, i)]
    BY <2>3
  <2>4. IsKept(list, s, n + 1, h)
    BY <2>d, <2>e DEF IsKept
  <2>5. \E g1 : IsKept(list, s, n + 1, g1)
    BY <2>4
  <2> QED BY <2>5
<1> HIDE DEF T
<1>3. \A n \in Nat : n \in T
  BY <1>1, <1>2, NatSetInduction
<1> QED BY <1>3 DEF T

\* t is what is left of the first n entries of list without s.
Remains(t, list, s, n, S) ==
    /\ t \in Seq(S) /\ Len(t) =< n
    /\ \A i \in 1..Len(t) : t[i] # s /\ \E a \in 1..n : list[a] = t[i]
    /\ \A a \in 1..n : list[a] # s => \E i \in 1..Len(t) : t[i] = list[a]
    /\ \A i, j \in 1..Len(t) : i # j /\ t[i] = t[j] =>
          \E a, b \in 1..n : a # b /\ list[a] = t[i] /\ list[b] = t[i]

\* One more entry is looked at.
LEMMA RemainsNext ==
    ASSUME NEW S, NEW list \in Seq(S), NEW s, NEW n \in Nat, n < Len(list),
           NEW t, Remains(t, list, s, n, S)
    PROVE /\ list[n + 1] = s => Remains(t, list, s, n + 1, S)
          /\ list[n + 1] # s => Remains(Append(t, list[n + 1]), list, s, n + 1, S)
<1>0. /\ t \in Seq(S) /\ Len(t) \in Nat /\ Len(t) =< n /\ n + 1 \in 1..(n + 1)
      /\ list[n + 1] \in S
      /\ \A i \in 1..n : i \in 1..(n + 1) /\ i # n + 1
      /\ \A i \in 1..(n + 1) : i = n + 1 \/ i \in 1..n
  BY DEF Remains
<1>1. ASSUME list[n + 1] = s PROVE Remains(t, list, s, n + 1, S)
  BY <1>0, <1>1 DEF Remains
<1>2. ASSUME list[n + 1] # s PROVE Remains(Append(t, list[n + 1]), list, s, n + 1, S)
  <2> DEFINE u == Append(t, list[n + 1])
             k == Len(t)
  <2>1. /\ u \in Seq(S) /\ Len(u) = k + 1 /\ u[k + 1] = list[n + 1]
        /\ \A i \in 1..k : u[i] = t[i]
    BY <1>0
  <2>2. /\ k \in Nat /\ k + 1 \in 1..(k + 1)
        /\ \A i \in 1..k : i \in 1..(k + 1)
        /\ \A i \in 1..(k + 1) : i = k + 1 \/ i \in 1..k
    BY <1>0
  <2>3. k + 1 =< n + 1
    BY <1>0
  <2>a. /\ \A i \in 1..k : t[i] # s /\ \E a \in 1..n : list[a] = t[i]
        /\ \A a \in 1..n : list[a] # s => \E i \in 1..k : t[i] = list[a]
        /\ \A i, j \in 1..k : i # j /\ t[i] = t[j] =>
              \E a, b \in 1..n : a # b /\ list[a] = t[i] /\ list[b] = t[i]
    BY DEF Remains
  <2> HIDE DEF u, k
  <2>4. \A i \in 1..(k + 1) : u[i] # s /\ \E a \in 1..(n + 1) : list[a] = u[i]
    BY <1>0, <1>2, <2>1, <2>2, <2>a
  <2>5. ASSUME NEW a \in 1..(n + 1), list[a] # s PROVE \E i \in 1..(k + 1) : u[i] = list[a]
    <3>1. CASE a = n + 1
      BY <2>1, <2>2, <3>1
    <3>2. CASE a \in 1..n
      <4>1. PICK i \in 1..k : t[i] = list[a]
        BY <2>5, <2>a, <3>2
      <4> QED BY <2>1, <2>2, <4>1
    <3> QED BY <1>0, <3>1, <3>2
  <2>6. ASSUME NEW i \in 1..(k + 1), NEW j \in 1..(k + 1), i # j, u[i] = u[j]
        PROVE \E a, b \in 1..(n + 1) : a # b /\ list[a] = u[i] /\ list[b] = u[i]
    <3>1. CASE i \in 1..k /\ j \in 1..k
      <4>1. t[i] = u[i] /\ t[j] = u[j]
        BY <2>1, <3>1
      <4>2. PICK a \in 1..n, b \in 1..n : a # b /\ list[a] = t[i] /\ list[b] = t[i]
        BY <2>6, <2>a, <3>1, <4>1
      <4> QED BY <1>0, <4>1, <4>2
    <3>2. CASE i = k + 1
      <4>1. j \in 1..k
        BY <2>2, <2>6, <3>2
      <4>2. PICK b \in 1..n : list[b] = u[j]
        BY <2>1, <2>a, <4>1
      <4> QED BY <1>0, <2>1, <2>6, <3>2, <4>2
    <3>3. CASE j = k + 1
      <4>1. i \in 1..k
        BY <2>2, <2>6, <3>3
      <4>2. PICK b \in 1..n : list[b] = u[i]
        BY <2>1, <2>a, <4>1
      <4> QED BY <1>0, <2>1, <2>6, <3>3, <4>2
    <3> QED BY <2>2, <3>1, <3>2, <3>3
  <2>7. Remains(u, list, s, n + 1, S)
    BY <2>1, <2>3, <2>4, <2>5, <2>6 DEF Remains
  <2> QED BY <2>7 DEF u
<1> QED BY <1>1, <1>2

\* What lrem leaves of a list: the other entries, and each as often.
LEMMA LRemRemains ==
    ASSUME NEW S, NEW list \in Seq(S), NEW s
    PROVE Remains(LRem(list, s), list, s, Len(list), S)
<1> DEFINE P(g) == g = [i \in 0..Len(list) |->
                          IF i = 0 THEN <<>>
                          ELSE IF list[i] = s THEN g[i - 1] ELSE Append(g[i - 1], list[i])]
<1>1. LRem(list, s) = (CHOOSE g : P(g))[Len(list)]
  BY DEF LRem
<1>2. \A g : IsKept(list, s, Len(list), g) <=> P(g)
  BY DEF IsKept, KeptStep
<1>3. Len(list) \in Nat
  OBVIOUS
<1> HIDE DEF P
<1>4. \E g : P(g)
  BY <1>2, <1>3, KeptExists
<1>5. PICK g : IsKept(list, s, Len(list), g) /\ LRem(list, s) = g[Len(list)]
  BY <1>1, <1>2, <1>4
<1> DEFINE T == {n \in Nat : n =< Len(list) => Remains(g[n], list, s, n, S)}
<1>6. 0 \in T
  <2>1. g[0] = <<>>
    BY <1>3, <1>5 DEF IsKept, KeptStep
  <2>2. Remains(<<>>, list, s, 0, S)
    BY DEF Remains
  <2> QED BY <2>1, <2>2
<1>7. ASSUME NEW n \in Nat, n \in T PROVE n + 1 \in T
  <2> SUFFICES ASSUME n + 1 =< Len(list) PROVE Remains(g[n + 1], list, s, n + 1, S)
    OBVIOUS
  <2>1. n + 1 \in 0..Len(list) /\ n + 1 # 0 /\ (n + 1) - 1 = n /\ n < Len(list)
    BY <1>3
  <2>2. g[n + 1] = IF list[n + 1] = s THEN g[n] ELSE Append(g[n], list[n + 1])
    BY <1>5, <2>1 DEF IsKept, KeptStep
  <2>3. Remains(g[n], list, s, n, S)
    BY <1>7, <2>1
  <2> QED BY <2>1, <2>2, <2>3, RemainsNext
<1>8. Len(list) \in T
  <2> HIDE DEF T
  <2> QED BY <1>3, <1>6, <1>7, NatSetInduction
<1> QED BY <1>3, <1>5, <1>8

\* The inductive invariant of the history and the item list.
HistoryInv == HistoryTypeOK /\ HistoryIsRecent /\ ListPagesExist

\* A request that has not begun.
LEMMA HistoryIdleIs ==
    /\ HistoryIdle.pc = "idle" /\ HistoryIdle.kind = Nil /\ HistoryIdle.user = Nil
    /\ HistoryIdle.goods_id = Nil /\ HistoryIdle.sku_ids = <<>> /\ HistoryIdle.page = 0
    /\ HistoryIdle.num_pages = 0 /\ HistoryIdle.res = Nil /\ HistoryIdle.overlap = {}
BY DEF HistoryIdle

\* The histories start empty, and no view has begun.
LEMMA HistoryStarts == HistoryInit => HistoryInv
<1> SUFFICES ASSUME HistoryInit PROVE HistoryInv
  OBVIOUS
<1> USE HistoryAssumption, AccountAssumption
<1>1. HistoryIdle \in HistoryRequest
  <2>1. /\ "idle" \in HistoryPCs /\ Nil \in HistoryKinds /\ Nil \in HistoryResults
        /\ Nil \in Names \cup {Nil} /\ Nil \in Skus \cup {Nil} /\ <<>> \in Seq(Skus)
        /\ 0 \in Nat /\ {} \in SUBSET Requests
    BY DEF HistoryPCs, HistoryKinds, HistoryResults
  <2> QED BY <2>1 DEF HistoryIdle, HistoryRequest
<1>2. HistoryTypeOK
  BY <1>1 DEF HistoryInit, HistoryTypeOK
<1>3. /\ \A r \in Requests : hreq[r] = HistoryIdle
      /\ \A u \in Names : history[u] = <<>>
  BY DEF HistoryInit
<1>4. HistoryLocal(HistoryIdle)
  BY HistoryIdleIs DEF HistoryLocal
<1>5. HistoryBounded
  <2>1. \A u \in Names : Untrimmed(u) \subseteq Requests /\ IsFiniteSet(Untrimmed(u))
    BY FS_Subset DEF Untrimmed
  <2>2. \A u \in Names : Cardinality(Untrimmed(u)) \in Nat
    BY <2>1, FS_CardinalityType
  <2> QED BY <1>3, <2>2 DEF HistoryBounded
<1>6. TwiceOnlyByRace
  BY <1>3, HistoryIdleIs DEF TwiceOnlyByRace
<1>7. LinksAreAWindow /\ OnlyPageZeroFails
  BY <1>3, HistoryIdleIs DEF LinksAreAWindow, OnlyPageZeroFails
<1> QED BY <1>2, <1>3, <1>4, <1>5, <1>6, <1>7 DEF HistoryInv, HistoryIsRecent, ListPagesExist

\* A list is trimmed, or does not grow, or grows by the entry of a view that
\* is going to trim it.
LEMMA BoundedStep ==
    ASSUME HistoryTypeOK, HistoryTypeOK', HistoryBounded,
           \A u \in Names :
              \/ Len(history'[u]) =< Keep
              \/ /\ Len(history'[u]) =< Len(history[u])
                 /\ Untrimmed(u) \subseteq Untrimmed(u)'
              \/ /\ Len(history'[u]) = Len(history[u]) + 1
                 /\ \E r \in Untrimmed(u)' : r \notin Untrimmed(u)
                 /\ Untrimmed(u) \subseteq Untrimmed(u)'
    PROVE HistoryBounded'
<1> USE HistoryAssumption, AccountAssumption
<1> SUFFICES ASSUME NEW u \in Names
             PROVE Len(history'[u]) =< Keep + Cardinality(Untrimmed(u)')
  BY DEF HistoryBounded
<1> DEFINE A == Untrimmed(u)
           B == Untrimmed(u)'
<1>1. IsFiniteSet(A) /\ IsFiniteSet(B)
  <2>1. A \subseteq Requests /\ B \subseteq Requests
    BY DEF Untrimmed
  <2> QED BY <2>1, FS_Subset
<1>2. Len(history[u]) \in Nat /\ Len(history'[u]) \in Nat /\ Keep \in Nat
  BY DEF HistoryTypeOK
<1>3. Len(history[u]) =< Keep + Cardinality(A)
  BY DEF HistoryBounded
<1> HIDE DEF A, B
<1>4. Cardinality(A) \in Nat /\ Cardinality(B) \in Nat
  BY <1>1, FS_CardinalityType
<1>5. A \subseteq B => Cardinality(A) =< Cardinality(B)
  BY <1>1, FS_Subset
<1>6. ASSUME A \subseteq B, NEW r \in B, r \notin A
      PROVE Cardinality(A) + 1 =< Cardinality(B)
  <2>1. IsFiniteSet(A \cup {r}) /\ Cardinality(A \cup {r}) = Cardinality(A) + 1
    BY <1>1, <1>6, FS_AddElement
  <2>2. A \cup {r} \subseteq B
    BY <1>6
  <2>3. Cardinality(A \cup {r}) =< Cardinality(B)
    BY <1>1, <2>2, FS_Subset
  <2> QED BY <2>1, <2>3
<1>7. \/ Len(history'[u]) =< Keep
      \/ Len(history'[u]) =< Len(history[u]) /\ A \subseteq B
      \/ /\ Len(history'[u]) = Len(history[u]) + 1
         /\ A \subseteq B /\ \E r \in B : r \notin A
  BY DEF A, B
<1>8. CASE Len(history'[u]) =< Keep
  BY <1>2, <1>4, <1>8 DEF B
<1>9. CASE Len(history'[u]) =< Len(history[u]) /\ A \subseteq B
  BY <1>2, <1>3, <1>4, <1>5, <1>9 DEF B
<1>10. CASE /\ Len(history'[u]) = Len(history[u]) + 1
            /\ A \subseteq B /\ \E r \in B : r \notin A
  <2>1. Cardinality(A) + 1 =< Cardinality(B)
    BY <1>6, <1>10
  <2>2. Len(history'[u]) =< Keep + Cardinality(B)
    BY <1>2, <1>3, <1>4, <1>10, <2>1
  <2> QED BY <2>2 DEF B
<1> QED BY <1>7, <1>8, <1>9, <1>10

\* What is known of overlapping views is not forgotten.
LEMMA OverlapGrows ==
    ASSUME \A r \in Requests : hreq[r].overlap \subseteq hreq'[r].overlap,
           \A r \in Requests : \/ hreq[r].overlap = {}
                               \/ /\ hreq'[r].user = hreq[r].user
                                  /\ hreq'[r].goods_id = hreq[r].goods_id,
           NEW u, NEW s, Overlapped(u, s)
    PROVE Overlapped(u, s)'
BY DEF Overlapped

\* What has to be shown for the next state.
LEMMA TwiceNext ==
    ASSUME \A u \in Names : \A i, j \in DOMAIN history'[u] : \A s :
              i # j /\ history'[u][i] = history'[u][j] /\ s = history'[u][i] =>
                 Overlapped(u, s)',
           \A r \in Requests : \A u, s :
              hreq'[r].pc = "lpush" /\ u = hreq'[r].user /\ s = hreq'[r].goods_id =>
                 /\ \A i \in DOMAIN history'[u] : history'[u][i] = s => Overlapped(u, s)'
                 /\ \A q \in Requests :
                       hreq'[q].pc = "lpush" /\ hreq'[q].user = u /\ hreq'[q].goods_id = s
                          /\ q # r => q \in hreq'[r].overlap
    PROVE TwiceOnlyByRace'
BY DEF TwiceOnlyByRace, Overlapped, Pushing

\* A step that pushes nothing: the lists are prefixes of what they were, and
\* no view is about to push that was not before.
LEMMA TwiceShrinks ==
    ASSUME HistoryTypeOK, HistoryTypeOK', TwiceOnlyByRace,
           \A r \in Requests : hreq[r].overlap \subseteq hreq'[r].overlap,
           \A r \in Requests : \/ hreq[r].overlap = {}
                               \/ /\ hreq'[r].user = hreq[r].user
                                  /\ hreq'[r].goods_id = hreq[r].goods_id,
           \A r \in Requests : hreq'[r].pc = "lpush" =>
               /\ hreq[r].pc = "lpush" /\ hreq[r].user \in Names
               /\ hreq'[r].user = hreq[r].user /\ hreq'[r].goods_id = hreq[r].goods_id,
           \A u \in Names : \A i \in DOMAIN history'[u] :
               i \in DOMAIN history[u] /\ history'[u][i] = history[u][i]
    PROVE TwiceOnlyByRace'
<1>1. \A u, s : Overlapped(u, s) => Overlapped(u, s)'
  BY OverlapGrows
<1>2. ASSUME NEW u \in Names, NEW i \in DOMAIN history'[u], NEW j \in DOMAIN history'[u],
             i # j, history'[u][i] = history'[u][j], NEW s, s = history'[u][i]
      PROVE Overlapped(u, s)'
  BY <1>1, <1>2 DEF TwiceOnlyByRace
<1>3. ASSUME NEW r \in Requests, hreq'[r].pc = "lpush",
             NEW u, u = hreq'[r].user, NEW s, s = hreq'[r].goods_id
      PROVE /\ \A i \in DOMAIN history'[u] : history'[u][i] = s => Overlapped(u, s)'
            /\ \A q \in Requests :
                  hreq'[q].pc = "lpush" /\ hreq'[q].user = u /\ hreq'[q].goods_id = s /\ q # r =>
                     q \in hreq'[r].overlap
  <2>1. hreq[r].pc = "lpush" /\ hreq[r].user = u /\ hreq[r].goods_id = s /\ u \in Names
    BY <1>3
  <2>2. \A i \in DOMAIN history[u] : history[u][i] = s => Overlapped(u, s)
    BY <2>1 DEF TwiceOnlyByRace
  <2>3. \A q \in Pushing(r) : q # r => q \in hreq[r].overlap
    BY <2>1 DEF TwiceOnlyByRace
  <2>4. ASSUME NEW q \in Requests, hreq'[q].pc = "lpush", hreq'[q].user = u,
               hreq'[q].goods_id = s, q # r
        PROVE q \in hreq'[r].overlap
    <3>1. q \in Pushing(r)
      BY <2>1, <2>4 DEF Pushing
    <3> QED BY <2>3, <2>4, <3>1
  <2> QED BY <1>1, <2>1, <2>2, <2>4
<1> QED BY <1>2, <1>3, TwiceNext

\* The pages that are answered stay what they are, and a new one is right.
LEMMA PagesStep ==
    ASSUME ListPagesExist,
           \A r \in Requests :
              \/ /\ hreq'[r].kind = hreq[r].kind /\ hreq'[r].res = hreq[r].res
                 /\ hreq'[r].page = hreq[r].page /\ hreq'[r].num_pages = hreq[r].num_pages
              \/ hreq'[r].kind # "list" /\ hreq'[r].res # "EmptyPage"
              \/ /\ hreq'[r].res = "EmptyPage" => hreq'[r].page = 0
                 /\ \A p, n : p = hreq'[r].page /\ n = hreq'[r].num_pages /\ hreq'[r].res = "page"
                                 => WindowOf(Pages(p, n), p, n)
    PROVE ListPagesExist'
<1>1. LinksAreAWindow'
  <2> SUFFICES ASSUME NEW r \in Requests, hreq'[r].kind = "list", hreq'[r].res = "page"
               PROVE WindowOf(Pages(hreq'[r].page, hreq'[r].num_pages), hreq'[r].page,
                              hreq'[r].num_pages)
    BY DEF LinksAreAWindow
  <2>1. PICK p, n : p = hreq'[r].page /\ n = hreq'[r].num_pages
    OBVIOUS
  <2>2. WindowOf(Pages(p, n), p, n)
    BY <2>1 DEF ListPagesExist, LinksAreAWindow
  <2> QED BY <2>1, <2>2
<1>2. OnlyPageZeroFails'
  BY DEF ListPagesExist, OnlyPageZeroFails
<1> QED BY <1>1, <1>2 DEF ListPagesExist

\* The window of links around a page that exists.
LEMMA PagesAreAWindow ==
    ASSUME NEW n \in Nat, NEW p \in 1..n
    PROVE WindowOf(Pages(p, n), p, n)
<1>1. CASE n < 5
  BY <1>1 DEF Pages, WindowOf
<1>2. CASE ~(n < 5) /\ p < 3
  <2>1. Pages(p, n) = 1..5 /\ 1 \in 1..n /\ p \in 1..5 /\ 1..5 \subseteq 1..n /\ 1 + 4 = 5
    BY <1>2 DEF Pages
  <2> QED BY <1>2, <2>1 DEF WindowOf
<1>3. CASE ~(n < 5) /\ ~(p < 3) /\ n - p =< 2
  <2>1. /\ Pages(p, n) = (n - 4)..n /\ n - 4 \in 1..n /\ p \in (n - 4)..n
        /\ (n - 4)..n \subseteq 1..n /\ (n - 4) + 4 = n
    BY <1>3 DEF Pages
  <2> QED BY <1>3, <2>1 DEF WindowOf
<1>4. CASE ~(n < 5) /\ ~(p < 3) /\ ~(n - p =< 2)
  <2>1. /\ Pages(p, n) = (p - 2)..(p + 2) /\ p - 2 \in 1..n /\ p \in (p - 2)..(p + 2)
        /\ (p - 2)..(p + 2) \subseteq 1..n /\ (p - 2) + 4 = p + 2
    BY <1>4 DEF Pages
  <2> QED BY <1>4, <2>1 DEF WindowOf
<1> QED BY <1>1, <1>2, <1>3, <1>4

\* Request r, and no other, gets these local variables.
HBecomes(r, p, k, u, g, s) ==
    /\ hreq' \in [Requests -> HistoryRequest]
    /\ \A q \in Requests \ {r} : hreq'[q] = hreq[q]
    /\ hreq'[r].pc = p /\ hreq'[r].kind = k /\ hreq'[r].user = u
    /\ hreq'[r].goods_id = g /\ hreq'[r].res = s
    /\ hreq'[r].overlap = hreq[r].overlap

\* A step of request r that leaves the lists alone, and that pushes nothing.
LEMMA HistoryQuietStep ==
    ASSUME HistoryInv, HistoryTypeOK', history' = history,
           NEW r \in Requests, NEW l, l = hreq[r], NEW m, m = hreq'[r],
           NEW p, NEW k, NEW u, NEW g, NEW s, HBecomes(r, p, k, u, g, s),
           p \notin {"idle", "lpush"}, HistoryLocal(m),
           l.pc = "idle" \/ (u = l.user /\ g = l.goods_id),
           "ltrim" \in {l.pc, l.res} => "ltrim" \in {p, s},
           ListPagesExist'
    PROVE HistoryInv'
<1> USE HistoryAssumption
<1>0. /\ HistoryTypeOK /\ HistoryBounded /\ TwiceOnlyByRace
      /\ \A q \in Requests : HistoryLocal(hreq[q])
  BY DEF HistoryInv, HistoryIsRecent
<1>1. /\ m.pc = p /\ m.user = u /\ m.goods_id = g /\ m.res = s /\ m.overlap = l.overlap
      /\ \A q \in Requests \ {r} : hreq'[q] = hreq[q]
  BY DEF HBecomes
<1>2. l.pc = "idle" => l.overlap = {} /\ l.res = Nil
  BY <1>0, HistoryIdleIs DEF HistoryLocal
<1>3. \A q \in Requests : HistoryLocal(hreq'[q])
  BY <1>0, <1>1
<1>4. \A n \in Names : Untrimmed(n) \subseteq Untrimmed(n)'
  BY <1>1, <1>2 DEF Untrimmed
<1>5. HistoryBounded'
  <2>1. \A n \in Names : Len(history'[n]) =< Len(history[n])
    BY DEF HistoryTypeOK
  <2> QED BY <1>0, <1>4, <2>1, BoundedStep
<1>6. TwiceOnlyByRace'
  <2>1. \A q \in Requests : hreq[q].overlap \subseteq hreq'[q].overlap
    BY <1>1
  <2>2. \A q \in Requests : \/ hreq[q].overlap = {}
                            \/ /\ hreq'[q].user = hreq[q].user
                               /\ hreq'[q].goods_id = hreq[q].goods_id
    BY <1>1, <1>2
  <2>3. \A q \in Requests : hreq'[q].pc = "lpush" =>
               /\ hreq[q].pc = "lpush" /\ hreq[q].user \in Names
               /\ hreq'[q].user = hreq[q].user /\ hreq'[q].goods_id = hreq[q].goods_id
    BY <1>0, <1>1 DEF HistoryLocal
  <2> QED BY <1>0, <2>1, <2>2, <2>3, TwiceShrinks
<1> QED BY <1>3, <1>5, <1>6 DEF HistoryInv, HistoryIsRecent

\* m is a record of requests with these fields, and with the overlap of l.
IsPut(m, l, p, k, u, g, s) ==
    /\ m.pc = p /\ m.kind = k /\ m.user = u /\ m.goods_id = g /\ m.res = s
    /\ m.overlap = l.overlap

\* A step that puts such a record.
LEMMA HistoryPut ==
    ASSUME HistoryTypeOK, NEW r \in Requests, NEW m \in HistoryRequest,
           hreq' = [hreq EXCEPT ![r] = m],
           NEW p, NEW k, NEW u, NEW g, NEW s, IsPut(m, hreq[r], p, k, u, g, s)
    PROVE HBecomes(r, p, k, u, g, s) /\ m = hreq'[r]
BY DEF HistoryTypeOK, HBecomes, IsPut

\* The sets of the fields, by names that are not expanded.
FieldUsers == Names \cup {Nil}
FieldItems == Skus \cup {Nil}
FieldLists == Seq(Skus)
FieldPages == Nat
FieldViews == SUBSET Requests

\* The records of requests, in terms of those names.
LEMMA HistoryRecord ==
    HistoryRequest = [pc: HistoryPCs, kind: HistoryKinds, user: FieldUsers, goods_id: FieldItems,
                      sku_ids: FieldLists, page: FieldPages, num_pages: FieldPages,
                      res: HistoryResults, overlap: FieldViews]
BY DEF HistoryRequest, FieldUsers, FieldItems, FieldLists, FieldPages, FieldViews

\* A view that only moves on, or answers.
LEMMA HistoryMoves ==
    ASSUME HistoryTypeOK, NEW r \in Requests, NEW p \in HistoryPCs, NEW s \in HistoryResults,
           NEW l, l = hreq[r],
           \/ hreq' = [hreq EXCEPT ![r] = [@ EXCEPT !.pc = p, !.res = s]]
           \/ s = l.res /\ hreq' = [hreq EXCEPT ![r].pc = p]
           \/ s = l.res /\ \E t \in Seq(Skus) :
                              hreq' = [hreq EXCEPT ![r] = [@ EXCEPT !.pc = p, !.sku_ids = t]]
           \/ s = l.res /\ p = l.pc /\ \E t \in Seq(Skus) :
                              hreq' = [hreq EXCEPT ![r].sku_ids = t]
    PROVE /\ HBecomes(r, p, l.kind, l.user, l.goods_id, s)
          /\ hreq'[r].page = l.page /\ hreq'[r].num_pages = l.num_pages
<1>0. l \in HistoryRequest
  BY DEF HistoryTypeOK
<1>a. \A t \in Seq(Skus) : t \in FieldLists
  BY DEF FieldLists
<1>1. CASE hreq' = [hreq EXCEPT ![r] = [@ EXCEPT !.pc = p, !.res = s]]
  <2> DEFINE m == [l EXCEPT !.pc = p, !.res = s]
  <2>1. m \in HistoryRequest /\ IsPut(m, l, p, l.kind, l.user, l.goods_id, s)
          /\ m.page = l.page /\ m.num_pages = l.num_pages
    BY <1>0, <1>a, HistoryRecord DEF IsPut
  <2>2. hreq' = [hreq EXCEPT ![r] = m]
    BY <1>1
  <2> HIDE DEF m
  <2> QED BY <2>1, <2>2, HistoryPut
<1>2. CASE s = l.res /\ hreq' = [hreq EXCEPT ![r].pc = p]
  <2> DEFINE m == [l EXCEPT !.pc = p]
  <2>1. m \in HistoryRequest /\ IsPut(m, l, p, l.kind, l.user, l.goods_id, s)
          /\ m.page = l.page /\ m.num_pages = l.num_pages
    BY <1>0, <1>a, <1>2, HistoryRecord DEF IsPut
  <2>2. hreq' = [hreq EXCEPT ![r] = m]
    BY <1>2
  <2> HIDE DEF m
  <2> QED BY <2>1, <2>2, HistoryPut
<1>3. CASE s = l.res /\ \E t \in Seq(Skus) :
                 hreq' = [hreq EXCEPT ![r] = [@ EXCEPT !.pc = p, !.sku_ids = t]]
  <2>0. PICK t \in Seq(Skus) : hreq' = [hreq EXCEPT ![r] = [@ EXCEPT !.pc = p, !.sku_ids = t]]
    BY <1>3
  <2> DEFINE m == [l EXCEPT !.pc = p, !.sku_ids = t]
  <2>1. m \in HistoryRequest /\ IsPut(m, l, p, l.kind, l.user, l.goods_id, s)
          /\ m.page = l.page /\ m.num_pages = l.num_pages
    BY <1>0, <1>a, <1>3, HistoryRecord DEF IsPut
  <2>2. hreq' = [hreq EXCEPT ![r] = m]
    BY <2>0
  <2> HIDE DEF m
  <2> QED BY <2>1, <2>2, HistoryPut
<1>4. CASE s = l.res /\ p = l.pc /\ \E t \in Seq(Skus) : hreq' = [hreq EXCEPT ![r].sku_ids = t]
  <2>0. PICK t \in Seq(Skus) : hreq' = [hreq EXCEPT ![r].sku_ids = t]
    BY <1>4
  <2> DEFINE m == [l EXCEPT !.sku_ids = t]
  <2>1. m \in HistoryRequest /\ IsPut(m, l, p, l.kind, l.user, l.goods_id, s)
          /\ m.page = l.page /\ m.num_pages = l.num_pages
    BY <1>0, <1>a, <1>4, HistoryRecord DEF IsPut
  <2>2. hreq' = [hreq EXCEPT ![r] = m]
    BY <2>0
  <2> HIDE DEF m
  <2> QED BY <2>1, <2>2, HistoryPut
<1> QED BY <1>1, <1>2, <1>3, <1>4

\* A step of one request keeps the types.
LEMMA HistoryTypeStep ==
    ASSUME HistoryTypeOK, rows' = rows, history' \in [Names -> Seq(Skus)],
           NEW r, NEW p, NEW k, NEW u, NEW g, NEW s, HBecomes(r, p, k, u, g, s)
    PROVE HistoryTypeOK'
BY DEF HistoryTypeOK, HBecomes

\* A view that is not a list page changes no list page.
LEMMA HistoryNoPage ==
    ASSUME HistoryInv, NEW r \in Requests, NEW p, NEW k, NEW u, NEW g, NEW s,
           HBecomes(r, p, k, u, g, s), k # "list", s # "EmptyPage"
    PROVE ListPagesExist'
<1>1. ListPagesExist
  BY DEF HistoryInv
<1>2. \A q \in Requests : \/ q = r /\ hreq'[q].kind # "list" /\ hreq'[q].res # "EmptyPage"
                          \/ hreq'[q] = hreq[q]
  BY DEF HBecomes
<1> QED BY <1>1, <1>2, PagesStep

\* The page of an item, as far as the query of its row.
LEMMA DetailStep ==
    ASSUME HistoryInv, NEW r \in Requests, NEW n \in Names, NEW b \in BOOLEAN, Detail(r, n, b)
    PROVE HistoryInv' /\ history' = history
<1> USE HistoryAssumption, AccountAssumption
<1>0. HistoryTypeOK /\ history' = history /\ rows' = rows
  BY DEF HistoryInv, Detail
<1>1. hreq[r].pc = "idle" /\ hreq[r] = HistoryIdle
  BY DEF Detail, HistoryInv, HistoryIsRecent, HistoryLocal
<1>a. PICK s \in Skus :
        hreq' = [hreq EXCEPT ![r] =
            [@ EXCEPT !.kind = "detail", !.user = n, !.goods_id = s,
                      !.pc = IF s \in rows /\ b THEN "lrem" ELSE "done",
                      !.res = IF s \notin rows THEN "redirect"
                              ELSE IF b THEN Nil ELSE "page"]]
  BY DEF Detail
<1>b. PICK p, x :
        /\ p = IF s \in rows /\ b THEN "lrem" ELSE "done"
        /\ x = IF s \notin rows THEN "redirect" ELSE IF b THEN Nil ELSE "page"
  OBVIOUS
<1>2. hreq' = [hreq EXCEPT ![r] = [@ EXCEPT !.kind = "detail", !.user = n, !.goods_id = s,
                                            !.pc = p, !.res = x]]
  BY <1>a, <1>b
<1>3. /\ p \in {"lrem", "done"} /\ x \in {Nil, "page", "redirect"}
      /\ p = "lrem" => x = Nil
  BY <1>b
<1>4. p \in HistoryPCs /\ x \in HistoryResults /\ "detail" \in HistoryKinds
  BY <1>3 DEF HistoryPCs, HistoryResults, HistoryKinds
<1>5. 0 \in Nat /\ hreq[r].user = Nil /\ hreq[r].goods_id = Nil
  BY <1>1, HistoryIdleIs
<1>6. HBecomes(r, p, "detail", n, s, x)
  <2> DEFINE m == [hreq[r] EXCEPT !.kind = "detail", !.user = n, !.goods_id = s,
                                  !.pc = p, !.res = x]
  <2>0. hreq[r] \in HistoryRequest /\ n \in FieldUsers /\ s \in FieldItems
    BY <1>0 DEF HistoryTypeOK, FieldUsers, FieldItems
  <2>1. m \in HistoryRequest /\ IsPut(m, hreq[r], p, "detail", n, s, x)
    BY <1>4, <2>0, HistoryRecord DEF IsPut
  <2>2. hreq' = [hreq EXCEPT ![r] = m]
    BY <1>2
  <2> HIDE DEF m
  <2> QED BY <1>0, <2>1, <2>2, HistoryPut
<1>7. HistoryTypeOK'
  BY <1>0, <1>6, HistoryTypeStep DEF HistoryTypeOK
<1>8. ListPagesExist'
  BY <1>3, <1>6, HistoryNoPage
<1>9. PICK l, m : l = hreq[r] /\ m = hreq'[r]
  OBVIOUS
<1>10. HistoryLocal(m)
  BY <1>3, <1>6, <1>9 DEF HBecomes, HistoryLocal
<1>11. HistoryInv'
  <2>1. l.pc = "idle" /\ l.res = Nil
    BY <1>1, <1>9, HistoryIdleIs
  <2>2. "ltrim" \notin {l.pc, l.res}
    BY <2>1
  <2> QED BY <1>0, <1>3, <1>6, <1>7, <1>8, <1>9, <1>10, <2>1, <2>2, HistoryQuietStep
<1> QED BY <1>0, <1>11

\* The user centre, as far as the query of the default address.
LEMMA InfoStep ==
    ASSUME HistoryInv, NEW r \in Requests, NEW n \in Names, NEW d, Info(r, n, d)
    PROVE HistoryInv' /\ history' = history
<1> USE HistoryAssumption, AccountAssumption
<1>0. HistoryTypeOK /\ history' = history /\ rows' = rows
  BY DEF HistoryInv, Info
<1>1. hreq[r].pc = "idle" /\ hreq[r] = HistoryIdle
  BY DEF Info, HistoryInv, HistoryIsRecent, HistoryLocal
<1>2. PICK p, x :
        /\ p = IF d > 1 THEN "done" ELSE "lrange"
        /\ x = IF d > 1 THEN "MultipleObjectsReturned" ELSE Nil
        /\ hreq' = [hreq EXCEPT ![r] = [@ EXCEPT !.kind = "info", !.user = n,
                                                 !.pc = p, !.res = x]]
  BY DEF Info
<1>3. \/ p = "lrange" /\ x = Nil
      \/ p = "done" /\ x = "MultipleObjectsReturned"
  BY <1>2
<1>4. p \in HistoryPCs /\ x \in HistoryResults /\ "info" \in HistoryKinds
  BY <1>3 DEF HistoryPCs, HistoryResults, HistoryKinds
<1>5. 0 \in Nat /\ hreq[r].user = Nil /\ hreq[r].goods_id = Nil
  BY <1>1, HistoryIdleIs
<1>6. HBecomes(r, p, "info", n, Nil, x)
  <2> DEFINE m == [hreq[r] EXCEPT !.kind = "info", !.user = n, !.pc = p, !.res = x]
  <2>0. hreq[r] \in HistoryRequest /\ n \in FieldUsers
    BY <1>0 DEF HistoryTypeOK, FieldUsers
  <2>1. m \in HistoryRequest /\ IsPut(m, hreq[r], p, "info", n, Nil, x)
    BY <1>4, <1>5, <2>0, HistoryRecord DEF IsPut
  <2>2. hreq' = [hreq EXCEPT ![r] = m]
    BY <1>2
  <2> HIDE DEF m
  <2> QED BY <1>0, <2>1, <2>2, HistoryPut
<1>7. HistoryTypeOK'
  BY <1>0, <1>6, HistoryTypeStep DEF HistoryTypeOK
<1>8. ListPagesExist'
  BY <1>3, <1>6, HistoryNoPage
<1>9. PICK l, m : l = hreq[r] /\ m = hreq'[r]
  OBVIOUS
<1>10. HistoryLocal(m)
  BY <1>3, <1>6, <1>9 DEF HBecomes, HistoryLocal
<1>11. HistoryInv'
  <2>1. l.pc = "idle" /\ l.res = Nil
    BY <1>1, <1>9, HistoryIdleIs
  <2>2. "ltrim" \notin {l.pc, l.res}
    BY <2>1
  <2> QED BY <1>0, <1>3, <1>6, <1>7, <1>8, <1>9, <1>10, <2>1, <2>2, HistoryQuietStep
<1> QED BY <1>0, <1>11

\* The request r for a list is answered with x, on page a of n.
ListedAs(r, a, n, x) ==
    /\ ListAnswer(r, a, n, x)
    /\ a \in Nat /\ n \in Nat /\ x \in {"page", "EmptyPage", "TemplateDoesNotExist"}
    /\ x = "page" => n # 0 /\ a \in 1..n
    /\ x = "EmptyPage" => a = 0

\* A page of the list.
LEMMA ListPageStep ==
    ASSUME HistoryInv, NEW r \in Requests, ListPage(r)
    PROVE HistoryInv' /\ history' = history
<1> USE HistoryAssumption, AccountAssumption
<1>0. HistoryTypeOK /\ history' = history /\ rows' = rows /\ ListPagesExist
  BY DEF HistoryInv, ListPage
<1>1. hreq[r].pc = "idle" /\ hreq[r] = HistoryIdle
  BY DEF ListPage, HistoryInv, HistoryIsRecent, HistoryLocal
<1>3. PICK a, num, x : ListedAs(r, a, num, x)
  <2>1. CASE ListAnswer(r, 0, 0, "TemplateDoesNotExist")
    BY <2>1 DEF ListedAs
  <2>2. ASSUME NEW asked \in 0..MaxPage, NEW n, n = NumPages(Others + Cardinality(rows)),
               ListAnswer(r, CheckedPage(asked, n), n,
                          IF PageExists(CheckedPage(asked, n), n) THEN "page" ELSE "EmptyPage")
        PROVE \E a, num, x : ListedAs(r, a, num, x)
    <3>1. PICK a, x : /\ a = CheckedPage(asked, n)
                      /\ x = IF PageExists(a, n) THEN "page" ELSE "EmptyPage"
      OBVIOUS
    <3>2. IsFiniteSet(rows)
      BY <1>0, FS_Subset DEF HistoryTypeOK
    <3>3. Cardinality(rows) \in Nat
      BY <3>2, FS_CardinalityType
    <3>4. n \in Nat \ {0}
      BY <2>2, <3>3 DEF NumPages
    <3>5. /\ a \in Nat /\ x \in {"page", "EmptyPage"}
          /\ x = "page" => a \in 1..n
          /\ x = "EmptyPage" => a = 0
      BY <3>1, <3>4 DEF CheckedPage, PageExists
    <3> QED BY <2>2, <3>1, <3>4, <3>5 DEF ListedAs
  <2> QED BY <2>1, <2>2 DEF ListPage
<1>2. /\ hreq' = [hreq EXCEPT ![r] = [@ EXCEPT !.kind = "list", !.pc = "done", !.page = a,
                                               !.num_pages = num, !.res = x]]
      /\ a \in Nat /\ num \in Nat /\ x \in {"page", "EmptyPage", "TemplateDoesNotExist"}
      /\ x = "page" => num # 0 /\ a \in 1..num
      /\ x = "EmptyPage" => a = 0
  BY <1>3 DEF ListedAs, ListAnswer
<1>5. "done" \in HistoryPCs /\ x \in HistoryResults /\ "list" \in HistoryKinds
  BY <1>2 DEF HistoryPCs, HistoryResults, HistoryKinds
<1>6. hreq[r].user = Nil /\ hreq[r].goods_id = Nil
  BY <1>1, HistoryIdleIs
<1>7. HBecomes(r, "done", "list", Nil, Nil, x) /\ hreq'[r].page = a /\ hreq'[r].num_pages = num
  <2> DEFINE m == [hreq[r] EXCEPT !.kind = "list", !.pc = "done", !.page = a,
                                  !.num_pages = num, !.res = x]
  <2>0. hreq[r] \in HistoryRequest /\ a \in FieldPages /\ num \in FieldPages
    BY <1>0, <1>2 DEF HistoryTypeOK, FieldPages
  <2>1. /\ m \in HistoryRequest /\ IsPut(m, hreq[r], "done", "list", Nil, Nil, x)
        /\ m.page = a /\ m.num_pages = num
    BY <1>5, <1>6, <2>0, HistoryRecord DEF IsPut
  <2>2. hreq' = [hreq EXCEPT ![r] = m]
    BY <1>2
  <2> HIDE DEF m
  <2> QED BY <1>0, <2>1, <2>2, HistoryPut
<1>8. HistoryTypeOK'
  BY <1>0, <1>7, HistoryTypeStep DEF HistoryTypeOK
<1>9. ListPagesExist'
  <2>1. x = "page" => WindowOf(Pages(a, num), a, num)
    BY <1>2, PagesAreAWindow
  <2>2. \A q \in Requests :
           \/ hreq'[q] = hreq[q]
           \/ /\ hreq'[q].res = "EmptyPage" => hreq'[q].page = 0
              /\ \A p, n : p = hreq'[q].page /\ n = hreq'[q].num_pages /\ hreq'[q].res = "page"
                                 => WindowOf(Pages(p, n), p, n)
    BY <1>2, <1>7, <2>1 DEF HBecomes
  <2> QED BY <1>0, <2>2, PagesStep
<1>10. PICK l, m : l = hreq[r] /\ m = hreq'[r]
  OBVIOUS
<1>11. HistoryLocal(m)
  BY <1>2, <1>7, <1>10 DEF HBecomes, HistoryLocal
<1>12. HistoryInv'
  <2>1. l.pc = "idle" /\ l.res = Nil
    BY <1>1, <1>10, HistoryIdleIs
  <2>2. "ltrim" \notin {l.pc, l.res}
    BY <2>1
  <2> QED BY <1>0, <1>7, <1>8, <1>9, <1>10, <1>11, <2>1, <2>2, HistoryQuietStep
<1> QED BY <1>0, <1>12

\* What ltrim leaves of a list.
LEMMA LTrimIs ==
    ASSUME NEW S, NEW list \in Seq(S), NEW n \in Nat
    PROVE /\ LTrim(list, n) \in Seq(S)
          /\ Len(LTrim(list, n)) =< n /\ Len(LTrim(list, n)) =< Len(list)
          /\ Len(LTrim(list, n)) >= n \/ LTrim(list, n) = list
          /\ \A i \in DOMAIN LTrim(list, n) : i \in DOMAIN list /\ LTrim(list, n)[i] = list[i]
<1> DEFINE k == IF Len(list) < n THEN Len(list) ELSE n
           t == SubSeq(list, 1, k)
<1>1. k \in Nat /\ k =< n /\ k =< Len(list) /\ (k = n \/ k = Len(list))
  OBVIOUS
<1> HIDE DEF k
<1>2. t \in Seq(S) /\ Len(t) = k /\ DOMAIN t = 1..k /\ \A i \in 1..k : t[i] = list[i]
  BY <1>1
<1>3. k = Len(list) => t = list
  BY <1>1, <1>2
<1>4. LTrim(list, n) = t
  BY DEF LTrim, k
<1> HIDE DEF t
<1> QED BY <1>1, <1>2, <1>3, <1>4

\* The queries of the user centre, and a crash.
LEMMA HistoryReadSteps ==
    ASSUME HistoryInv, NEW r \in Requests, Lrange(r) \/ InfoItem(r) \/ HistoryCrash(r)
    PROVE HistoryInv' /\ history' = history
<1> USE HistoryAssumption
<1>0. HistoryTypeOK /\ history' = history /\ rows' = rows
  BY DEF HistoryInv, Lrange, InfoItem, HistoryCrash
<1>1. PICK l : l = hreq[r]
  OBVIOUS
<1>2. HistoryLocal(l) /\ l \in HistoryRequest
  BY <1>0, <1>1 DEF HistoryInv, HistoryIsRecent, HistoryTypeOK
<1>3. l.pc \in {"lrem", "lpush", "ltrim", "lrange", "rows"} /\ l.kind # "list" /\ l.res = Nil
  BY <1>1, <1>2 DEF Lrange, InfoItem, HistoryCrash, HistoryLocal
<1>a. l.sku_ids \in Seq(Skus)
  BY <1>2 DEF HistoryRequest
<1>4. SUFFICES ASSUME NEW p \in {"rows", "done", "dead"},
                      NEW s \in {Nil, "page", "DoesNotExist", "lrem", "lpush", "ltrim", "lrange",
                                 "rows"},
                      HBecomes(r, p, l.kind, l.user, l.goods_id, s), p = "rows" => s = Nil,
                      l.pc = "ltrim" => s = "ltrim"
               PROVE HistoryInv'
  <2>1. \A p \in {"rows", "done", "dead"} : p \in HistoryPCs
    BY DEF HistoryPCs
  <2>2. \A s \in {Nil, "page", "DoesNotExist", "lrem", "lpush", "ltrim", "lrange", "rows"} :
           s \in HistoryResults
    BY DEF HistoryResults
  <2>3. CASE Lrange(r)
    <3>0. l.user \in Names /\ l.pc = "lrange"
      BY <1>1, <1>2, <2>3 DEF HistoryLocal, Lrange
    <3>1. PICK t : t = LTrim(history[l.user], Keep)
      OBVIOUS
    <3>2. t \in Seq(Skus)
      BY <1>0, <3>0, <3>1, LTrimIs DEF HistoryTypeOK
    <3>3. hreq' = [hreq EXCEPT ![r] = [@ EXCEPT !.pc = "rows", !.sku_ids = t]]
      BY <1>1, <2>3, <3>1 DEF Lrange
    <3>4. HBecomes(r, "rows", l.kind, l.user, l.goods_id, Nil)
      BY <1>0, <1>1, <1>3, <2>1, <2>2, <3>2, <3>3, HistoryMoves
    <3> QED BY <1>0, <1>4, <3>0, <3>4
  <2>4. CASE InfoItem(r)
    <3>0. l.pc = "rows"
      BY <1>1, <2>4 DEF InfoItem
    <3>1. ASSUME NEW s \in {"page", "DoesNotExist"}, HAnswer(r, s)
          PROVE HBecomes(r, "done", l.kind, l.user, l.goods_id, s)
      BY <1>0, <1>1, <1>3, <2>1, <2>2, <3>1, HistoryMoves DEF HAnswer
    <3>2. ASSUME hreq' = [hreq EXCEPT ![r].sku_ids = Tail(@)], l.sku_ids # <<>>
          PROVE HBecomes(r, "rows", l.kind, l.user, l.goods_id, Nil)
      <4>1. PICK t : t = Tail(l.sku_ids)
        OBVIOUS
      <4>2. t \in Seq(Skus)
        BY <1>a, <3>2, <4>1
      <4>3. hreq' = [hreq EXCEPT ![r].sku_ids = t]
        BY <1>1, <3>2, <4>1
      <4> QED BY <1>0, <1>1, <1>3, <2>1, <2>2, <3>0, <4>2, <4>3, HistoryMoves
    <3>3. \/ HAnswer(r, "page") \/ HAnswer(r, "DoesNotExist")
          \/ hreq' = [hreq EXCEPT ![r].sku_ids = Tail(@)] /\ l.sku_ids # <<>>
      BY <1>1, <2>4 DEF InfoItem
    <3> QED BY <1>0, <1>4, <3>0, <3>1, <3>2, <3>3
  <2>5. CASE HistoryCrash(r)
    <3>1. HBecomes(r, "dead", l.kind, l.user, l.goods_id, l.pc)
      <4>1. PICK s : s = l.pc
        OBVIOUS
      <4>2. s \in HistoryResults
        BY <1>3, <2>2, <4>1
      <4>3. hreq' = [hreq EXCEPT ![r] = [@ EXCEPT !.pc = "dead", !.res = s]]
        BY <1>1, <2>5, <4>1 DEF HistoryCrash
      <4> QED BY <1>0, <1>1, <2>1, <4>1, <4>2, <4>3, HistoryMoves
    <3> QED BY <1>0, <1>3, <1>4, <3>1
  <2> QED BY <2>3, <2>4, <2>5
<1>5. HistoryTypeOK'
  BY <1>0, <1>4, HistoryTypeStep DEF HistoryTypeOK
<1>6. ListPagesExist'
  BY <1>3, <1>4, HistoryNoPage
<1>7. PICK m : m = hreq'[r]
  OBVIOUS
<1>8. HistoryLocal(m)
  BY <1>2, <1>3, <1>4, <1>7 DEF HBecomes, HistoryLocal
<1>9. "ltrim" \in {l.pc, l.res} => "ltrim" \in {p, s}
  BY <1>3, <1>4
<1> QED BY <1>0, <1>1, <1>4, <1>5, <1>6, <1>7, <1>8, <1>9, HistoryQuietStep

\* What a view that is going to write has.
LEMMA HistoryWriter ==
    ASSUME HistoryInv, NEW r \in Requests, NEW l, l = hreq[r],
           l.pc \in {"lrem", "lpush", "ltrim"}
    PROVE /\ l \in HistoryRequest /\ l.user \in Names /\ l.goods_id \in Skus
          /\ l.res = Nil /\ l.kind # "list"
          /\ history[l.user] \in Seq(Skus)
BY DEF HistoryInv, HistoryIsRecent, HistoryTypeOK, HistoryLocal

\* ltrim.
LEMMA LtrimStep ==
    ASSUME HistoryInv, NEW r \in Requests, Ltrim(r)
    PROVE HistoryInv'
<1> USE HistoryAssumption
<1>0. /\ HistoryTypeOK /\ HistoryBounded /\ TwiceOnlyByRace /\ rows' = rows
      /\ \A q \in Requests : HistoryLocal(hreq[q])
  BY DEF HistoryInv, HistoryIsRecent, Ltrim
<1>1. PICK l, u, t : l = hreq[r] /\ u = l.user /\ t = LTrim(history[u], Keep)
  OBVIOUS
<1>2. /\ l.pc = "ltrim" /\ u \in Names /\ l.kind # "list" /\ l.res = Nil
      /\ l.goods_id \in Skus /\ history[u] \in Seq(Skus)
  BY <1>1, HistoryWriter DEF Ltrim
<1>3. HBecomes(r, "done", l.kind, u, l.goods_id, "page")
  <2>1. "done" \in HistoryPCs /\ "page" \in HistoryResults
    BY DEF HistoryPCs, HistoryResults
  <2> QED BY <1>0, <1>1, <2>1, HistoryMoves DEF Ltrim, HAnswer
<1>4. history' = [history EXCEPT ![u] = t]
  BY <1>1 DEF Ltrim
<1>5. /\ t \in Seq(Skus) /\ Len(t) =< Keep
      /\ \A i \in DOMAIN t : i \in DOMAIN history[u] /\ t[i] = history[u][i]
  BY <1>1, <1>2, LTrimIs
<1>6. HistoryTypeOK'
  <2>1. history' \in [Names -> Seq(Skus)]
    BY <1>0, <1>4, <1>5 DEF HistoryTypeOK
  <2> QED BY <1>0, <1>3, <2>1, HistoryTypeStep
<1>7. ListPagesExist'
  BY <1>2, <1>3, HistoryNoPage
<1>8. /\ hreq'[r].pc = "done" /\ hreq'[r].user = u /\ hreq'[r].goods_id = l.goods_id
      /\ hreq'[r].overlap = l.overlap /\ hreq'[r].kind = l.kind /\ hreq'[r].res = "page"
      /\ \A q \in Requests \ {r} : hreq'[q] = hreq[q]
  BY <1>1, <1>3 DEF HBecomes
<1>9. \A q \in Requests : HistoryLocal(hreq'[q])
  <2>1. HistoryLocal(hreq'[r])
    BY <1>2, <1>8 DEF HistoryLocal
  <2> QED BY <1>0, <1>8, <2>1
<1>10. \A n \in Names : n # u => history'[n] = history[n]
  BY <1>0, <1>4 DEF HistoryTypeOK
<1>11. history'[u] = t
  BY <1>0, <1>2, <1>4 DEF HistoryTypeOK
<1>12. HistoryBounded'
  <2>1. \A n \in Names : n # u => Untrimmed(n) \subseteq Untrimmed(n)'
    BY <1>1, <1>8 DEF Untrimmed
  <2>2. \A n \in Names : n # u => Len(history'[n]) =< Len(history[n])
    BY <1>0, <1>10 DEF HistoryTypeOK
  <2> QED BY <1>0, <1>5, <1>6, <1>11, <2>1, <2>2, BoundedStep
<1>13. TwiceOnlyByRace'
  <2>1. \A q \in Requests :
           /\ hreq[q].overlap \subseteq hreq'[q].overlap
           /\ hreq'[q].user = hreq[q].user /\ hreq'[q].goods_id = hreq[q].goods_id
           /\ hreq'[q].pc = "lpush" => hreq[q].pc = "lpush"
    BY <1>1, <1>8
  <2>2. \A q \in Requests : hreq[q].pc = "lpush" => hreq[q].user \in Names
    BY <1>0 DEF HistoryLocal
  <2>3. \A n \in Names : \A i \in DOMAIN history'[n] :
           i \in DOMAIN history[n] /\ history'[n][i] = history[n][i]
    BY <1>5, <1>10, <1>11
  <2> QED BY <1>0, <1>6, <2>1, <2>2, <2>3, TwiceShrinks
<1> QED BY <1>6, <1>7, <1>9, <1>12, <1>13 DEF HistoryInv, HistoryIsRecent

\* lpush.
LEMMA LpushStep ==
    ASSUME HistoryInv, NEW r \in Requests, Lpush(r)
    PROVE HistoryInv'
<1> USE HistoryAssumption
<1>0. /\ HistoryTypeOK /\ HistoryBounded /\ TwiceOnlyByRace /\ rows' = rows
      /\ \A q \in Requests : HistoryLocal(hreq[q])
  BY DEF HistoryInv, HistoryIsRecent, Lpush
<1>1. PICK l, u, g, t : l = hreq[r] /\ u = l.user /\ g = l.goods_id /\ t = <<g>> \o history[u]
  OBVIOUS
<1>2. /\ l.pc = "lpush" /\ u \in Names /\ l.kind # "list" /\ l.res = Nil
      /\ g \in Skus /\ history[u] \in Seq(Skus)
  BY <1>1, HistoryWriter DEF Lpush
<1>3. HBecomes(r, "ltrim", l.kind, u, g, Nil)
  <2>1. "ltrim" \in HistoryPCs /\ Nil \in HistoryResults
    BY DEF HistoryPCs, HistoryResults
  <2> QED BY <1>0, <1>1, <1>2, <2>1, HistoryMoves DEF Lpush
<1>4. history' = [history EXCEPT ![u] = t]
  BY <1>1 DEF Lpush
<1>5. /\ t \in Seq(Skus) /\ Len(t) = Len(history[u]) + 1 /\ t[1] = g
      /\ \A i \in DOMAIN t : i = 1 \/ (i - 1 \in DOMAIN history[u] /\ t[i] = history[u][i - 1])
  BY <1>1, <1>2
<1>6. HistoryTypeOK'
  <2>1. history' \in [Names -> Seq(Skus)]
    BY <1>0, <1>4, <1>5 DEF HistoryTypeOK
  <2> QED BY <1>0, <1>3, <2>1, HistoryTypeStep
<1>7. ListPagesExist'
  BY <1>2, <1>3, HistoryNoPage
<1>8. /\ hreq'[r].pc = "ltrim" /\ hreq'[r].user = u /\ hreq'[r].goods_id = g
      /\ hreq'[r].overlap = l.overlap /\ hreq'[r].kind = l.kind /\ hreq'[r].res = Nil
      /\ \A q \in Requests \ {r} : hreq'[q] = hreq[q]
  BY <1>1, <1>3 DEF HBecomes
<1>9. \A q \in Requests : HistoryLocal(hreq'[q])
  <2>1. HistoryLocal(hreq'[r])
    BY <1>2, <1>8 DEF HistoryLocal
  <2> QED BY <1>0, <1>8, <2>1
<1>10. \A n \in Names : n # u => history'[n] = history[n]
  BY <1>0, <1>4 DEF HistoryTypeOK
<1>11. history'[u] = t
  BY <1>0, <1>2, <1>4 DEF HistoryTypeOK
<1>12. HistoryBounded'
  <2>1. \A n \in Names : Untrimmed(n) \subseteq Untrimmed(n)'
    BY <1>1, <1>2, <1>8 DEF Untrimmed
  <2>2. \A n \in Names : n # u => Len(history'[n]) =< Len(history[n])
    BY <1>0, <1>10 DEF HistoryTypeOK
  <2>3. r \in Untrimmed(u)' /\ r \notin Untrimmed(u)
    BY <1>1, <1>2, <1>8 DEF Untrimmed
  <2>4. Len(history'[u]) = Len(history[u]) + 1
    BY <1>5, <1>11
  <2> QED BY <1>0, <1>6, <2>1, <2>2, <2>3, <2>4, BoundedStep
<1>13. TwiceOnlyByRace'
  <2>1. \A q \in Requests :
           /\ hreq[q].overlap \subseteq hreq'[q].overlap
           /\ hreq'[q].user = hreq[q].user /\ hreq'[q].goods_id = hreq[q].goods_id
           /\ hreq'[q].pc = "lpush" => hreq[q].pc = "lpush" /\ q # r
    BY <1>1, <1>8
  <2>2. \A n, s : Overlapped(n, s) => Overlapped(n, s)'
    BY <2>1, OverlapGrows
  <2>3. \A i \in DOMAIN history[u] : history[u][i] = g => Overlapped(u, g)
    BY <1>0, <1>1, <1>2 DEF TwiceOnlyByRace
  <2>4. ASSUME NEW n \in Names, NEW i \in DOMAIN history'[n], NEW j \in DOMAIN history'[n],
               i # j, history'[n][i] = history'[n][j], NEW s, s = history'[n][i]
        PROVE Overlapped(n, s)
    <3>1. CASE n # u
      BY <1>0, <1>10, <2>4, <3>1 DEF TwiceOnlyByRace
    <3>2. CASE n = u /\ i = 1
      <4>1. j # 1 /\ s = g /\ history[u][j - 1] = g /\ j - 1 \in DOMAIN history[u]
        BY <1>5, <1>11, <2>4, <3>2
      <4> QED BY <2>3, <3>2, <4>1
    <3>3. CASE n = u /\ j = 1
      <4>1. i # 1 /\ s = g /\ history[u][i - 1] = g /\ i - 1 \in DOMAIN history[u]
        BY <1>5, <1>11, <2>4, <3>3
      <4> QED BY <2>3, <3>3, <4>1
    <3>4. CASE n = u /\ i # 1 /\ j # 1
      <4>1. /\ i - 1 \in DOMAIN history[u] /\ j - 1 \in DOMAIN history[u]
            /\ history[u][i - 1] = s /\ history[u][j - 1] = s
        BY <1>5, <1>11, <2>4, <3>4
      <4>2. i - 1 # j - 1
        <5>1. i \in Nat /\ j \in Nat
          BY <1>5, <1>11, <2>4, <3>4
        <5> QED BY <2>4, <5>1
      <4> QED BY <1>0, <1>2, <3>4, <4>1, <4>2 DEF TwiceOnlyByRace
    <3> QED BY <3>1, <3>2, <3>3, <3>4
  <2>5. ASSUME NEW q \in Requests, hreq'[q].pc = "lpush",
               NEW n, n = hreq'[q].user, NEW s, s = hreq'[q].goods_id
        PROVE /\ \A i \in DOMAIN history'[n] : history'[n][i] = s => Overlapped(n, s)
              /\ \A x \in Requests :
                    hreq'[x].pc = "lpush" /\ hreq'[x].user = n /\ hreq'[x].goods_id = s
                       /\ x # q => x \in hreq'[q].overlap
    <3>1. hreq[q].pc = "lpush" /\ hreq[q].user = n /\ hreq[q].goods_id = s /\ q # r /\ n \in Names
      BY <1>0, <2>1, <2>5 DEF HistoryLocal
    <3>2. \A i \in DOMAIN history[n] : history[n][i] = s => Overlapped(n, s)
      BY <1>0, <3>1 DEF TwiceOnlyByRace
    <3>3. \A x \in Pushing(q) : x # q => x \in hreq[q].overlap
      BY <1>0, <3>1 DEF TwiceOnlyByRace
    <3>4. ASSUME NEW x \in Requests, hreq'[x].pc = "lpush", hreq'[x].user = n,
                 hreq'[x].goods_id = s, x # q
          PROVE x \in hreq'[q].overlap
      <4>1. x \in Pushing(q)
        BY <2>1, <3>1, <3>4 DEF Pushing
      <4> QED BY <2>1, <3>3, <3>4, <4>1
    <3>5. CASE n # u \/ s # g
      <4>1. CASE n # u
        BY <1>10, <3>1, <3>2, <3>4, <4>1
      <4>2. CASE n = u /\ s # g
        BY <1>5, <1>11, <3>2, <3>4, <4>2
      <4> QED BY <3>5, <4>1, <4>2
    <3>6. CASE n = u /\ s = g
      <4>1. q \in Pushing(r) /\ q # r
        BY <1>1, <3>1, <3>6 DEF Pushing
      <4>2. q \in hreq[r].overlap
        BY <1>0, <1>1, <1>2, <4>1 DEF TwiceOnlyByRace
      <4>3. Overlapped(n, s)
        BY <1>1, <3>6, <4>2 DEF Overlapped
      <4> QED BY <3>4, <4>3
    <3> QED BY <3>5, <3>6
  <2> QED BY <2>2, <2>4, <2>5, TwiceNext
<1> QED BY <1>6, <1>7, <1>9, <1>12, <1>13 DEF HistoryInv, HistoryIsRecent

\* The records after lrem: the view is about to push, and it and the views
\* that are about to push the same item have noted each other.
LEMMA LremRecords ==
    ASSUME HistoryInv, NEW r \in Requests, Lrem(r), NEW l, l = hreq[r]
    PROVE /\ hreq' \in [Requests -> HistoryRequest]
          /\ hreq'[r].pc = "lpush" /\ Pushing(r) \subseteq hreq'[r].overlap
          /\ \A q \in Requests :
                /\ hreq'[q].user = hreq[q].user /\ hreq'[q].goods_id = hreq[q].goods_id
                /\ hreq'[q].kind = hreq[q].kind /\ hreq'[q].res = hreq[q].res
                /\ hreq'[q].page = hreq[q].page /\ hreq'[q].num_pages = hreq[q].num_pages
                /\ hreq[q].overlap \subseteq hreq'[q].overlap
                /\ q # r => hreq'[q].pc = hreq[q].pc
                /\ q # r /\ q \in Pushing(r) => r \in hreq'[q].overlap
<1>0. hreq \in [Requests -> HistoryRequest]
  BY DEF HistoryInv, HistoryTypeOK
<1>1. PICK P : P = Pushing(r)
  OBVIOUS
<1>2. hreq' = [q \in Requests |->
         IF q = r THEN [hreq[r] EXCEPT !.pc = "lpush", !.overlap = @ \cup P]
         ELSE IF q \in P THEN [hreq[q] EXCEPT !.overlap = @ \cup {r}]
         ELSE hreq[q]]
  BY <1>1 DEF Lrem
<1>3. P \subseteq Requests /\ {r} \subseteq Requests
  BY <1>1 DEF Pushing
<1>4. "lpush" \in HistoryPCs
  BY DEF HistoryPCs
<1>5. \A x \in HistoryRequest : \A A \in SUBSET Requests : x.overlap \cup A \in FieldViews
  BY HistoryRecord DEF FieldViews
<1>8. /\ hreq'[r] = [hreq[r] EXCEPT !.pc = "lpush", !.overlap = @ \cup P]
      /\ \A q \in P \ {r} : hreq'[q] = [hreq[q] EXCEPT !.overlap = @ \cup {r}]
      /\ \A q \in Requests \ (P \cup {r}) : hreq'[q] = hreq[q]
  BY <1>2, <1>3
<1>9. ASSUME NEW q \in Requests
       PROVE /\ hreq'[q] \in HistoryRequest
             /\ hreq'[q].user = hreq[q].user /\ hreq'[q].goods_id = hreq[q].goods_id
             /\ hreq'[q].kind = hreq[q].kind /\ hreq'[q].res = hreq[q].res
             /\ hreq'[q].page = hreq[q].page /\ hreq'[q].num_pages = hreq[q].num_pages
             /\ hreq[q].overlap \subseteq hreq'[q].overlap
             /\ q # r => hreq'[q].pc = hreq[q].pc
             /\ q # r /\ q \in P => r \in hreq'[q].overlap
  <2>0. PICK x, B : x = hreq[q] /\ B = x.overlap \cup (IF q = r THEN P ELSE {r})
    OBVIOUS
  <2>a. x \in HistoryRequest /\ B \in FieldViews
    BY <1>0, <1>3, <1>5, <2>0
  <2>1. CASE q = r
    <3>1. hreq'[q] = [x EXCEPT !.pc = "lpush", !.overlap = B]
      BY <1>8, <2>0, <2>1
    <3>2. hreq'[q] \in HistoryRequest
      BY <1>4, <2>a, <3>1, HistoryRecord
    <3>3. /\ hreq'[q].user = x.user /\ hreq'[q].goods_id = x.goods_id /\ hreq'[q].kind = x.kind
          /\ hreq'[q].res = x.res /\ hreq'[q].page = x.page /\ hreq'[q].num_pages = x.num_pages
          /\ hreq'[q].overlap = B
      BY <2>a, <3>1, HistoryRecord
    <3> QED BY <2>0, <2>1, <3>2, <3>3
  <2>2. CASE q # r /\ q \in P
    <3>1. hreq'[q] = [x EXCEPT !.overlap = B]
      BY <1>8, <2>0, <2>2
    <3>2. hreq'[q] \in HistoryRequest
      BY <2>a, <3>1, HistoryRecord
    <3>3. /\ hreq'[q].user = x.user /\ hreq'[q].goods_id = x.goods_id /\ hreq'[q].kind = x.kind
          /\ hreq'[q].res = x.res /\ hreq'[q].page = x.page /\ hreq'[q].num_pages = x.num_pages
          /\ hreq'[q].overlap = B /\ hreq'[q].pc = x.pc
      BY <2>a, <3>1, HistoryRecord
    <3> QED BY <2>0, <2>2, <3>2, <3>3
  <2>3. CASE q # r /\ q \notin P
    BY <1>0, <1>8, <2>3
  <2> QED BY <2>1, <2>2, <2>3
<1>11. hreq'[r].pc = "lpush" /\ P \subseteq hreq'[r].overlap
  <2>0. PICK x, B : x = hreq[r] /\ B = x.overlap \cup P
    OBVIOUS
  <2>1. hreq'[r] = [x EXCEPT !.pc = "lpush", !.overlap = B]
    BY <1>8, <2>0
  <2>2. x \in HistoryRequest /\ B \in FieldViews
    BY <1>0, <1>3, <1>5, <2>0
  <2> QED BY <2>0, <2>1, <2>2, HistoryRecord
<1>10. hreq' \in [Requests -> HistoryRequest]
  BY <1>2, <1>9
<1> QED BY <1>1, <1>9, <1>10, <1>11

\* lrem.
LEMMA LremStep ==
    ASSUME HistoryInv, NEW r \in Requests, Lrem(r)
    PROVE HistoryInv'
<1> USE HistoryAssumption
<1>0. /\ HistoryTypeOK /\ HistoryBounded /\ TwiceOnlyByRace /\ rows' = rows /\ ListPagesExist
      /\ \A q \in Requests : HistoryLocal(hreq[q])
  BY DEF HistoryInv, HistoryIsRecent, Lrem
<1>1. PICK l, u, g, t : l = hreq[r] /\ u = l.user /\ g = l.goods_id /\ t = LRem(history[u], g)
  OBVIOUS
<1>2. /\ l.pc = "lrem" /\ u \in Names /\ l.kind # "list" /\ l.res = Nil
      /\ g \in Skus /\ history[u] \in Seq(Skus)
  BY <1>1, HistoryWriter DEF Lrem
<1>3. /\ hreq' \in [Requests -> HistoryRequest]
      /\ hreq'[r].pc = "lpush" /\ Pushing(r) \subseteq hreq'[r].overlap
      /\ \A q \in Requests :
            /\ hreq'[q].user = hreq[q].user /\ hreq'[q].goods_id = hreq[q].goods_id
            /\ hreq'[q].kind = hreq[q].kind /\ hreq'[q].res = hreq[q].res
            /\ hreq'[q].page = hreq[q].page /\ hreq'[q].num_pages = hreq[q].num_pages
            /\ hreq[q].overlap \subseteq hreq'[q].overlap
            /\ q # r => hreq'[q].pc = hreq[q].pc
            /\ q # r /\ q \in Pushing(r) => r \in hreq'[q].overlap
  BY LremRecords
<1>4. history' = [history EXCEPT ![u] = t]
  BY <1>1 DEF Lrem
<1>5. /\ t \in Seq(Skus) /\ Len(t) =< Len(history[u])
      /\ \A i \in DOMAIN t : t[i] # g /\ \E a \in DOMAIN history[u] : history[u][a] = t[i]
      /\ \A i, j \in DOMAIN t : i # j /\ t[i] = t[j] =>
            \E a, b \in DOMAIN history[u] : a # b /\ history[u][a] = t[i] /\ history[u][b] = t[i]
  <2>1. Remains(t, history[u], g, Len(history[u]), Skus)
    BY <1>1, <1>2, LRemRemains
  <2>2. t \in Seq(Skus)
    BY <2>1 DEF Remains
  <2>3. DOMAIN t = 1..Len(t) /\ DOMAIN history[u] = 1..Len(history[u])
    BY <1>2, <2>2
  <2>4. PICK h, n, k : h = history[u] /\ n = Len(h) /\ k = Len(t)
    OBVIOUS
  <2>5. /\ k =< n
        /\ \A i \in 1..k : t[i] # g /\ \E a \in 1..n : h[a] = t[i]
        /\ \A i, j \in 1..k : i # j /\ t[i] = t[j] =>
              \E a, b \in 1..n : a # b /\ h[a] = t[i] /\ h[b] = t[i]
    BY <2>1, <2>4 DEF Remains
  <2>6. DOMAIN t = 1..k /\ DOMAIN history[u] = 1..n /\ Len(t) =< Len(history[u])
    BY <2>3, <2>4, <2>5
  <2>7. ASSUME NEW i \in DOMAIN t
        PROVE t[i] # g /\ \E a \in DOMAIN history[u] : history[u][a] = t[i]
    <3>1. PICK a \in 1..n : t[i] # g /\ h[a] = t[i]
      BY <2>5, <2>6, <2>7
    <3> QED BY <2>4, <2>6, <3>1
  <2>8. ASSUME NEW i \in DOMAIN t, NEW j \in DOMAIN t, i # j, t[i] = t[j]
        PROVE \E a, b \in DOMAIN history[u] :
                 a # b /\ history[u][a] = t[i] /\ history[u][b] = t[i]
    <3>1. PICK a \in 1..n, b \in 1..n : a # b /\ h[a] = t[i] /\ h[b] = t[i]
      BY <2>5, <2>6, <2>8
    <3> QED BY <2>4, <2>6, <3>1
  <2> QED BY <2>2, <2>6, <2>7, <2>8
<1>6. HistoryTypeOK'
  <2>1. history' \in [Names -> Seq(Skus)]
    BY <1>0, <1>4, <1>5 DEF HistoryTypeOK
  <2> QED BY <1>0, <1>3, <2>1 DEF HistoryTypeOK
<1>7. ListPagesExist'
  BY <1>0, <1>3, PagesStep
<1>8. \A q \in Requests : HistoryLocal(hreq'[q])
  <2>1. HistoryLocal(hreq'[r])
    BY <1>1, <1>2, <1>3 DEF HistoryLocal
  <2>2. ASSUME NEW q \in Requests \ {r} PROVE HistoryLocal(hreq'[q])
    <3>1. CASE hreq[q].pc = "idle"
      <4>1. hreq[q] = HistoryIdle
        BY <1>0, <3>1 DEF HistoryLocal
      <4>2. q \notin Pushing(r)
        BY <3>1 DEF Pushing
      <4>3. hreq'[q] = hreq[q]
        BY <4>2 DEF Lrem
      <4> QED BY <1>0, <4>3
    <3>2. CASE hreq[q].pc # "idle"
      BY <1>0, <1>3, <3>2 DEF HistoryLocal
    <3> QED BY <3>1, <3>2
  <2> QED BY <2>1, <2>2
<1>10. \A n \in Names : n # u => history'[n] = history[n]
  BY <1>0, <1>4 DEF HistoryTypeOK
<1>11. history'[u] = t
  BY <1>0, <1>2, <1>4 DEF HistoryTypeOK
<1>12. HistoryBounded'
  <2>1. \A n \in Names : Untrimmed(n) \subseteq Untrimmed(n)'
    BY <1>1, <1>2, <1>3 DEF Untrimmed
  <2>2. \A n \in Names : Len(history'[n]) =< Len(history[n])
    BY <1>0, <1>5, <1>10, <1>11 DEF HistoryTypeOK
  <2> QED BY <1>0, <1>6, <2>1, <2>2, BoundedStep
<1>13. TwiceOnlyByRace'
  <2>2. \A n, s : Overlapped(n, s) => Overlapped(n, s)'
    BY <1>3, OverlapGrows
  <2>4. ASSUME NEW n \in Names, NEW i \in DOMAIN history'[n], NEW j \in DOMAIN history'[n],
               i # j, history'[n][i] = history'[n][j], NEW s, s = history'[n][i]
        PROVE Overlapped(n, s)
    <3>1. CASE n # u
      BY <1>0, <1>10, <2>4, <3>1 DEF TwiceOnlyByRace
    <3>2. CASE n = u
      <4>1. PICK a \in DOMAIN history[u], b \in DOMAIN history[u] :
              a # b /\ history[u][a] = s /\ history[u][b] = s
        BY <1>5, <1>11, <2>4, <3>2
      <4> QED BY <1>0, <1>2, <3>2, <4>1 DEF TwiceOnlyByRace
    <3> QED BY <3>1, <3>2
  <2>5. ASSUME NEW q \in Requests, hreq'[q].pc = "lpush",
               NEW n, n = hreq'[q].user, NEW s, s = hreq'[q].goods_id
        PROVE /\ \A i \in DOMAIN history'[n] : history'[n][i] = s => Overlapped(n, s)
              /\ \A x \in Requests :
                    hreq'[x].pc = "lpush" /\ hreq'[x].user = n /\ hreq'[x].goods_id = s
                       /\ x # q => x \in hreq'[q].overlap
    <3>1. CASE q = r
      <4>1. n = u /\ s = g
        BY <1>1, <1>3, <2>5, <3>1
      <4>2. \A i \in DOMAIN history'[n] : history'[n][i] # s
        BY <1>5, <1>11, <4>1
      <4>3. ASSUME NEW x \in Requests, hreq'[x].pc = "lpush", hreq'[x].user = n,
                   hreq'[x].goods_id = s, x # q
            PROVE x \in hreq'[q].overlap
        <5>1. x \in Pushing(r)
          BY <1>1, <1>3, <3>1, <4>1, <4>3 DEF Pushing
        <5> QED BY <1>3, <3>1, <5>1
      <4> QED BY <4>2, <4>3
    <3>2. CASE q # r
      <4>1. hreq[q].pc = "lpush" /\ hreq[q].user = n /\ hreq[q].goods_id = s /\ n \in Names
        BY <1>0, <1>3, <2>5, <3>2 DEF HistoryLocal
      <4>2. \A i \in DOMAIN history[n] : history[n][i] = s => Overlapped(n, s)
        BY <1>0, <4>1 DEF TwiceOnlyByRace
      <4>3. \A i \in DOMAIN history'[n] : history'[n][i] = s => Overlapped(n, s)
        <5>1. CASE n # u
          BY <1>10, <4>1, <4>2, <5>1
        <5>2. CASE n = u
          BY <1>5, <1>11, <4>2, <5>2
        <5> QED BY <5>1, <5>2
      <4>4. ASSUME NEW x \in Requests, hreq'[x].pc = "lpush", hreq'[x].user = n,
                   hreq'[x].goods_id = s, x # q
            PROVE x \in hreq'[q].overlap
        <5>1. CASE x = r
          <6>1. q \in Pushing(r)
            BY <1>3, <4>1, <4>4, <5>1 DEF Pushing
          <6> QED BY <1>3, <3>2, <5>1, <6>1
        <5>2. CASE x # r
          <6>1. x \in Pushing(q)
            BY <1>3, <4>1, <4>4, <5>2 DEF Pushing
          <6>2. x \in hreq[q].overlap
            BY <1>0, <4>1, <4>4, <6>1 DEF TwiceOnlyByRace
          <6> QED BY <1>3, <6>2
        <5> QED BY <5>1, <5>2
      <4> QED BY <4>3, <4>4
    <3> QED BY <3>1, <3>2
  <2> QED BY <2>2, <2>4, <2>5, TwiceNext
<1> QED BY <1>6, <1>7, <1>8, <1>12, <1>13 DEF HistoryInv, HistoryIsRecent

\* Every step of the history views keeps their invariant.
LEMMA HistorySteps ==
    ASSUME HistoryInv, [HistoryStep]_historyVars
    PROVE HistoryInv'
<1>1. ASSUME NEW r \in Requests, NEW u \in Names, Detail(r, u, LoggedIn(u)) PROVE HistoryInv'
  <2>1. LoggedIn(u) \in BOOLEAN
    BY DEF LoggedIn
  <2> QED BY <1>1, <2>1, DetailStep
<1>2. ASSUME NEW r \in Requests, NEW u \in Names, NEW d, Info(r, u, d) PROVE HistoryInv'
  BY <1>2, InfoStep
<1>3. ASSUME NEW r \in Requests, ListPage(r) PROVE HistoryInv'
  BY <1>3, ListPageStep
<1>4. ASSUME NEW r \in Requests, HistoryView(r) PROVE HistoryInv'
  BY <1>4, LremStep, LpushStep, LtrimStep, HistoryReadSteps DEF HistoryView
<1>5. ASSUME NEW s, DeleteSku(s) PROVE HistoryInv'
  <2>1. rows' \subseteq rows /\ history' = history /\ hreq' = hreq
    BY <1>5 DEF DeleteSku
  <2> QED BY <2>1 DEF HistoryInv, HistoryTypeOK, HistoryIsRecent, HistoryBounded, Untrimmed,
         TwiceOnlyByRace, Overlapped, Pushing, ListPagesExist, LinksAreAWindow, OnlyPageZeroFails
<1>6. ASSUME UNCHANGED historyVars PROVE HistoryInv'
  BY <1>6 DEF historyVars, HistoryInv, HistoryTypeOK, HistoryIsRecent, HistoryBounded, Untrimmed,
         TwiceOnlyByRace, Overlapped, Pushing, ListPagesExist, LinksAreAWindow, OnlyPageZeroFails
<1> QED BY <1>1, <1>2, <1>3, <1>4, <1>5, <1>6 DEF HistoryStep

\* What a step of the history leaves behind: an entry in an empty list comes
\* from a view that was about to push, and a view that is going to write was
\* going to before, or has just begun in a session.
LEMMA HistoryTraces ==
    ASSUME HistoryInv, HistoryStep
    PROVE /\ \A u \in Names : history'[u] # <<>> =>
                \/ history[u] # <<>>
                \/ \E r \in Requests : hreq[r].pc = "lpush" /\ hreq[r].user = u
          /\ \A r \in Requests : hreq'[r].pc \in {"lrem", "lpush", "ltrim"} =>
                /\ hreq'[r].user \in Names
                /\ \/ LoggedIn(hreq'[r].user)
                   \/ /\ hreq[r].pc \in {"lrem", "lpush", "ltrim"}
                      /\ hreq'[r].user = hreq[r].user
<1>0. /\ HistoryTypeOK /\ hreq \in [Requests -> HistoryRequest]
      /\ \A r \in Requests : HistoryLocal(hreq[r])
  BY DEF HistoryInv, HistoryTypeOK, HistoryIsRecent
<1>1. \A r \in Requests : hreq[r].pc \in {"lrem", "lpush", "ltrim"} => hreq[r].user \in Names
  BY <1>0 DEF HistoryLocal
<1>2. ASSUME NEW r \in Requests, NEW u \in Names, Detail(r, u, LoggedIn(u))
      PROVE /\ history' = history /\ \A q \in Requests \ {r} : hreq'[q] = hreq[q]
            /\ hreq'[r].pc \in {"lrem", "lpush", "ltrim"} => LoggedIn(u) /\ hreq'[r].user = u
  <2>1. PICK s \in Skus :
          hreq' = [hreq EXCEPT ![r] =
            [@ EXCEPT !.kind = "detail", !.user = u, !.goods_id = s,
                      !.pc = IF s \in rows /\ LoggedIn(u) THEN "lrem" ELSE "done",
                      !.res = IF s \notin rows THEN "redirect"
                              ELSE IF LoggedIn(u) THEN Nil ELSE "page"]]
    BY <1>2 DEF Detail
  <2>2. PICK x, p, y : /\ x = hreq[r] /\ p = IF s \in rows /\ LoggedIn(u) THEN "lrem" ELSE "done"
                       /\ y = IF s \notin rows THEN "redirect"
                              ELSE IF LoggedIn(u) THEN Nil ELSE "page"
    OBVIOUS
  <2>3. hreq' = [hreq EXCEPT ![r] = [x EXCEPT !.kind = "detail", !.user = u, !.goods_id = s,
                                              !.pc = p, !.res = y]]
    BY <2>1, <2>2
  <2>4. /\ hreq'[r] = [x EXCEPT !.kind = "detail", !.user = u, !.goods_id = s, !.pc = p, !.res = y]
        /\ \A q \in Requests \ {r} : hreq'[q] = hreq[q]
    BY <1>0, <2>3
  <2>5. x \in HistoryRequest
    BY <1>0, <2>2
  <2>6. hreq'[r].pc = p /\ hreq'[r].user = u
    BY <2>4, <2>5, HistoryRecord
  <2>7. p = "lrem" => LoggedIn(u)
    BY <2>2
  <2>8. p \in {"lrem", "done"}
    BY <2>2
  <2> QED BY <1>2, <2>4, <2>6, <2>7, <2>8 DEF Detail
<1>3. ASSUME NEW r \in Requests, (\E u \in Names : \E d : Info(r, u, d)) \/ ListPage(r)
      PROVE /\ history' = history /\ \A q \in Requests \ {r} : hreq'[q] = hreq[q]
            /\ hreq'[r].pc \in {"lrange", "done"}
  <2>1. CASE \E u \in Names : \E d : Info(r, u, d)
    <3>0. PICK u, d : Info(r, u, d)
      BY <2>1
    <3>a. PICK p, y : /\ p = IF d > 1 THEN "done" ELSE "lrange"
                      /\ y = IF d > 1 THEN "MultipleObjectsReturned" ELSE Nil
      OBVIOUS
    <3>1. hreq' = [hreq EXCEPT ![r] = [@ EXCEPT !.kind = "info", !.user = u, !.pc = p, !.res = y]]
      BY <3>0, <3>a DEF Info
    <3>2. hreq[r] \in HistoryRequest /\ p \in {"lrange", "done"}
      BY <1>0, <3>a
    <3>3. hreq'[r].pc = p /\ \A q \in Requests \ {r} : hreq'[q] = hreq[q]
      BY <1>0, <3>1, <3>2, HistoryRecord
    <3> QED BY <3>0, <3>2, <3>3 DEF Info
  <2>2. CASE ListPage(r)
    <3>1. PICK a, b, y :
            hreq' = [hreq EXCEPT ![r] = [@ EXCEPT !.kind = "list", !.pc = "done", !.page = a,
                                                  !.num_pages = b, !.res = y]]
      BY <2>2 DEF ListPage, ListAnswer
    <3>2. hreq[r] \in HistoryRequest
      BY <1>0
    <3>3. hreq'[r].pc = "done" /\ \A q \in Requests \ {r} : hreq'[q] = hreq[q]
      BY <1>0, <3>1, <3>2, HistoryRecord
    <3> QED BY <2>2, <3>3 DEF ListPage
  <2> QED BY <1>3, <2>1, <2>2
<1>4. ASSUME NEW r \in Requests, Lrem(r)
      PROVE /\ \A q \in Requests :
                  /\ hreq'[q].user = hreq[q].user
                  /\ hreq'[q].pc \in {"lrem", "lpush", "ltrim"} =>
                        hreq[q].pc \in {"lrem", "lpush", "ltrim"}
            /\ \A u \in Names : history'[u] # <<>> => history[u] # <<>>
  <2>1. PICK l, u, t : l = hreq[r] /\ u = l.user /\ t = LRem(history[u], l.goods_id)
    OBVIOUS
  <2>2. l.pc = "lrem" /\ u \in Names /\ history[u] \in Seq(Skus) /\ history \in [Names -> Seq(Skus)]
    BY <1>0, <1>4, <2>1, HistoryWriter DEF Lrem, HistoryTypeOK
  <2>3. history' = [history EXCEPT ![u] = t]
    BY <1>4, <2>1 DEF Lrem
  <2>4. t \in Seq(Skus) /\ Len(t) =< Len(history[u])
    BY <2>1, <2>2, LRemRemains DEF Remains
  <2>5. t # <<>> => history[u] # <<>>
    BY <2>2, <2>4
  <2> QED BY <1>4, <2>1, <2>2, <2>3, <2>5, LremRecords
<1>5. ASSUME NEW r \in Requests, Lpush(r) \/ Ltrim(r)
      PROVE /\ \A q \in Requests :
                  /\ hreq'[q].user = hreq[q].user
                  /\ hreq'[q].pc \in {"lrem", "lpush", "ltrim"} =>
                        hreq[q].pc \in {"lrem", "lpush", "ltrim"}
            /\ \A u \in Names : history'[u] # <<>> =>
                  history[u] # <<>> \/ (hreq[r].pc = "lpush" /\ hreq[r].user = u)
  <2>1. PICK l, u : l = hreq[r] /\ u = l.user
    OBVIOUS
  <2>2. /\ l.pc \in {"lpush", "ltrim"} /\ u \in Names /\ history[u] \in Seq(Skus)
        /\ history \in [Names -> Seq(Skus)] /\ l \in HistoryRequest
    BY <1>0, <1>5, <2>1, HistoryWriter DEF Lpush, Ltrim, HistoryTypeOK
  <2>3. \A q \in Requests : /\ hreq'[q].user = hreq[q].user
                            /\ hreq'[q].pc # hreq[q].pc => q = r
    BY <1>0, <1>5, <2>1, <2>2, HistoryRecord DEF Lpush, Ltrim, HAnswer
  <2>4. \A n \in Names : n # u => history'[n] = history[n]
    BY <1>5, <2>1, <2>2 DEF Lpush, Ltrim
  <2>5. CASE Lpush(r)
    BY <2>1, <2>2, <2>3, <2>4, <2>5 DEF Lpush
  <2>6. CASE Ltrim(r)
    <3>1. PICK t : t = LTrim(history[u], Keep)
      OBVIOUS
    <3>2. t \in Seq(Skus) /\ Len(t) =< Len(history[u])
      BY <2>2, <3>1, LTrimIs, HistoryAssumption
    <3>3. history'[u] = t
      BY <2>1, <2>2, <2>6, <3>1 DEF Ltrim
    <3>4. history'[u] # <<>> => history[u] # <<>>
      BY <2>2, <3>2, <3>3
    <3> QED BY <2>1, <2>2, <2>3, <2>4, <3>4
  <2> QED BY <1>5, <2>5, <2>6
<1>6. ASSUME NEW r \in Requests, Lrange(r) \/ InfoItem(r) \/ HistoryCrash(r)
      PROVE /\ history' = history
            /\ \A q \in Requests :
                  /\ hreq'[q].user = hreq[q].user
                  /\ hreq'[q].pc \in {"lrem", "lpush", "ltrim"} => hreq'[q].pc = hreq[q].pc
  <2>1. hreq[r] \in HistoryRequest
    BY <1>0
  <2>2. \A q \in Requests \ {r} : hreq'[q] = hreq[q]
    BY <1>0, <1>6 DEF Lrange, InfoItem, HistoryCrash, HAnswer
  <2>3. hreq'[r].user = hreq[r].user /\ hreq'[r].pc \in {"rows", "done", "dead"}
    BY <1>0, <1>6, <2>1, HistoryRecord DEF Lrange, InfoItem, HistoryCrash, HAnswer
  <2> QED BY <1>6, <2>2, <2>3 DEF Lrange, InfoItem, HistoryCrash
<1>7. ASSUME NEW s, DeleteSku(s) PROVE history' = history /\ hreq' = hreq
  BY <1>7 DEF DeleteSku
<1> QED BY <1>1, <1>2, <1>3, <1>4, <1>5, <1>6, <1>7 DEF HistoryStep, HistoryView

\* What a step of the address views leaves behind, likewise.
LEMMA AddressTraces ==
    ASSUME AddressInv, AddressStep
    PROVE /\ \A u \in Names : Rows(u)' # {} =>
                \/ Rows(u) # {}
                \/ \E r \in Requests : dreq[r].pc = "create" /\ dreq[r].user = u
          /\ \A r \in Requests : dreq'[r].pc = "create" =>
                /\ dreq'[r].user \in Names
                /\ \/ LoggedIn(dreq'[r].user)
                   \/ dreq[r].pc = "create" /\ dreq'[r].user = dreq[r].user
<1>0. /\ address \in [Requests -> {Nil} \cup AddressRow] /\ dreq \in [Requests -> AddressRequest]
      /\ \A r \in Requests : dreq[r].pc = "create" => dreq[r].user \in Names
  BY DEF AddressInv, AddressTypeOK, OneDefaultAddress, AddressLocal
<1>1. ASSUME NEW r \in Requests, NEW u \in Names, LoggedIn(u), AddressStart(r, u)
      PROVE /\ address' = address /\ \A q \in Requests \ {r} : dreq'[q] = dreq[q]
            /\ dreq'[r].user = u
  <2>0. dreq[r] \in AddressRequest
    BY <1>0
  <2>1. CASE GetDefaultAddress(r, u)
    <3>a. PICK w, D : w = Rows(u) /\ D = Defaults(u)
      OBVIOUS
    <3>b. PICK kind :
            dreq' = [dreq EXCEPT ![r] =
              [@ EXCEPT !.user = u, !.seen = w, !.is_default = kind = "form" /\ D = {},
                        !.pc = IF Cardinality(D) =< 1 /\ kind = "form" THEN "create" ELSE "done",
                        !.res = IF Cardinality(D) > 1 THEN ServerError
                                ELSE IF kind = "page" THEN "page" ELSE Nil]]
      BY <2>1, <3>a DEF GetDefaultAddress
    <3>c. PICK d, p, y :
            /\ d = (kind = "form" /\ D = {})
            /\ p = IF Cardinality(D) =< 1 /\ kind = "form" THEN "create" ELSE "done"
            /\ y = IF Cardinality(D) > 1 THEN ServerError
                   ELSE IF kind = "page" THEN "page" ELSE Nil
      OBVIOUS
    <3>1. dreq' = [dreq EXCEPT ![r] = [@ EXCEPT !.user = u, !.seen = w, !.is_default = d,
                                                !.pc = p, !.res = y]]
      BY <3>b, <3>c
    <3> QED BY <1>0, <2>0, <2>1, <3>1 DEF GetDefaultAddress, AddressRequest
  <2>2. CASE AddressBadForm(r, u)
    BY <1>0, <2>0, <2>2 DEF AddressBadForm, AddressRequest
  <2> QED BY <1>1, <2>1, <2>2 DEF AddressStart
<1>2. ASSUME NEW r \in Requests, CreateAddress(r)
      PROVE /\ \A q \in Requests \ {r} : dreq'[q] = dreq[q] /\ address'[q] = address[q]
            /\ dreq'[r].pc = "done" /\ dreq[r].pc = "create" /\ address'[r].user = dreq[r].user
  BY <1>0, <1>2 DEF CreateAddress, AddressRequest
<1>3. ASSUME NEW r \in Requests, AddressCrash(r)
      PROVE /\ address' = address /\ \A q \in Requests \ {r} : dreq'[q] = dreq[q]
            /\ dreq'[r].pc = "dead"
  BY <1>0, <1>3 DEF AddressCrash, AddressRequest
<1>4. address' = address => \A u : Rows(u)' = Rows(u)
  BY DEF Rows
<1>5. ASSUME NEW r \in Requests, CreateAddress(r), NEW u \in Names, Rows(u)' # {}
      PROVE Rows(u) # {} \/ (dreq[r].pc = "create" /\ dreq[r].user = u)
  BY <1>2, <1>5 DEF Rows
<1> QED BY <1>0, <1>1, <1>2, <1>3, <1>4, <1>5 DEF AddressStep, AddressView

\* Every step keeps what is said of the accounts that left traces.
LEMMA TraceSteps ==
    ASSUME AccountInv, HistoryInv, AddressInv, OnlyActiveUsersLeaveTraces, [SiteNext]_siteVars
    PROVE OnlyActiveUsersLeaveTraces'
<1>1. SUFFICES
        /\ \A u \in Names : Opened(u) => Opened(u)'
        /\ \A u \in Names : history'[u] # <<>> \/ Rows(u)' # {} => Opened(u)
        /\ \A r \in Requests : hreq'[r].pc \in {"lrem", "lpush", "ltrim"} =>
              hreq'[r].user \in Names /\ Opened(hreq'[r].user)
        /\ \A r \in Requests : dreq'[r].pc = "create" =>
              dreq'[r].user \in Names /\ Opened(dreq'[r].user)
  <2>1. \A u \in Names : history'[u] # <<>> \/ Rows(u)' # {} => Opened(u)'
    BY <1>1
  <2>2. ASSUME NEW r \in Requests, hreq'[r].pc \in {"lrem", "lpush", "ltrim"}
        PROVE Opened(hreq[r].user)'
    <3>1. PICK x : x = hreq'[r].user
      OBVIOUS
    <3>2. Opened(x)'
      BY <1>1, <2>2, <3>1
    <3> QED BY <3>1, <3>2 DEF Opened
  <2>3. ASSUME NEW r \in Requests, dreq'[r].pc = "create"
        PROVE Opened(dreq[r].user)'
    <3>1. PICK x : x = dreq'[r].user
      OBVIOUS
    <3>2. Opened(x)'
      BY <1>1, <2>3, <3>1
    <3> QED BY <3>1, <3>2 DEF Opened
  <2> QED BY <2>1, <2>2, <2>3 DEF OnlyActiveUsersLeaveTraces
<1>2. /\ \A r \in Requests : hreq[r].pc \in {"lrem", "lpush", "ltrim"} => hreq[r].user \in Names
      /\ \A r \in Requests : dreq[r].pc = "create" => dreq[r].user \in Names
  BY DEF HistoryInv, HistoryIsRecent, HistoryLocal, AddressInv, OneDefaultAddress, AddressLocal
<1>3. \A u \in Names : LoggedIn(u) => Opened(u)
  BY LoggedInOpened
<1>4. /\ address' = address => \A u : Rows(u)' = Rows(u)
      /\ areq' = areq => \A u : Opened(u) => Opened(u)'
  BY DEF Rows, Opened
<1>5. CASE AccountStep
  <2>1. UNCHANGED <<historyVars, addressVars>>
    BY <1>5 DEF AccountStep
  <2> QED BY <1>2, <1>4, <1>5, <2>1, OpenedGrows
          DEF historyVars, addressVars, OnlyActiveUsersLeaveTraces
<1>6. CASE HistoryStep
  <2>1. UNCHANGED <<accountVars, addressVars>>
    BY <1>6 DEF HistoryStep
  <2> QED BY <1>2, <1>3, <1>4, <1>6, <2>1, HistoryTraces
          DEF accountVars, addressVars, OnlyActiveUsersLeaveTraces
<1>7. CASE AddressStep
  <2>1. UNCHANGED <<accountVars, historyVars>>
    BY <1>7 DEF AddressStep
  <2> QED BY <1>2, <1>3, <1>4, <1>7, <2>1, AddressTraces
          DEF accountVars, historyVars, OnlyActiveUsersLeaveTraces
<1>8. CASE UNCHANGED siteVars
  BY <1>2, <1>4, <1>8
     DEF siteVars, accountVars, historyVars, addressVars, OnlyActiveUsersLeaveTraces
<1> QED BY <1>5, <1>6, <1>7, <1>8 DEF SiteNext

\* An entry that a step removes was viewed again or was pushed out.
LEMMA KeptSteps ==
    ASSUME HistoryInv, HistoryStep, NEW u \in Names, NEW s \in ToSet(history[u])
    PROVE \/ s \in ToSet(history'[u])
          \/ Len(history'[u]) >= Keep
          \/ \E r \in Requests : hreq[r].pc = "lrem" /\ hreq'[r].pc = "lpush"
                                   /\ hreq[r].goods_id = s
<1>0. history \in [Names -> Seq(Skus)]
  BY DEF HistoryInv, HistoryTypeOK
<1>1. PICK i \in DOMAIN history[u] : history[u][i] = s
  BY DEF ToSet
<1>2. ASSUME NEW t, NEW j \in DOMAIN t, t[j] = s PROVE s \in ToSet(t)
  BY <1>2 DEF ToSet
<1>3. CASE history' = history
  BY <1>3
<1>4. ASSUME NEW r \in Requests, Lrem(r), s \notin ToSet(history'[u])
      PROVE hreq[r].pc = "lrem" /\ hreq'[r].pc = "lpush" /\ hreq[r].goods_id = s
  <2>1. PICK n, g, t : n = hreq[r].user /\ g = hreq[r].goods_id /\ t = LRem(history[n], g)
    OBVIOUS
  <2>2. hreq[r].pc = "lrem" /\ hreq'[r].pc = "lpush" /\ n \in Names
    BY <1>4, <2>1, HistoryWriter, LremRecords DEF Lrem
  <2>3. history' = [history EXCEPT ![n] = t]
    BY <1>4, <2>1 DEF Lrem
  <2>4. n = u
    <3> SUFFICES ASSUME n # u PROVE FALSE
      OBVIOUS
    <3>1. history'[u] = history[u]
      BY <1>0, <2>3
    <3> QED BY <1>4, <3>1
  <2>5. history'[u] = t
    BY <1>0, <2>2, <2>3, <2>4
  <2>6. SUFFICES ASSUME g # s PROVE FALSE
    BY <2>1, <2>2
  <2>7. PICK h, k : h = history[u] /\ k = Len(h)
    OBVIOUS
  <2>8. Remains(t, h, g, k, Skus) /\ i \in 1..k
    BY <1>0, <1>1, <2>1, <2>4, <2>7, LRemRemains
  <2>9. PICK j \in 1..Len(t) : t[j] = h[i]
    BY <1>1, <2>6, <2>7, <2>8 DEF Remains
  <2>10. j \in DOMAIN t
    BY <2>8, <2>9 DEF Remains
  <2> QED BY <1>1, <1>2, <1>4, <2>5, <2>7, <2>9, <2>10
<1>5. ASSUME NEW r \in Requests, Lpush(r) PROVE s \in ToSet(history'[u])
  <2>1. PICK n, g, t : n = hreq[r].user /\ g = hreq[r].goods_id /\ t = <<g>> \o history[n]
    OBVIOUS
  <2>2. n \in Names /\ g \in Skus
    BY <1>5, <2>1, HistoryWriter DEF Lpush
  <2>3. history' = [history EXCEPT ![n] = t]
    BY <1>5, <2>1 DEF Lpush
  <2>4. CASE n # u
    <3>1. history'[u] = history[u]
      BY <1>0, <2>3, <2>4
    <3> QED BY <3>1
  <2>5. CASE n = u
    <3>1. history'[u] = t
      BY <1>0, <2>2, <2>3, <2>5
    <3>2. i + 1 \in DOMAIN t /\ t[i + 1] = s
      BY <1>0, <1>1, <2>1, <2>2, <2>5
    <3> QED BY <1>2, <3>1, <3>2
  <2> QED BY <2>4, <2>5
<1>6. ASSUME NEW r \in Requests, Ltrim(r)
      PROVE s \in ToSet(history'[u]) \/ Len(history'[u]) >= Keep
  <2>1. PICK n, t : n = hreq[r].user /\ t = LTrim(history[n], Keep)
    OBVIOUS
  <2>2. n \in Names
    BY <1>6, <2>1, HistoryWriter DEF Ltrim
  <2>3. history' = [history EXCEPT ![n] = t]
    BY <1>6, <2>1 DEF Ltrim
  <2>4. CASE n # u
    <3>1. history'[u] = history[u]
      BY <1>0, <2>3, <2>4
    <3> QED BY <3>1
  <2>5. CASE n = u
    <3>1. history'[u] = t
      BY <1>0, <2>2, <2>3, <2>5
    <3>2. Len(t) >= Keep \/ t = history[u]
      BY <1>0, <2>1, <2>5, LTrimIs, HistoryAssumption
    <3> QED BY <3>1, <3>2
  <2> QED BY <2>4, <2>5
<1>7. \/ history' = history
      \/ \E r \in Requests : Lrem(r) \/ Lpush(r) \/ Ltrim(r)
  BY DEF HistoryStep, Detail, Info, ListPage, HistoryView, Lrange, InfoItem, HistoryCrash, DeleteSku
<1> QED BY <1>3, <1>4, <1>5, <1>6, <1>7

------------------------------------------------------------------------------
(* The theorems.                                                            *)

\* The invariants of the parts, and what relates them.
SiteInv == AccountInv /\ HistoryInv /\ AddressInv /\ OnlyActiveUsersLeaveTraces

\* They hold at the start and every step of every view keeps them.
LEMMA SiteInvHolds == SiteSpec => []SiteInv
<1>1. SiteInit => SiteInv
  <2> SUFFICES ASSUME SiteInit PROVE SiteInv
    OBVIOUS
  <2>1. AccountInv /\ HistoryInv /\ AddressInv
    BY AccountStarts, HistoryStarts, AddressStarts DEF SiteInit
  <2>2. OnlyActiveUsersLeaveTraces
    <3>1. /\ \A u \in Names : history[u] = <<>> /\ Rows(u) = {}
          /\ \A r \in Requests : hreq[r] = HistoryIdle /\ dreq[r] = AddressIdle
      BY DEF SiteInit, HistoryInit, AddressInit, Rows
    <3> QED BY <3>1 DEF OnlyActiveUsersLeaveTraces, HistoryIdle, AddressIdle
  <2> QED BY <2>1, <2>2 DEF SiteInv
<1>2. SiteInv /\ [SiteNext]_siteVars => SiteInv'
  <2> SUFFICES ASSUME SiteInv, [SiteNext]_siteVars PROVE SiteInv'
    OBVIOUS
  <2>0. AccountInv /\ HistoryInv /\ AddressInv /\ OnlyActiveUsersLeaveTraces
    BY DEF SiteInv
  <2>1. [AccountStep]_accountVars /\ [HistoryStep]_historyVars /\ [AddressStep]_addressVars
    BY DEF SiteNext, siteVars, AccountStep, HistoryStep, AddressStep
  <2> QED BY <2>0, <2>1, AccountSteps, HistorySteps, AddressSteps, TraceSteps DEF SiteInv
<1> QED BY <1>1, <1>2, PTL DEF SiteSpec

\* Whatever registrations, logins and activations overlap or break off, an
\* account is active only by its token or in the gap after create_user, a
\* name is taken once, and only an account that was active leaves a history
\* or an address (register_handle, Active, LoginView of user/views.py).
THEOREM AccountsStaySound == SiteSpec => []AccountsAreSound
<1>1. SiteInv => AccountsAreSound
  BY DEF SiteInv, AccountInv, HistoryInv, AddressInv, AccountsAreSound, TypeOK
<1> QED BY <1>1, SiteInvHolds, PTL

\* A customer with addresses has a default one, and two only by a race of
\* the query and the insert (AddressView.post of user/views.py).
THEOREM AddressHasDefault == SiteSpec => []OneDefaultAddress
<1>1. SiteInv => OneDefaultAddress
  BY DEF SiteInv, AddressInv
<1> QED BY <1>1, SiteInvHolds, PTL

\* The history has at most Keep entries and those of views on their way, and
\* an item twice only by views that overlapped between lrem and lpush
\* (DetailView.get of goods/views.py).
THEOREM HistoryStaysRecent == SiteSpec => []HistoryIsRecent
<1>1. SiteInv => HistoryIsRecent
  BY DEF SiteInv, HistoryInv
<1> QED BY <1>1, SiteInvHolds, PTL

\* A list page that is answered exists and is inside its window of links, for
\* every number of items and every page that is asked for (ListView.get).
THEOREM ListPagesAreShown == SiteSpec => []ListPagesExist
<1>1. SiteInv => ListPagesExist
  BY DEF SiteInv, HistoryInv
<1> QED BY <1>1, SiteInvHolds, PTL

\* No step takes an entry out of a history but a view of the same item or
\* the trim of a full list (lrem, lpush and ltrim of DetailView.get).
THEOREM HistoryIsKept == SiteSpec => KeptUntilPushedOut
<1> DEFINE Kept == \A u \in Names : \A s \in ToSet(history[u]) :
                      \/ s \in ToSet(history'[u])
                      \/ Len(history'[u]) >= Keep
                      \/ \E r \in Requests : hreq[r].pc = "lrem" /\ hreq'[r].pc = "lpush"
                                               /\ hreq[r].goods_id = s
<1>1. SiteInv /\ [SiteNext]_siteVars => [Kept]_history
  <2> SUFFICES ASSUME SiteInv, [SiteNext]_siteVars, history' # history PROVE Kept
    OBVIOUS
  <2>1. HistoryInv /\ HistoryStep
    BY DEF SiteInv, SiteNext, AccountStep, AddressStep, siteVars, historyVars
  <2> QED BY <2>1, KeptSteps
<1> QED BY <1>1, SiteInvHolds, PTL DEF SiteSpec, KeptUntilPushedOut

------------------------------------------------------------------------------
(* The index page.                                                         *)

\* What the invariant says of the local variables l of request r.
LocalsOK(r, l) ==
    /\ l \in Locals /\ l.data \subseteq db
    /\ r \in db => l.pc = "committed" /\ l.kind = ireq[r].kind
    /\ l.pc = "commit" /\ cache # Nil => r \in cache.after
    /\ l.pc \in {"delay", "delete", "commit"} => l.kind = "save"
    /\ l.kind = "save" /\ l.pc \in {"delete", "commit", "committed"} => task[r].pc \in Started
    /\ l.pc \in {"idle", "delay"} => task[r].pc = Nil

\* Before the first request the database shows no edit, and nothing has been
\* cached, sent or written.
LEMMA InitIndexInv == Init => IndexInv
BY NilAssumption
   DEF Init, IndexInv, IndexTypeOK, Idle, NoTask, StaleOnlyIfSetAfterDelete, OnlyCommittedIsRead,
       SetSinceDelete, SavedSendsTask, WrittenByTask, Locals, Steps, Started

\* The invariant says LocalsOK of the local variables of every request.
LEMMA LocalsAll ==
  ASSUME IndexInv
  PROVE  \A r \in PageRequests : LocalsOK(r, ireq[r])
BY DEF IndexInv, IndexTypeOK, OnlyCommittedIsRead, SetSinceDelete, SavedSendsTask, LocalsOK, Locals

\* The parts of the invariant, from what is to be shown of each request.
LEMMA Collect ==
  ASSUME IndexInv, IndexTypeOK',
         \A r \in PageRequests : LocalsOK(r, ireq[r])' /\ (task[r].data \subseteq db)',
         StaleOnlyIfSetAfterDelete', WrittenByTask',
         (cache # Nil => cache.data \subseteq db)', (page # Nil => page \subseteq db)'
  PROVE  IndexInv'
BY DEF IndexInv, OnlyCommittedIsRead, SetSinceDelete, SavedSendsTask, LocalsOK

\* A step of one request that changes nothing but its local variables.
LEMMA LocalStep ==
  ASSUME IndexInv, NEW r \in PageRequests, NEW l, LocalsOK(r, l),
         ireq' = [ireq EXCEPT ![r] = l],
         UNCHANGED <<db, cache, page, task>>
  PROVE  IndexInv'
<1>1. IndexTypeOK'
  BY DEF IndexInv, IndexTypeOK, LocalsOK, Locals
<1>2. ASSUME NEW q \in PageRequests PROVE LocalsOK(q, ireq[q])' /\ (task[q].data \subseteq db)'
  BY LocalsAll DEF LocalsOK, IndexInv, IndexTypeOK, OnlyCommittedIsRead
<1>3. \A e \in db : ireq'[e].kind = ireq[e].kind
  BY DEF IndexInv, IndexTypeOK, LocalsOK
<1>4. StaleOnlyIfSetAfterDelete' /\ WrittenByTask'
  BY <1>3 DEF IndexInv, StaleOnlyIfSetAfterDelete, WrittenByTask
<1> QED
  BY <1>1, <1>2, <1>4, Collect DEF IndexInv, OnlyCommittedIsRead

\* The steps of a page view that only read.
LEMMA ReadStep ==
  ASSUME IndexInv, NEW r \in PageRequests,
         CacheGet(r) \/ ReadTypes(r) \/ ReadBanners(r)
  PROVE  IndexInv'
<1>0. LocalsOK(r, ireq[r])
  BY LocalsAll
<1>1. CASE CacheGet(r)
  <2> DEFINE l == [ireq[r] EXCEPT !.kind = "view", !.pc = IF cache = Nil THEN "types" ELSE "done"]
  <2>1. LocalsOK(r, l)
    BY <1>0, <1>1 DEF CacheGet, LocalsOK, Locals, Steps
  <2>2. ireq' = [ireq EXCEPT ![r] = l] /\ UNCHANGED <<db, cache, page, task>>
    BY <1>1 DEF CacheGet
  <2> HIDE DEF l
  <2> QED BY <2>1, <2>2, LocalStep
<1>2. CASE ReadTypes(r)
  <2> DEFINE l == [ireq[r] EXCEPT !.pc = "banners", !.data = Read("types")]
  <2>1. LocalsOK(r, l)
    BY <1>0, <1>2 DEF ReadTypes, LocalsOK, Locals, Steps, Read, IndexInv, IndexTypeOK
  <2>2. ireq' = [ireq EXCEPT ![r] = l] /\ UNCHANGED <<db, cache, page, task>>
    BY <1>2 DEF ReadTypes
  <2> HIDE DEF l
  <2> QED BY <2>1, <2>2, LocalStep
<1>3. CASE ReadBanners(r)
  <2> DEFINE l == [ireq[r] EXCEPT !.pc = "set", !.data = ireq[r].data \cup Read("banners")]
  <2>1. LocalsOK(r, l)
    BY <1>0, <1>3 DEF ReadBanners, LocalsOK, Locals, Steps, Read, IndexInv, IndexTypeOK
  <2>2. ireq' = [ireq EXCEPT ![r] = l] /\ UNCHANGED <<db, cache, page, task>>
    BY <1>3 DEF ReadBanners
  <2> HIDE DEF l
  <2> QED BY <2>1, <2>2, LocalStep
<1> QED BY <1>1, <1>2, <1>3

\* An admin form that starts, fails, or is refused changes nothing but its
\* local variables.
LEMMA FormStep ==
  ASSUME IndexInv, NEW r \in PageRequests, SaveModel(r) \/ DeleteModel(r) \/ Fail(r)
  PROVE  IndexInv'
<1>0. LocalsOK(r, ireq[r])
  BY LocalsAll
<1>1. CASE SaveModel(r)
  <2>1. PICK part \in {"types", "banners"} :
          ireq' = [ireq EXCEPT ![r] = [@ EXCEPT !.kind = "save", !.pc = "delay", !.part = part]]
    BY <1>1 DEF SaveModel
  <2> DEFINE l == [ireq[r] EXCEPT !.kind = "save", !.pc = "delay", !.part = part]
  <2>2. LocalsOK(r, l)
    BY <1>0, <1>1 DEF SaveModel, LocalsOK, Locals, Steps
  <2>3. ireq' = [ireq EXCEPT ![r] = l] /\ UNCHANGED <<db, cache, page, task>>
    BY <1>1, <2>1 DEF SaveModel
  <2> HIDE DEF l
  <2> QED BY <2>2, <2>3, LocalStep
<1>2. CASE DeleteModel(r)
  <2> DEFINE l == [ireq[r] EXCEPT !.kind = "delete_model", !.pc = "undone"]
  <2>1. LocalsOK(r, l)
    BY <1>0, <1>2 DEF DeleteModel, LocalsOK, Locals, Steps
  <2>2. ireq' = [ireq EXCEPT ![r] = l] /\ UNCHANGED <<db, cache, page, task>>
    BY <1>2 DEF DeleteModel
  <2> HIDE DEF l
  <2> QED BY <2>1, <2>2, LocalStep
<1>3. CASE Fail(r)
  <2> DEFINE l == [ireq[r] EXCEPT !.pc = "undone", !.data = {}]
  <2>1. LocalsOK(r, l)
    BY <1>0, <1>3 DEF Fail, LocalsOK, Locals, Steps
  <2>2. ireq' = [ireq EXCEPT ![r] = l] /\ UNCHANGED <<db, cache, page, task>>
    BY <1>3 DEF Fail, Proceed
  <2> HIDE DEF l
  <2> QED BY <2>1, <2>2, LocalStep
<1> QED BY <1>1, <1>2, <1>3

\* What changes when the local variables of r become l.
LEMMA Moved ==
  ASSUME IndexTypeOK, NEW r \in PageRequests, NEW l \in Locals, ireq' = [ireq EXCEPT ![r] = l]
  PROVE  /\ ireq' \in [PageRequests -> Locals]
         /\ ireq'[r] = l
         /\ \A q \in PageRequests : q # r => ireq'[q] = ireq[q]
BY DEF IndexTypeOK

\* cache.set: the entry knows every form that is about to commit.
LEMMA CacheSetStep ==
  ASSUME IndexInv, NEW r \in PageRequests, CacheSet(r)
  PROVE  IndexInv'
<1> DEFINE l == [ireq[r] EXCEPT !.pc = "done", !.data = {}]
<1>1. LocalsOK(r, ireq[r]) /\ r \notin db
  BY LocalsAll DEF LocalsOK, CacheSet
<1>2. l \in Locals /\ l.pc = "done" /\ l.data = {}
  BY <1>1 DEF LocalsOK, Locals, Steps
<1>3. ireq' = [ireq EXCEPT ![r] = l] /\ UNCHANGED <<db, page, task>>
  BY DEF CacheSet, Proceed
<1> HIDE DEF l
<1>4. /\ ireq' \in [PageRequests -> Locals] /\ ireq'[r] = l
      /\ \A q \in PageRequests : q # r => ireq'[q] = ireq[q]
  BY <1>2, <1>3, Moved DEF IndexInv
<1>5. cache' = [data |-> ireq[r].data, after |-> Deleted] /\ ireq[r].data \subseteq db
  BY <1>1 DEF CacheSet, LocalsOK
<1>6. IndexTypeOK'
  BY <1>3, <1>4, <1>5 DEF IndexInv, IndexTypeOK, Deleted
<1>7. \A q \in PageRequests : ireq'[q].pc = "commit" => q \in Deleted
  BY <1>2, <1>4 DEF Deleted
<1>8. ASSUME NEW q \in PageRequests
      PROVE  LocalsOK(q, ireq[q])' /\ (task[q].data \subseteq db)'
  BY <1>1, <1>2, <1>3, <1>4, <1>5, <1>7, LocalsAll
     DEF LocalsOK, IndexInv, OnlyCommittedIsRead
<1>9. StaleOnlyIfSetAfterDelete'
  BY <1>3, <1>5 DEF StaleOnlyIfSetAfterDelete, IndexInv, IndexTypeOK, OnlyCommittedIsRead, Deleted
<1>10. WrittenByTask' /\ (page # Nil => page \subseteq db)'
  BY <1>3 DEF IndexInv, WrittenByTask, OnlyCommittedIsRead
<1> QED BY <1>3, <1>5, <1>6, <1>8, <1>9, <1>10, Collect

\* cache.delete.
LEMMA CacheDeleteStep ==
  ASSUME IndexInv, NEW r \in PageRequests, CacheDelete(r)
  PROVE  IndexInv'
<1> DEFINE l == [ireq[r] EXCEPT !.pc = "commit", !.data = {}]
<1>1. LocalsOK(r, ireq[r]) /\ r \notin db /\ ireq[r].pc = "delete"
  BY LocalsAll DEF LocalsOK, CacheDelete
<1>2. l \in Locals /\ l.pc = "commit" /\ l.data = {} /\ l.kind = ireq[r].kind
  BY <1>1 DEF LocalsOK, Locals, Steps
<1>3. ireq' = [ireq EXCEPT ![r] = l] /\ cache' = Nil /\ UNCHANGED <<db, page, task>>
  BY DEF CacheDelete, Proceed
<1> HIDE DEF l
<1>4. /\ ireq' \in [PageRequests -> Locals] /\ ireq'[r] = l
      /\ \A q \in PageRequests : q # r => ireq'[q] = ireq[q]
  BY <1>2, <1>3, Moved DEF IndexInv
<1>5. IndexTypeOK'
  BY <1>3, <1>4 DEF IndexInv, IndexTypeOK
<1>6. ASSUME NEW q \in PageRequests
      PROVE  LocalsOK(q, ireq[q])' /\ (task[q].data \subseteq db)'
  BY <1>1, <1>2, <1>3, <1>4, LocalsAll DEF LocalsOK, IndexInv, OnlyCommittedIsRead
<1>7. StaleOnlyIfSetAfterDelete' /\ WrittenByTask' /\ (page # Nil => page \subseteq db)'
  BY <1>3 DEF IndexInv, StaleOnlyIfSetAfterDelete, WrittenByTask, OnlyCommittedIsRead
<1> QED BY <1>3, <1>5, <1>6, <1>7, Collect

\* The entry expires.
LEMMA ExpireStep ==
  ASSUME IndexInv, CacheExpires
  PROVE  IndexInv'
BY DEF CacheExpires, IndexInv, IndexTypeOK, StaleOnlyIfSetAfterDelete, OnlyCommittedIsRead,
       SetSinceDelete, SavedSendsTask, WrittenByTask

\* A form sends its task, the first and only one.
LEMMA DelayStep ==
  ASSUME IndexInv, NEW r \in PageRequests, Delay(r)
  PROVE  IndexInv'
<1> DEFINE l == [ireq[r] EXCEPT !.pc = "delete", !.data = {}]
           t == [task[r] EXCEPT !.pc = "queued"]
<1>1. LocalsOK(r, ireq[r]) /\ r \notin db /\ ireq[r].pc = "delay"
  BY LocalsAll DEF LocalsOK, Delay
<1>2. l \in Locals /\ l.pc = "delete" /\ l.data = {} /\ l.kind = ireq[r].kind
  BY <1>1 DEF LocalsOK, Locals, Steps
<1>3. /\ t \in [pc: Started \cup {Nil}, data: SUBSET PageRequests]
      /\ t.pc = "queued" /\ t.data = task[r].data
  BY DEF IndexInv, IndexTypeOK, Started
<1>4. /\ ireq' = [ireq EXCEPT ![r] = l] /\ task' = [task EXCEPT ![r] = t]
      /\ UNCHANGED <<db, cache, page>>
  BY DEF Delay, Proceed
<1> HIDE DEF l, t
<1>5. /\ ireq' \in [PageRequests -> Locals] /\ ireq'[r] = l
      /\ \A q \in PageRequests : q # r => ireq'[q] = ireq[q]
  BY <1>2, <1>4, Moved DEF IndexInv
<1>6. /\ task'[r] = t /\ \A q \in PageRequests : q # r => task'[q] = task[q]
      /\ task' \in [PageRequests -> [pc: Started \cup {Nil}, data: SUBSET PageRequests]]
  BY <1>3, <1>4 DEF IndexInv, IndexTypeOK
<1>7. IndexTypeOK'
  BY <1>4, <1>5, <1>6 DEF IndexInv, IndexTypeOK
<1>8. ASSUME NEW q \in PageRequests
      PROVE  LocalsOK(q, ireq[q])' /\ (task[q].data \subseteq db)'
  BY <1>1, <1>2, <1>3, <1>4, <1>5, <1>6, LocalsAll
     DEF LocalsOK, Started, IndexInv, OnlyCommittedIsRead
<1>9. StaleOnlyIfSetAfterDelete'
  BY <1>1, <1>4, <1>5 DEF IndexInv, IndexTypeOK, StaleOnlyIfSetAfterDelete
<1>10. task[r].pc \notin {"done", "lost"} /\ task'[r].pc # "done"
  BY <1>1, <1>3, <1>6, NilAssumption DEF LocalsOK
<1>11. WrittenByTask'
  BY <1>4, <1>6, <1>10 DEF IndexInv, WrittenByTask
<1> QED BY <1>4, <1>7, <1>8, <1>9, <1>11, Collect DEF IndexInv, OnlyCommittedIsRead

\* An edit becomes visible: the form's at its commit, the rows that are
\* "deleted selected" at once.  Only a saved form owes the cache anything, and
\* the entry that is there knows it.
LEMMA EditStep ==
  ASSUME IndexInv, NEW r \in PageRequests, Commit(r) \/ DeleteSelected(r)
  PROVE  IndexInv'
<1>1. LocalsOK(r, ireq[r]) /\ r \notin db
  BY LocalsAll DEF LocalsOK, Commit, DeleteSelected
<1>2. PICK l \in Locals :
        /\ ireq' = [ireq EXCEPT ![r] = l] /\ l.pc = "committed" /\ l.data \subseteq db
        /\ l.kind = "save" => task[r].pc \in Started /\ (cache # Nil => r \in cache.after)
  <2>1. CASE Commit(r)
    <3> DEFINE m == [ireq[r] EXCEPT !.pc = "committed", !.data = {}]
    <3>1. ireq' = [ireq EXCEPT ![r] = m] /\ ireq[r].pc = "commit"
      BY <2>1 DEF Commit, Proceed
    <3>2. m \in Locals /\ m.pc = "committed" /\ m.data \subseteq db /\ m.kind = ireq[r].kind
      BY <1>1 DEF LocalsOK, Locals, Steps
    <3> HIDE DEF m
    <3> QED BY <1>1, <3>1, <3>2 DEF LocalsOK
  <2>2. CASE DeleteSelected(r)
    <3>1. PICK part \in {"types", "banners"} :
            ireq' = [ireq EXCEPT ![r] =
              [ireq[r] EXCEPT !.kind = "delete_selected", !.pc = "committed", !.part = part]]
      BY <2>2 DEF DeleteSelected
    <3> DEFINE m == [ireq[r] EXCEPT !.kind = "delete_selected", !.pc = "committed", !.part = part]
    <3>2. m \in Locals /\ m.pc = "committed" /\ m.data \subseteq db /\ m.kind # "save"
      BY <1>1 DEF LocalsOK, Locals, Steps
    <3>3. ireq' = [ireq EXCEPT ![r] = m]
      BY <3>1
    <3> HIDE DEF m
    <3> QED BY <3>2, <3>3
  <2> QED BY <2>1, <2>2
<1>3. db' = db \cup {r} /\ UNCHANGED <<cache, page, task>>
  BY DEF Commit, DeleteSelected
<1>4. /\ ireq' \in [PageRequests -> Locals] /\ ireq'[r] = l
      /\ \A q \in PageRequests : q # r => ireq'[q] = ireq[q]
  BY <1>2, Moved DEF IndexInv
<1>5. IndexTypeOK'
  BY <1>3, <1>4 DEF IndexInv, IndexTypeOK
<1>6. ASSUME NEW q \in PageRequests
      PROVE  LocalsOK(q, ireq[q])' /\ (task[q].data \subseteq db)'
  BY <1>1, <1>2, <1>3, <1>4, LocalsAll DEF LocalsOK, IndexInv, OnlyCommittedIsRead
<1>7. StaleOnlyIfSetAfterDelete'
  BY <1>2, <1>3, <1>4 DEF IndexInv, IndexTypeOK, StaleOnlyIfSetAfterDelete
<1>8. WrittenByTask' /\ (cache # Nil => cache.data \subseteq db)' /\ (page # Nil => page \subseteq db)'
  BY <1>3 DEF IndexInv, WrittenByTask, OnlyCommittedIsRead
<1> QED BY <1>5, <1>6, <1>7, <1>8, Collect

\* A task reads, writes the page or is lost.  What it has read is committed,
\* and the page that it writes is what it has read.
LEMMA TaskStep ==
  ASSUME IndexInv, NEW r \in PageRequests, Task(r)
  PROVE  IndexInv'
<1> DEFINE Type == [pc: Started \cup {Nil}, data: SUBSET PageRequests]
<1>1. /\ task \in [PageRequests -> Type] /\ task[r].data \subseteq db
      /\ db \subseteq PageRequests /\ task[r].pc \in {"queued", "render", "write"}
  BY DEF IndexInv, IndexTypeOK, OnlyCommittedIsRead, Task, TaskTypes, TaskRender, TaskWrite, TaskLost
<1>2. PICK t \in Type :
        /\ task' = [task EXCEPT ![r] = t] /\ t.pc \in Started /\ t.data \subseteq db
        /\ t.pc = "done" => page' = t.data
        /\ t.pc # "done" => page' = page \/ (page' = Nil /\ t.pc = "lost")
  <2>1. CASE TaskTypes(r)
    <3> DEFINE u == [pc |-> "render", data |-> Read("types")]
    <3>1. u \in Type /\ u.pc = "render" /\ u.data \subseteq db
      BY <1>1 DEF Read, Started
    <3>2. task' = [task EXCEPT ![r] = u] /\ page' = page
      BY <2>1 DEF TaskTypes
    <3> HIDE DEF u
    <3> QED BY <3>1, <3>2 DEF Started
  <2>2. CASE TaskRender(r)
    <3> DEFINE u == [pc |-> "write", data |-> task[r].data \cup Read("banners")]
    <3>1. u \in Type /\ u.pc = "write" /\ u.data \subseteq db
      BY <1>1 DEF Read, Started
    <3>2. task' = [task EXCEPT ![r] = u] /\ page' = page
      BY <2>2 DEF TaskRender
    <3> HIDE DEF u
    <3> QED BY <3>1, <3>2 DEF Started
  <2>3. CASE TaskWrite(r)
    <3>1. task' = [task EXCEPT ![r] = [task[r] EXCEPT !.pc = "done"]] /\ page' = task[r].data
      BY <2>3 DEF TaskWrite
    <3>2. /\ [task[r] EXCEPT !.pc = "done"] \in Type
          /\ [task[r] EXCEPT !.pc = "done"].data = task[r].data
          /\ [task[r] EXCEPT !.pc = "done"].pc = "done"
      BY <1>1 DEF Started
    <3> QED BY <1>1, <3>1, <3>2 DEF Started
  <2>4. CASE TaskLost(r)
    <3> DEFINE u == [pc |-> "lost", data |-> {}]
    <3>1. u \in Type /\ u.pc = "lost" /\ u.data \subseteq db
      BY DEF Started
    <3>2. task' = [task EXCEPT ![r] = u] /\ page' \in {page, Nil}
      BY <2>4 DEF TaskLost
    <3> HIDE DEF u
    <3> QED BY <3>1, <3>2 DEF Started
  <2> QED BY <2>1, <2>2, <2>3, <2>4 DEF Task
<1>3. UNCHANGED <<db, cache, ireq>>
  BY DEF Task, TaskTypes, TaskRender, TaskWrite, TaskLost
<1>4. /\ task' \in [PageRequests -> Type] /\ task'[r] = t
      /\ \A q \in PageRequests : q # r => task'[q] = task[q]
  BY <1>1, <1>2
<1>5. IndexTypeOK'
  BY <1>2, <1>3, <1>4 DEF IndexInv, IndexTypeOK
<1>6. task[r].pc # Nil /\ ireq[r].pc \notin {"idle", "delay"}
  BY <1>1, LocalsAll, NilAssumption DEF LocalsOK
<1>7. ASSUME NEW q \in PageRequests
      PROVE  LocalsOK(q, ireq[q])' /\ (task[q].data \subseteq db)'
  BY <1>2, <1>3, <1>4, <1>6, LocalsAll DEF LocalsOK, IndexInv, OnlyCommittedIsRead
<1>8. StaleOnlyIfSetAfterDelete' /\ (cache # Nil => cache.data \subseteq db)'
  BY <1>3 DEF IndexInv, StaleOnlyIfSetAfterDelete, OnlyCommittedIsRead
<1>9. (page # Nil => page \subseteq db)'
  BY <1>2, <1>3 DEF IndexInv, OnlyCommittedIsRead
<1>10. WrittenByTask'
  <2>1. \A q \in PageRequests : task[q].pc \in {"done", "lost"} => task'[q] = task[q]
    BY <1>1, <1>4
  <2>2. page # Nil /\ (\E q \in PageRequests : task[q].pc = "done") =>
          \E q \in PageRequests : task[q].pc = "done" /\ page = task[q].data
    BY DEF IndexInv, WrittenByTask
  <2>3. page = Nil => \E q \in PageRequests : task[q].pc = "lost"
    BY DEF IndexInv, WrittenByTask
  <2>4. CASE t.pc = "done"
    <3>1. page' # Nil /\ page' = task'[r].data /\ task'[r].pc = "done"
      BY <1>2, <1>4, <2>4, NilAssumption
    <3> QED BY <3>1 DEF WrittenByTask
  <2>5. CASE t.pc # "done"
    <3>1. task'[r].pc # "done" /\ task[r].pc # "done"
      BY <1>1, <1>4, <2>5
    <3>2. (page' = Nil) => \E q \in PageRequests : task'[q].pc = "lost"
      BY <1>2, <1>4, <2>1, <2>3, <2>5
    <3>3. CASE page' = page
      BY <1>4, <2>1, <2>2, <3>1, <3>2, <3>3 DEF WrittenByTask
    <3>4. CASE page' = Nil
      BY <3>2, <3>4 DEF WrittenByTask
    <3> QED BY <1>2, <2>5, <3>3, <3>4
  <2> QED BY <2>4, <2>5
<1> QED BY <1>5, <1>7, <1>8, <1>9, <1>10, Collect

\* Every step keeps the inductive invariant.
LEMMA NextIndexInv == IndexInv /\ [Next]_indexVars => IndexInv'
<1> SUFFICES ASSUME IndexInv, [Next]_indexVars PROVE IndexInv'
  OBVIOUS
<1>1. ASSUME NEW r \in PageRequests, View(r) PROVE IndexInv'
  BY <1>1, ReadStep, CacheSetStep DEF View
<1>2. ASSUME NEW r \in PageRequests, Admin(r) PROVE IndexInv'
  BY <1>2, FormStep, DelayStep, CacheDeleteStep, EditStep DEF Admin
<1>3. ASSUME NEW r \in PageRequests, Fail(r) \/ Task(r) PROVE IndexInv'
  BY <1>3, FormStep, TaskStep
<1>4. CASE UNCHANGED indexVars
  BY <1>4 DEF indexVars, IndexInv, IndexTypeOK, StaleOnlyIfSetAfterDelete, OnlyCommittedIsRead,
              SetSinceDelete, SavedSendsTask, WrittenByTask
<1> QED BY <1>1, <1>2, <1>3, <1>4, ExpireStep DEF Next

\* However views, forms, roll-backs and expiries interleave, the entry of
\* index_page_data shows nothing that was rolled back, and misses a saved form
\* only when it was set after the form's cache.delete.
THEOREM CachedDataAreSound == Spec => []CacheIsSound
<1>1. IndexInv => CacheIsSound
  BY DEF IndexInv, CacheIsSound, RolledBackIsNeverShown, OnlyCommittedIsRead
<1> QED BY <1>1, InitIndexInv, NextIndexInv, PTL DEF Spec

\* When all tasks have ended, index.html misses a saved form only because its
\* task was lost, or it is what a task wrote that had read before the commit,
\* or it was left empty by a task that died writing it.
THEOREM PageStaleness == Spec => []PageStaleOnlyByEarlyRead
<1>1. IndexInv => PageStaleOnlyByEarlyRead
  <2> SUFFICES ASSUME IndexInv, \A t \in PageRequests : task[t].pc \in {Nil, "done", "lost"},
                      NEW e \in db, ireq[e].kind = "save", page # Nil, task[e].pc # "lost"
               PROVE  \E t \in PageRequests : task[t].pc = "done" /\ page = task[t].data
    BY DEF PageStaleOnlyByEarlyRead, IndexInv, WrittenByTask
  <2>1. e \in PageRequests /\ task[e].pc \in Started
    BY DEF IndexInv, IndexTypeOK, OnlyCommittedIsRead, SavedSendsTask
  <2>2. task[e].pc = "done"
    BY <2>1, NilAssumption DEF Started
  <2> QED BY <2>1, <2>2 DEF IndexInv, WrittenByTask
<1> QED BY <1>1, InitIndexInv, NextIndexInv, PTL DEF Spec
==============================================================================
