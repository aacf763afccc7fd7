---------------------------- MODULE Administration ----------------------------
(***************************************************************************)
(* The requests of administrators over the Directory: login, JwtStrategy   *)
(* and RolesGuard in front of every route, then the services, one step     *)
(* between two awaits.                                                     *)
(*                                                                         *)
(* A client is a browser with one session cookie and one request at a time *)
(* (or tab: a logout may come while a request of the session is running).  *)
(* A request reads the row it changes, and looks for duplicates, before    *)
(* its transaction; other requests commit in between.  The transactions    *)
(* are READ COMMITTED and write one row, but for those of users, costs and *)
(* prices, which are SERIALIZABLE.  Where such a transaction reads before  *)
(* it writes, its snapshot and its commit are two steps, and a commit of   *)
(* another one that makes the two not serializable is remembered           *)
(* (`raced`): PostgreSQL then refuses the commit (P2034), and it may refuse *)
(* others.                                                                 *)
(*                                                                         *)
(* The seed is run between requests, before the first login and later on,  *)
(* while sessions are open; a run that dies leaves what it did.            *)
(***************************************************************************)
EXTENDS Directory

CONSTANTS
    Clients,
    AUTH_COOKIE,    \* sessions are rows, checked on each request and revocable
    GivenRoles,     \* bound: roles that a request gives to a user
    GivenCategories,\* bound: categories that a request gives to a product
    LoginSteps,     \* bound: where the seed may be when somebody logs in
    MaxRequests     \* bound: requests, and runs of the seed after a login

ASSUME AuthCookieAssumption == AUTH_COOKIE \in BOOLEAN
ASSUME GivenRolesAssumption == GivenRoles \subseteq Roles
ASSUME GivenCategoriesAssumption == GivenCategories \subseteq Categories
ASSUME LoginStepsAssumption == LoginSteps \subseteq {"off", "done"}
ASSUME MaxRequestsAssumption == MaxRequests \in Nat

VARIABLES
    session,    \* the token of a client and, with AUTH_COOKIE, its AuthSession row
    request,    \* the request a client waits for
    requests    \* requests so far, and runs of the seed after a login

requestVars == <<session, request, requests>>
vars == <<directoryVars, requestVars>>

Nothing == [name |-> Undefined, detail |-> Undefined]
Idle == [stage |-> "idle", op |-> None, id |-> None, list |-> None, given |-> Nothing,
         before |-> None, now |-> 0, raced |-> FALSE, held |-> {}, documented |-> {},
         undocumented |-> {}]

Token == [user: Users, role: Roles, live: BOOLEAN]
ASSUME NoneIsNoToken == None \notin Token

Stages == {"idle", "login", "session", "elsewhere", "admitted", "found", "named",
           "checked", "counted", "timed", "read"}
Ops == Writes \cup {"replace"}

ASSUME NoneIsNoOp == None \notin Ops

Request ==
    [stage: Stages, op: Ops \cup {None}, id: Ids \cup {None}, list: Lists \cup {None},
     given: [name: Names \cup {None, Undefined},
             detail: Roles \cup Categories \cup {None, Undefined}],
     before: Row \cup {None}, now: Nat, raced: BOOLEAN,
     held: SUBSET Roles, documented: SUBSET Roles, undocumented: SUBSET Roles]

AdminTypeOK ==
    /\ DirectoryTypeOK
    /\ session \in [Clients -> Token \cup {None}]
    /\ request \in [Clients -> Request]
    /\ requests \in 0..MaxRequests

Init ==
    /\ DirectoryInit
    /\ session = [c \in Clients |-> None]
    /\ request = [c \in Clients |-> Idle]
    /\ requests = 0

Stage(c, stage) == request' = [request EXCEPT ![c].stage = stage]

At(c, stage, op) == request[c].stage = stage /\ request[c].op = op

NobodyAtWork == \A c \in Clients : request[c] = Idle

-----------------------------------------------------------------------------
(* AuthService. *)

\* login: the user is active when it is read; then the password is compared.
StartLogin(c, u) ==
    /\ seed.step \in LoginSteps
    /\ requests < MaxRequests   \* bound
    /\ session[c] = None        \* bound: a client logs in once
    /\ request[c] = Idle
    /\ IsActive(u)
    /\ request' = [request EXCEPT ![c].stage = "login", ![c].id = u]
    /\ UNCHANGED <<directoryVars, session, requests>>

\* login: lastLoginAt is updated and the token signed with the role of that
\* row, active or not by now.
FinishLogin(c) ==
    LET u == request[c].id
    IN  /\ request[c].stage = "login"
        /\ session' = [session EXCEPT ![c] =
                [user |-> u, role |-> row[u].detail, live |-> TRUE]]
        /\ request' = [request EXCEPT ![c] = Idle]
        /\ UNCHANGED <<directoryVars, requests>>

EndSession(c) ==
    /\ requests < MaxRequests   \* bound
    /\ session[c] # None
    /\ session' = [session EXCEPT ![c].live = FALSE]
    /\ UNCHANGED <<directoryVars, request, requests>>

\* logout: without AUTH_COOKIE there is nothing to revoke.
Logout(c) == AUTH_COOKIE /\ EndSession(c)

\* The exp of the token, and expiresAt of the session.
Expire(c) == EndSession(c)

-----------------------------------------------------------------------------
(* JwtStrategy and RolesGuard. *)

\* The roles the user of a session has in the given rows: none when inactive.
RolesIn(rows, c) ==
    LET user == rows[session[c].user] IN IF user.active THEN {user.detail} ELSE {}

\* validate, the session row.  `held` collects the roles the user has from
\* here until the request ends.
Arrive(c) ==
    /\ ~SeedIsRunning
    /\ requests < MaxRequests
    /\ request[c] = Idle
    /\ session[c] # None /\ session[c].live
    /\ request' = [request EXCEPT ![c].stage = "session", ![c].held = RolesIn(row, c)]
    /\ requests' = requests + 1
    /\ UNCHANGED <<directoryVars, session>>

\* Faulty: the guard trusts the role signed in the token.
IsAllowedByToken(c, component, handler) ==
    /\ request[c].stage = "session"
    /\ IsActive(session[c].user)
    /\ session[c].role \in AllowedRoles(component, handler)

\* validate, the user row, and RolesGuard on the role it has.
IsAllowed(c, component, handler) ==
    /\ request[c].stage = "session"
    /\ IsActive(session[c].user)
    /\ row[session[c].user].detail \in AllowedRoles(component, handler)

\* A route of the other components, or a read.
VisitElsewhere(c, component, handler) ==
    /\ component \notin {"users", "categories", "salesChannels", "paymentBanks",
                         "tables", "products"} \/ handler \in ReadHandlers
    /\ <<component, handler>> \notin {<<"costs", "create">>, <<"prices", "create">>}
    /\ IsAllowed(c, component, handler)
    /\ request' = [request EXCEPT ![c].stage = "elsewhere",
                        ![c].documented = DocumentedRoles(component, handler),
                        ![c].undocumented = UndocumentedRoles(component, handler)]
    /\ UNCHANGED <<directoryVars, session, requests>>

Component(id) ==
    CASE id \in Users -> "users"
      [] id \in Categories -> "categories"
      [] id \in Channels -> "salesChannels"
      [] id \in Banks -> "paymentBanks"
      [] id \in Tables -> "tables"
      [] id \in Products -> "products"

\* What the DTOs accept in a create or an update: a product's SKU may be empty,
\* and its SKU and category may be null.  Elsewhere a null ends the request.
NamesOf(id) == IF id \in Products THEN Names \cup {None} ELSE Names \ {Empty}
DetailsOf(id) ==
    CASE id \in Users -> GivenRoles
      [] id \in Products -> GivenCategories \cup {None}
      [] OTHER -> {}

\* Faulty: a user without a role is let through.
IsCompleteLoosely(id, given) == id \notin Products => given.name # Undefined

\* The DTOs of the creates: what they demand.
IsComplete(id, given) ==
    /\ id \notin Products => given.name # Undefined
    /\ id \in Users => given.detail # Undefined

Admit(c, op, id, given) ==
    /\ IsAllowed(c, Component(id), op)
    /\ request' = [request EXCEPT ![c].stage = "admitted", ![c].op = op, ![c].id = id,
                        ![c].given = given,
                        ![c].documented = DocumentedRoles(Component(id), op)]
    /\ UNCHANGED <<directoryVars, session, requests>>

\* The id of a new row is its own: no other request has it.
AdmitCreate(c, id, given) ==
    /\ row[id] = None
    /\ \A d \in Clients : ~(request[d].op = "create" /\ request[d].id = id)
    /\ IsComplete(id, given)
    /\ Admit(c, "create", id, given)

AdmitUpdate(c, id, given) ==
    /\ Exists(id)
    /\ given # Nothing
    /\ Admit(c, "update", id, given)

AdmitSetActive(c, op, id) ==
    /\ Exists(id)
    /\ op \in {"deactivate", "reactivate"}
    /\ Admit(c, op, id, Nothing)

\* A new cost (list <<p, None>>) or price (list <<p, channel>>).
AdmitReplace(c, list) ==
    LET component == IF list[2] = None THEN "costs" ELSE "prices"
    IN  /\ IsAllowed(c, component, "create")
        /\ request' = [request EXCEPT ![c].stage = "admitted", ![c].op = "replace",
                            ![c].list = list,
                            ![c].documented = DocumentedRoles(component, "create")]
        /\ UNCHANGED <<directoryVars, session, requests>>

\* The request ends without a trace: refused, failed, or its process died.
Fail(c) ==
    /\ request[c] # Idle
    /\ request' = [request EXCEPT ![c] = Idle]
    /\ UNCHANGED <<directoryVars, session, requests>>

-----------------------------------------------------------------------------
(* What a commit is for the other requests. *)

\* ensureAdminDeactivationAllowed: only then are the administrators counted.
CountsAdmins(r) ==
    r.op = "deactivate" /\ r.before.active /\ r.before.detail = "ADMIN"

\* Faulty: READ COMMITTED, where only a write of the same row conflicts.
ConflictsOnWriteOnly(r, mine) ==
    IF r.stage = "counted" THEN mine.id = r.id
    ELSE r.stage = "read" /\ mine.list = r.list

\* The commit of `mine` and the transaction of r, open since before, are not
\* serializable: they write the same row, or each read what the other writes
\* (a count of administrators reads every user).
Conflicts(r, mine) ==
    \/ r.stage = "counted" /\ mine.id = r.id
    \/ r.stage = "counted" /\ mine.stage = "counted" /\ CountsAdmins(r) /\ CountsAdmins(mine)
    \/ r.stage = "read" /\ mine.list = r.list

\* A row of the table r looks at was written after r began to look.
OvertakesCheck(r, mine) ==
    /\ r.stage \in {"found", "named", "checked"}
    /\ r.id # None /\ mine.id # None
    /\ TableOf(r.id) = TableOf(mine.id)

\* The commit of c: c is answered; the others may be raced, and may belong
\* to a user whose role has just changed.
Commit(c) ==
    request' = [d \in Clients |->
        IF d = c \/ request[d].stage \in {"idle", "login"}
        THEN IF d = c THEN Idle ELSE request[d]
        ELSE [request[d] EXCEPT
                !.raced = @ \/ Conflicts(request[d], request[c])
                            \/ OvertakesCheck(request[d], request[c]),
                !.held = @ \cup RolesIn(row', d)]]

-----------------------------------------------------------------------------
(* The steps of the services of master data.  Each reads, then writes.       *)

\* findUnique of the row, before the transaction.
Find(c, op) ==
    /\ At(c, "admitted", op)
    /\ request' = [request EXCEPT ![c].stage = "found", ![c].before = row[request[c].id]]
    /\ UNCHANGED <<directoryVars, session, requests>>

\* if (sku): what is not given, null or empty is not looked for.
IsLookedFor(name) == name \notin {Undefined, None, Empty}

\* No row of the table but those of `except` would be a duplicate.
NameIsFree(c, except) ==
    LET r == request[c]
    IN  IsLookedFor(r.given.name) =>
            Holders(TableOf(r.id), r.given.name) \subseteq except

PassCheck(c, next) ==
    /\ Stage(c, next)
    /\ UNCHANGED <<directoryVars, session, requests>>

CheckNew(c, next) ==
    /\ At(c, "admitted", "create")
    /\ NameIsFree(c, {})
    /\ PassCheck(c, next)

\* Faulty: an update does not look for duplicates.
CheckOtherSkipped(c) ==
    /\ At(c, "found", "update")
    /\ PassCheck(c, "checked")

\* Users, categories and tables: a duplicate is another row.
CheckOther(c) ==
    /\ At(c, "found", "update")
    /\ NameIsFree(c, {request[c].id})
    /\ PassCheck(c, "checked")

\* Channels, banks and products: any row, unless the field is the one read before.
CheckIfChanged(c, next) ==
    /\ At(c, "found", "update")
    /\ request[c].given.name = request[c].before.name \/ NameIsFree(c, {})
    /\ PassCheck(c, next)

CommitCreate(c) ==
    /\ At(c, "checked", "create")
    /\ Insert(request[c].id, request[c].given)
    /\ Commit(c)
    /\ UNCHANGED <<session, requests>>

CommitUpdate(c) ==
    LET r == request[c]
    IN  /\ At(c, "checked", "update")
        /\ Modify(r.id, r.given, r.before)
        /\ Commit(c)
        /\ UNCHANGED <<session, requests>>

Create(c) == CheckNew(c, "checked") \/ CommitCreate(c)
Update(c) == Find(c, "update") \/ CheckOther(c) \/ CommitUpdate(c)
UpdateChecked(c) == Find(c, "update") \/ CheckIfChanged(c, "checked") \/ CommitUpdate(c)

CommitSetActive(c, op) ==
    /\ At(c, "found", op)
    /\ SetActive(request[c].id, op = "reactivate")
    /\ Commit(c)
    /\ UNCHANGED <<session, requests>>

\* updateActiveStatus of everything but users.
UpdateActiveStatus(c) ==
    \E op \in {"deactivate", "reactivate"} : Find(c, op) \/ CommitSetActive(c, op)

Of(c, T) == request[c].id \in T

CreateCategory(c) == Of(c, Categories) /\ Create(c)
UpdateCategory(c) == Of(c, Categories) /\ Update(c)
SetCategoryActive(c) == Of(c, Categories) /\ UpdateActiveStatus(c)

CreateSalesChannel(c) == Of(c, Channels) /\ Create(c)
UpdateSalesChannel(c) == Of(c, Channels) /\ UpdateChecked(c)
SetSalesChannelActive(c) == Of(c, Channels) /\ UpdateActiveStatus(c)

CreatePaymentBank(c) == Of(c, Banks) /\ Create(c)
UpdatePaymentBank(c) == Of(c, Banks) /\ UpdateChecked(c)
SetPaymentBankActive(c) == Of(c, Banks) /\ UpdateActiveStatus(c)

CreateTable(c) == Of(c, Tables) /\ Create(c)
UpdateTable(c) == Of(c, Tables) /\ Update(c)
SetTableActive(c) == Of(c, Tables) /\ UpdateActiveStatus(c)

-----------------------------------------------------------------------------
(* ProductsService, with the category of a product. *)

\* ensureCategoryUsable: the category given, if any, is active when it is read.
EnsureCategoryUsable(c) ==
    /\ request[c].stage = "named"
    /\ request[c].given.detail \in Categories => IsActive(request[c].given.detail)
    /\ PassCheck(c, "checked")

CreateProduct(c) ==
    /\ Of(c, Products)
    /\ \/ CheckNew(c, "named")
       \/ request[c].op = "create" /\ EnsureCategoryUsable(c)
       \/ CommitCreate(c)

UpdateProduct(c) ==
    /\ Of(c, Products)
    /\ \/ Find(c, "update") \/ CheckIfChanged(c, "named")
       \/ request[c].op = "update" /\ EnsureCategoryUsable(c)
       \/ CommitUpdate(c)

SetProductActive(c) == Of(c, Products) /\ UpdateActiveStatus(c)

-----------------------------------------------------------------------------
(* UsersService. *)

CreateUser(c) == Of(c, Users) /\ Create(c)

\* update: nobody counts the administrators when a role changes.
UpdateUser(c) == Of(c, Users) /\ Update(c)

\* ensureAdminDeactivationAllowed: more than one active ADMIN, u among them.
AnotherAdmin(u) == ActiveAdmins \ {u} # {}

\* updateActiveStatus: the snapshot of its transaction, with the row and the count.
BeginSetUserActive(c, op) ==
    LET u == request[c].id
        r == [request[c] EXCEPT !.stage = "counted", !.before = row[u], !.raced = FALSE]
    IN  /\ At(c, "admitted", op)
        /\ CountsAdmins(r) => AnotherAdmin(u)
        /\ request' = [request EXCEPT ![c] = r]
        /\ UNCHANGED <<directoryVars, session, requests>>

CommitSetUserActive(c, op) ==
    /\ At(c, "counted", op)
    /\ ~request[c].raced
    /\ SetActive(request[c].id, op = "reactivate")
    /\ Commit(c)
    /\ UNCHANGED <<session, requests>>

\* runSerializableTransaction: P2034, and the callback runs again.
RetrySetUserActive(c) ==
    /\ request[c].stage = "counted"
    /\ request' = [request EXCEPT ![c].stage = "admitted", ![c].before = None,
                                  ![c].raced = FALSE]
    /\ UNCHANGED <<directoryVars, session, requests>>

SetUserActive(c) ==
    /\ Of(c, Users)
    /\ \/ \E op \in {"deactivate", "reactivate"} :
            BeginSetUserActive(c, op) \/ CommitSetUserActive(c, op)
       \/ RetrySetUserActive(c)

-----------------------------------------------------------------------------
(* ProductCostsService and ProductPricesService. *)

\* ensureProductActive, before the transaction.
EnsureProductActive(c) ==
    /\ At(c, "admitted", "replace")
    /\ IsActive(request[c].list[1])
    /\ PassCheck(c, "found")

\* ensureSalesChannelActive; a cost has no channel.
EnsureSalesChannelActive(c) ==
    /\ At(c, "found", "replace")
    /\ request[c].list[2] # None => IsActive(request[c].list[2])
    /\ PassCheck(c, "checked")

\* const now = new Date(): before the first query, which takes the snapshot.
TakeInstant(c) ==
    /\ At(c, "checked", "replace")
    /\ ReadClock
    /\ request' = [request EXCEPT ![c].stage = "timed", ![c].now = instant']
    /\ UNCHANGED <<row, audit, history, opening, seed, synchronised, appointed,
                   session, requests>>

\* findFirst of the current row: what is closed is the current row of here.
ReadCurrent(c) ==
    /\ At(c, "timed", "replace")
    /\ request' = [request EXCEPT ![c].stage = "read", ![c].raced = FALSE]
    /\ UNCHANGED <<directoryVars, session, requests>>

CommitReplace(c) ==
    /\ At(c, "read", "replace")
    /\ ~request[c].raced
    /\ ReplaceCurrent(request[c].list, request[c].now)
    /\ Commit(c)
    /\ UNCHANGED <<session, requests>>

\* P2034: the callback runs again, with an instant of its own.
RetryReplace(c) ==
    /\ request[c].stage \in {"timed", "read"}
    /\ request' = [request EXCEPT ![c].stage = "checked", ![c].now = 0, ![c].raced = FALSE]
    /\ UNCHANGED <<directoryVars, session, requests>>

CreateCost(c) ==
    /\ request[c].list # None /\ request[c].list[2] = None
    /\ \/ EnsureProductActive(c) \/ EnsureSalesChannelActive(c)
       \/ TakeInstant(c) \/ ReadCurrent(c) \/ CommitReplace(c) \/ RetryReplace(c)

CreatePrice(c) ==
    /\ request[c].list # None /\ request[c].list[2] # None
    /\ \/ EnsureProductActive(c) \/ EnsureSalesChannelActive(c)
       \/ TakeInstant(c) \/ ReadCurrent(c) \/ CommitReplace(c) \/ RetryReplace(c)

-----------------------------------------------------------------------------
AuthNext(c) ==
    \/ \E u \in Users : StartLogin(c, u)
    \/ FinishLogin(c)
    \/ Logout(c) \/ Expire(c)
    \/ Arrive(c)
    \/ /\ request[c].stage = "session"
       /\ \/ \E component \in DOMAIN Routes : \E handler \in DOMAIN Routes[component] :
                VisitElsewhere(c, component, handler)
          \/ \E id \in Ids : \E name \in NamesOf(id) \cup {Undefined} :
             \E detail \in DetailsOf(id) \cup {Undefined} :
                LET given == [name |-> name, detail |-> detail]
                IN  AdmitCreate(c, id, given) \/ AdmitUpdate(c, id, given)
          \/ \E id \in Ids, op \in {"deactivate", "reactivate"} :
                AdmitSetActive(c, op, id)
          \/ \E list \in Lists : AdmitReplace(c, list)
    \/ Fail(c)

ServicesNext(c) ==
    \/ CreateUser(c) \/ UpdateUser(c) \/ SetUserActive(c)
    \/ CreateCategory(c) \/ UpdateCategory(c) \/ SetCategoryActive(c)
    \/ CreateSalesChannel(c) \/ UpdateSalesChannel(c) \/ SetSalesChannelActive(c)
    \/ CreatePaymentBank(c) \/ UpdatePaymentBank(c) \/ SetPaymentBankActive(c)
    \/ CreateTable(c) \/ UpdateTable(c) \/ SetTableActive(c)
    \/ CreateProduct(c) \/ UpdateProduct(c) \/ SetProductActive(c)
    \/ CreateCost(c) \/ CreatePrice(c)

\* ensureInitialStock once the inventory endpoints may have been used: the
\* product has a stock row or a movement that the seed did not write.
SeedFindsStock ==
    /\ seed.step = "stock"
    /\ requests > 0
    /\ SeedGoesTo("done")
    /\ UNCHANGED <<row, audit, history, instant, opening, synchronised, appointed>>

NobodyLoggedIn == \A c \in Clients : session[c] = None

\* The script is run between requests; the runs after a login are bounded.
RunSeed ==
    /\ NobodyAtWork
    /\ SeedNext \/ SeedFindsStock
    /\ IF SeedIsRunning \/ NobodyLoggedIn
       THEN UNCHANGED requests
       ELSE requests < MaxRequests /\ requests' = requests + 1
    /\ UNCHANGED <<session, request>>

Next ==
    \/ RunSeed
    \/ \E c \in Clients : AuthNext(c) \/ ServicesNext(c)

Spec == Init /\ [][Next]_vars

-----------------------------------------------------------------------------
\* docs/05, docs/02 section 9: whoever is beyond the guards, at whatever point
\* of a request, was active with a documented role (or one of the roles that the
\* code is known to admit besides) at some moment of that request: a
\* deactivated or demoted user starts nothing new, whatever token, session or
\* login they still have.
PermissionsAreCurrent ==
    \A c \in Clients :
        LET r == request[c]
        IN  r.stage \notin {"idle", "login", "session"} =>
                r.held \cap (r.documented \cup r.undocumented) # {}

\* docs/05 as it is written: whoever is beyond the guards had a documented role.
OnlyDocumentedRoles ==
    \A c \in Clients :
        request[c].stage \notin {"idle", "login", "session"} =>
            request[c].held \cap request[c].documented # {}

\* Once the seed has written its administrator, one remains as long as nothing
\* takes the role of one (an update, or a demo user with the email of one):
\* neither one deactivation, nor two that cross, lock everybody out, also while
\* the seed is run again.
AdministratorRemains == appointed => ActiveAdmins # {}

\* A write that the unique index refuses, an error the services of users,
\* categories, channels, banks and products do not translate, is a race:
\* without one, the duplicate is found by the check before it.  Except for the
\* empty SKU, which no check looks for.
DuplicatesNeedARace ==
    \A c \in Clients :
        LET r == request[c]
        IN  r.stage = "checked" /\ r.id # None /\ r.given.name # Empty
            /\ ~UniqueIndexAllows(r.id, r.given.name) => r.raced

\* What changes of a row, by a request for that row which ends here: the fields
\* that it gave, the flag if that is what it is for, and the commission of a
\* channel, which any update of the channel resets.
IsChangedByRequest(id) ==
    \E c \in Clients :
        LET given == request[c].given
        IN  /\ request[c].id = id /\ request'[c] = Idle
            /\ row'[id].name # row[id].name => row'[id].name = given.name
            /\ row'[id].detail # row[id].detail =>
                    IF id \in Channels
                    THEN request[c].op = "update" /\ row'[id].detail = "NONE"
                    ELSE row'[id].detail = given.detail
            /\ row'[id].active # row[id].active =>
                    request[c].op = IF row'[id].active THEN "reactivate" ELSE "deactivate"

\* The seed rewrites a user that it finds by its email, and no other row.
IsSynchronisedBySeed(id) ==
    /\ seed.step \in {"admin", "demo users"}
    /\ id \in Users
    /\ row'[id].name = row[id].name

FieldsAreGiven ==
    \A id \in Ids :
        Exists(id) /\ row'[id] # row[id] =>
            IsChangedByRequest(id) \/ IsSynchronisedBySeed(id)

\* A patch changes what it gives and nothing else (but a channel's commission),
\* however old the row it was made from, and a rerun of the seed changes no row
\* but the users it synchronises.
FieldsChangeByTheirRequests == [][FieldsAreGiven]_vars

\* The lists of the seed are there, each row once and active.
ListsAreThere ==
    \A name \in SeedNames : \A T \in TableNames \ {Users, Products} :
        \E id \in T : Holders(T, name) = {id} /\ IsActive(id)

\* A demo product that can be sold, with one opening stock.
DemoProductIsReady ==
    \E p \in Products :
        /\ IsActive(p) /\ IsActive(row[p].detail) /\ opening[p] = 1
        /\ \A ch \in {ch2 \in Channels : Exists(ch2)} \cup {None} :
                Len(history[<<p, ch>>]) = 1

\* The seed converges: when a run ends, after any number of runs that died
\* anywhere, everything of its lists is there once, ready to sell, unless
\* requests have changed it.  Also after requests, a run ends with a current cost
\* of its product, and no run books an opening stock twice.
SeedConverges ==
    /\ \A p \in Products : opening[p] <= 1
    /\ seed.step = "done" => HasCurrent(<<seed.product, None>>)
    /\ seed.step = "done" /\ requests = 0 => ListsAreThere /\ DemoProductIsReady
==============================================================================
