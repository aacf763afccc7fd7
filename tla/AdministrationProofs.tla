------------------------- MODULE AdministrationProofs -------------------------
(***************************************************************************)
(* Theorems about Administration for every set of rows, names, clients and *)
(* any number of requests.                                                 *)
(***************************************************************************)
EXTENDS Administration, TLAPS

\* The steps the services are made of, whichever service takes them.
ServiceSteps(c) ==
    \/ \E op \in Writes : Find(c, op)
    \/ \E next \in {"named", "checked"} : CheckNew(c, next) \/ CheckIfChanged(c, next)
    \/ CheckOther(c) \/ EnsureCategoryUsable(c)
    \/ CommitCreate(c) \/ CommitUpdate(c)
    \/ \E op \in {"deactivate", "reactivate"} :
        \/ CommitSetActive(c, op) /\ ~Of(c, Users)
        \/ BeginSetUserActive(c, op) /\ Of(c, Users)
        \/ CommitSetUserActive(c, op) /\ Of(c, Users)
    \/ RetrySetUserActive(c) /\ Of(c, Users)
    \/ EnsureProductActive(c) \/ EnsureSalesChannelActive(c)
    \/ TakeInstant(c) \/ ReadCurrent(c) \/ CommitReplace(c) \/ RetryReplace(c)

\* Every service is made of these steps.
LEMMA ServicesAreSteps ==
    ASSUME NEW c \in Clients, ServicesNext(c)
    PROVE  ServiceSteps(c)
<1>1. \A T \in {Categories, Channels, Banks, Tables, Products} : Of(c, T) => ~Of(c, Users)
    BY IdsAreDisjoint DEF Of
<1>2. /\ "update" \in Writes /\ "deactivate" \in Writes /\ "reactivate" \in Writes
    BY DEF Writes
<1>3. ASSUME NEW T \in {Categories, Channels, Banks, Tables, Products}, Of(c, T),
             UpdateActiveStatus(c)
      PROVE  ServiceSteps(c)
    BY <1>1, <1>2, <1>3 DEF UpdateActiveStatus, ServiceSteps
<1>4. Create(c) \/ Update(c) \/ UpdateChecked(c) => ServiceSteps(c)
    BY <1>2 DEF Create, Update, UpdateChecked, ServiceSteps
<1>5. CASE \/ SetCategoryActive(c) \/ SetSalesChannelActive(c) \/ SetPaymentBankActive(c)
           \/ SetTableActive(c) \/ SetProductActive(c)
    BY <1>3, <1>5 DEF SetCategoryActive, SetSalesChannelActive, SetPaymentBankActive,
        SetTableActive, SetProductActive
<1>6. CASE SetUserActive(c)
    BY <1>6 DEF SetUserActive, ServiceSteps
<1>7. CASE CreateProduct(c) \/ UpdateProduct(c)
    BY <1>2, <1>7 DEF CreateProduct, UpdateProduct, ServiceSteps
<1>8. CASE CreateCost(c) \/ CreatePrice(c)
    BY <1>8 DEF CreateCost, CreatePrice, ServiceSteps
<1>9. CASE \/ CreateUser(c) \/ UpdateUser(c) \/ CreateCategory(c) \/ UpdateCategory(c)
           \/ CreateSalesChannel(c) \/ UpdateSalesChannel(c) \/ CreatePaymentBank(c)
           \/ UpdatePaymentBank(c) \/ CreateTable(c) \/ UpdateTable(c)
    BY <1>4, <1>9 DEF CreateUser, UpdateUser, CreateCategory, UpdateCategory,
        CreateSalesChannel, UpdateSalesChannel, CreatePaymentBank, UpdatePaymentBank,
        CreateTable, UpdateTable
<1>10. QED
    BY <1>5, <1>6, <1>7, <1>8, <1>9 DEF ServicesNext

-----------------------------------------------------------------------------
(* Types. *)

\* The table of a row is the one that has its id.
LEMMA TableOfId ==
    ASSUME NEW T \in TableNames, NEW id \in T
    PROVE  TableOf(id) = T
<1>1. \A T2 \in TableNames : id \in T2 => T2 = T
    BY IdsAreDisjoint DEF TableNames
<1>2. QED
    BY <1>1 DEF TableOf

\* What a request and the session behind it always are.
RequestOK(c) ==
    LET r == request[c]
    IN  /\ session[c] # None => Exists(session[c].user)
        /\ r.stage = "login" => r.id \in Users /\ Exists(r.id)
        /\ r.stage \notin {"idle", "login"} => session[c] # None /\ requests > 0
        /\ r.op \in {"update", "deactivate", "reactivate"} => r.id \in Ids /\ Exists(r.id)
        /\ r.op = "create" => r.id \in Ids
        /\ r.op = "replace" => r.list \in Lists
        /\ r.op \in {"create", "update"} /\ r.id \in Users =>
                /\ r.given.name \in Names \cup {Undefined}
                /\ r.given.detail \in Roles \cup {Undefined}
        /\ r.op = "create" /\ r.id \in Users =>
                r.given.name # Undefined /\ r.given.detail # Undefined

\* No request is in flight while the seed runs.
SeedRunsAlone == SeedIsRunning => NobodyAtWork

\* The seed has chosen its product before it works on it.
SeedHasProduct ==
    seed.step \in {"cost", "prices", "stock", "done"} => seed.product \in Products

TypeInv ==
    AdminTypeOK /\ SeedRunsAlone /\ SeedHasProduct /\ \A c \in Clients : RequestOK(c)

\* An idle client is fine whatever the rows.
LEMMA IdleIsRequest == Idle \in Request
BY DEF Idle, Request, Stages, Nothing

\* The invariant holds of the empty tables.
LEMMA TypeInvInit == Init => TypeInv
<1> SUFFICES ASSUME Init PROVE TypeInv
    OBVIOUS
<1>1. DirectoryTypeOK
  <2>1. Users \subseteq Ids
      BY DEF Ids
  <2>2. /\ row \in [Ids -> Row \cup {None}] /\ audit \in [Ids -> Row \cup {None}]
        /\ \A u \in Users : row[u] = None
      BY <2>1 DEF Init, DirectoryInit
  <2>3. seed \in [step: SeedSteps, product: Products \cup {None}]
      BY DEF Init, DirectoryInit, SeedSteps
  <2>4. history \in [Lists -> Seq(Validity)]
      BY DEF Init, DirectoryInit
  <2>5. /\ opening \in [Products -> Nat] /\ instant \in Nat
        /\ synchronised \in SUBSET Users /\ appointed \in BOOLEAN
      BY DEF Init, DirectoryInit
  <2>6. QED
      BY <2>2, <2>3, <2>4, <2>5 DEF DirectoryTypeOK, Exists
<1>2. requests \in 0..MaxRequests
    BY MaxRequestsAssumption DEF Init
<1>3. AdminTypeOK
    BY <1>1, <1>2, IdleIsRequest DEF Init, AdminTypeOK
<1>4. \A c \in Clients : RequestOK(c)
    BY NoneIsNoOp DEF Init, RequestOK, Idle, Ops, Writes
<1>5. SeedRunsAlone /\ SeedHasProduct
    BY DEF Init, DirectoryInit, SeedRunsAlone, SeedIsRunning, SeedHasProduct
<1>6. QED
    BY <1>3, <1>4, <1>5 DEF TypeInv

\* A step that only moves the request and the session of one client.
Quiet(c) ==
    /\ UNCHANGED <<row, audit, history, opening, seed, synchronised, appointed>>
    /\ instant' \in Nat
    /\ requests' \in 0..MaxRequests /\ requests' >= requests
    /\ SeedIsRunning => UNCHANGED request
    /\ \E s \in Token \cup {None} :
        session' = [session EXCEPT ![c] = s] /\ (session[c] # None => s # None)
    /\ \E r \in Request : request' = [request EXCEPT ![c] = r]

\* Whoever is at work is so between two runs of the seed.
LEMMA WorkIsAfterSeed ==
    ASSUME TypeInv, NEW c \in Clients, request[c] # Idle
    PROVE  ~SeedIsRunning
BY DEF TypeInv, SeedRunsAlone, NobodyAtWork

\* A quiet step keeps the invariant when the request it leaves is fine.
LEMMA QuietKeepsType ==
    ASSUME TypeInv, NEW c \in Clients, Quiet(c), RequestOK(c)'
    PROVE  TypeInv'
<1>1. DirectoryTypeOK'
    BY DEF Quiet, TypeInv, AdminTypeOK, DirectoryTypeOK, Exists
<1>2. session' \in [Clients -> Token \cup {None}] /\ request' \in [Clients -> Request]
    BY DEF Quiet, TypeInv, AdminTypeOK, Token
<1>3. AdminTypeOK'
    BY <1>1, <1>2 DEF AdminTypeOK, Quiet, TypeInv, Token
<1>4. /\ \A d \in Clients \ {c} : session'[d] = session[d] /\ request'[d] = request[d]
      /\ row' = row /\ requests' >= requests /\ requests \in Nat /\ requests' \in Nat
    BY MaxRequestsAssumption DEF Quiet, TypeInv, AdminTypeOK
<1>5. \A d \in Clients \ {c} : RequestOK(d)'
    BY <1>4 DEF TypeInv, RequestOK, Exists
<1>6. SeedRunsAlone' /\ SeedHasProduct'
    BY DEF TypeInv, SeedRunsAlone, SeedHasProduct, SeedIsRunning, NobodyAtWork, Quiet
<1>7. QED
    BY <1>3, <1>5, <1>6 DEF TypeInv

\* Unchanged requests, sessions and clock are quiet.
LEMMA StayingIsQuiet ==
    ASSUME TypeInv, NEW c \in Clients, NEW r \in Request,
           request' = [request EXCEPT ![c] = r], ~SeedIsRunning,
           UNCHANGED <<directoryVars, session, requests>>
    PROVE  Quiet(c)
<1>1. /\ session = [session EXCEPT ![c] = session[c]]
      /\ session[c] \in Token \cup {None}
    BY DEF TypeInv, AdminTypeOK, Token
<1>2. /\ requests' \in 0..MaxRequests /\ requests' >= requests
      /\ instant' \in Nat
    BY MaxRequestsAssumption DEF directoryVars, TypeInv, AdminTypeOK, DirectoryTypeOK
<1>3. QED
    BY <1>1, <1>2 DEF Quiet, directoryVars

\* The steps of login, logout and the guards.
LEMMA AccessKeepsType ==
    ASSUME TypeInv, NEW c \in Clients, AuthNext(c)
    PROVE  TypeInv' /\ Quiet(c)
<1> DEFINE r0 == request[c]
<1>0. /\ r0 \in Request /\ request \in [Clients -> Request]
      /\ session \in [Clients -> Token \cup {None}] /\ requests \in 0..MaxRequests
      /\ \A u \in Users : Exists(u) => row[u].detail \in Roles /\ row[u].active \in BOOLEAN
  <2>1. \A u \in Users : row[u] \in Row \cup {None}
      BY DEF TypeInv, AdminTypeOK, DirectoryTypeOK, Ids
  <2>2. \A u \in Users : Exists(u) => row[u].detail \in Roles /\ row[u].active \in BOOLEAN
      BY <2>1 DEF TypeInv, AdminTypeOK, DirectoryTypeOK, Exists, Row
  <2>3. QED
      BY <2>2 DEF TypeInv, AdminTypeOK, Token
<1>0a. /\ UNCHANGED requests => requests' \in 0..MaxRequests /\ requests' >= requests
       /\ UNCHANGED directoryVars => instant' \in Nat
    BY MaxRequestsAssumption DEF directoryVars, TypeInv, AdminTypeOK, DirectoryTypeOK
<1>1. CASE \E u \in Users : StartLogin(c, u)
  <2> PICK u \in Users : StartLogin(c, u)
      BY <1>1
  <2> DEFINE r == [[r0 EXCEPT !.stage = "login"] EXCEPT !.id = u]
  <2>0. u \in Ids
      BY DEF Ids
  <2>1. r \in Request /\ request' = [request EXCEPT ![c] = r]
    <3>1. r \in Request
        BY <1>0, <2>0 DEF Request, Stages
    <3>2. QED
        BY <3>1 DEF StartLogin
  <2>2. Quiet(c)
      BY <2>1, StayingIsQuiet, LoginStepsAssumption DEF StartLogin, SeedIsRunning
  <2>3. RequestOK(c)'
      BY <1>0, <2>1, NoneIsNoOp DEF StartLogin, RequestOK, IsActive, Exists, directoryVars, Idle, Ops, Writes
  <2>4. QED
      BY <2>2, <2>3, QuietKeepsType
<1>2. CASE FinishLogin(c)
  <2> DEFINE u == r0.id
  <2> DEFINE s == [user |-> u, role |-> row[u].detail, live |-> TRUE]
  <2>1. u \in Users /\ Exists(u)
      BY <1>2 DEF FinishLogin, TypeInv, RequestOK
  <2>2. s \in Token
      BY <1>0, <2>1 DEF Token
  <2>3. Quiet(c)
    <3>1. ~SeedIsRunning
        BY <1>2, WorkIsAfterSeed DEF FinishLogin, Idle
    <3>2. /\ session' = [session EXCEPT ![c] = s]
          /\ request' = [request EXCEPT ![c] = Idle]
          /\ UNCHANGED <<directoryVars, requests>>
        BY <1>2 DEF FinishLogin
    <3>3. s # None
        BY <2>2, NoneIsNoToken
    <3> HIDE DEF s
    <3>4. QED
        BY <1>0a, <2>2, <3>1, <3>2, <3>3, IdleIsRequest DEF Quiet, directoryVars
  <2>4. RequestOK(c)'
      BY <1>0, <1>2, <2>1, NoneIsNoOp DEF FinishLogin, RequestOK, Exists, directoryVars, Idle, Ops, Writes
  <2>5. QED
      BY <2>3, <2>4, QuietKeepsType
<1>3. CASE EndSession(c)
  <2> DEFINE s == [session[c] EXCEPT !.live = FALSE]
  <2>1. s \in Token /\ session' = [session EXCEPT ![c] = s]
      BY <1>0, <1>3 DEF EndSession, Token
  <2>2. request' = [request EXCEPT ![c] = request[c]]
      BY <1>0, <1>3 DEF EndSession
  <2>3. Quiet(c)
    <3>1. /\ UNCHANGED <<directoryVars, request, requests>>
          /\ request[c] \in Request
        BY <1>0, <1>3 DEF EndSession
    <3>2. s # None
        BY <2>1, NoneIsNoToken
    <3> HIDE DEF s
    <3>3. QED
        BY <1>0a, <2>1, <2>2, <3>1, <3>2 DEF Quiet, directoryVars
  <2>4. /\ session[c] # None /\ session'[c].user = session[c].user /\ session'[c] # None
        /\ UNCHANGED <<request, row, requests>>
      BY <1>0, <1>3, <2>1, NoneIsNoToken DEF EndSession, Token, directoryVars
  <2>5. RequestOK(c)'
      BY <2>4 DEF RequestOK, TypeInv, Exists
  <2>6. QED
      BY <2>3, <2>5, QuietKeepsType
<1>4. CASE Arrive(c)
  <2> DEFINE r == [[r0 EXCEPT !.stage = "session"] EXCEPT !.held = RolesIn(row, c)]
  <2>1. RolesIn(row, c) \subseteq Roles
      BY <1>0, <1>4 DEF Arrive, RolesIn, TypeInv, RequestOK, Token
  <2>2. r \in Request /\ request' = [request EXCEPT ![c] = r]
      BY <1>0, <1>4, <2>1 DEF Arrive, Request, Stages
  <2>3. requests' \in 0..MaxRequests /\ requests' >= requests /\ requests' > 0
      BY <1>0, <1>4, MaxRequestsAssumption DEF Arrive
  <2>4. session' = [session EXCEPT ![c] = session[c]]
      BY <1>0, <1>4 DEF Arrive
  <2>5. Quiet(c)
      BY <1>0, <1>4, <2>2, <2>3, <2>4 DEF Arrive, Quiet, directoryVars, TypeInv, AdminTypeOK, DirectoryTypeOK
  <2>6. RequestOK(c)'
      BY <1>0, <1>4, <2>2, <2>3, NoneIsNoOp DEF Arrive, RequestOK, TypeInv, Exists, directoryVars, Idle, Ops, Writes
  <2>7. QED
      BY <2>5, <2>6, QuietKeepsType
<1>5. CASE Fail(c)
  <2>1. Quiet(c)
      BY <1>5, IdleIsRequest, StayingIsQuiet, WorkIsAfterSeed DEF Fail
  <2>2. RequestOK(c)'
      BY <1>0, <1>5, NoneIsNoOp DEF Fail, RequestOK, TypeInv, Exists, directoryVars, Idle, Ops, Writes
  <2>3. QED
      BY <2>1, <2>2, QuietKeepsType
<1>6. \A component, handler :
        /\ DocumentedRoles(component, handler) \in SUBSET Roles
        /\ UndocumentedRoles(component, handler) \in SUBSET Roles
    BY DEF DocumentedRoles, UndocumentedRoles, Roles, Oversight, Floor, Management
<1> DEFINE Given == [name: Names \cup {None, Undefined},
                     detail: Roles \cup Categories \cup {None, Undefined}]
<1>7. ASSUME NEW op \in Writes, NEW id \in Ids,
             NEW given \in Given,
             Admit(c, op, id, given),
             op # "create" => Exists(id),
             op \in {"create", "update"} /\ id \in Users =>
                /\ given.name \in Names \cup {Undefined}
                /\ given.detail \in Roles \cup {Undefined},
             op = "create" /\ id \in Users => IsComplete(id, given)
      PROVE  TypeInv' /\ Quiet(c)
  <2> DEFINE r == [[[[[r0 EXCEPT !.stage = "admitted"] EXCEPT !.op = op] EXCEPT !.id = id]
                        EXCEPT !.given = given]
                        EXCEPT !.documented = DocumentedRoles(Component(id), op)]
  <2>1. r \in Request /\ request' = [request EXCEPT ![c] = r]
      BY <1>0, <1>6, <1>7 DEF Admit, Request, Stages, Ops
  <2>2. r0.stage = "session"
      BY <1>7 DEF Admit, IsAllowed
  <2>3. Quiet(c)
    <3>1. ~SeedIsRunning
        BY <2>2, WorkIsAfterSeed DEF Idle
    <3>2. QED
        BY <1>7, <2>1, <3>1, StayingIsQuiet DEF Admit
  <2>4. request'[c] = r /\ UNCHANGED <<row, session, requests>>
      BY <1>0, <1>7, <2>1 DEF Admit, directoryVars
  <2>5. /\ r.stage = "admitted" /\ r.op = op /\ r.id = id /\ r.given = given
      BY <1>0 DEF Request
  <2>6. op \in {"create", "update", "deactivate", "reactivate"}
      BY DEF Writes
  <2>7. RequestOK(c)'
    <3>1. session[c] # None /\ Exists(session[c].user) /\ requests > 0
        BY <2>2 DEF TypeInv, RequestOK
    <3>2. op = "create" /\ id \in Users => given.name # Undefined /\ given.detail # Undefined
        BY <1>7, IdsAreDisjoint DEF IsComplete
    <3> HIDE DEF r
    <3>3. QED
        BY <1>7, <2>4, <2>5, <2>6, <3>1, <3>2 DEF RequestOK, Exists
  <2>8. QED
      BY <2>3, <2>7, QuietKeepsType
<1>8. ASSUME NEW id \in Ids, NEW name \in NamesOf(id) \cup {Undefined},
             NEW detail \in DetailsOf(id) \cup {Undefined}
      PROVE  /\ [name |-> name, detail |-> detail] \in Given
             /\ id \in Users => name \in Names \cup {Undefined}
                               /\ detail \in Roles \cup {Undefined}
  <2>1. DetailsOf(id) \subseteq Roles \cup Categories \cup {None}
      BY IdsAreDisjoint, GivenRolesAssumption, GivenCategoriesAssumption DEF DetailsOf
  <2>2. id \in Users => DetailsOf(id) \subseteq Roles /\ NamesOf(id) \subseteq Names
      BY IdsAreDisjoint, GivenRolesAssumption DEF DetailsOf, NamesOf
  <2>3. NamesOf(id) \subseteq Names \cup {None}
      BY DEF NamesOf
  <2>4. QED
      BY <2>1, <2>2, <2>3
<1>9. CASE \E id \in Ids : \E name \in NamesOf(id) \cup {Undefined} :
           \E detail \in DetailsOf(id) \cup {Undefined} :
                LET given == [name |-> name, detail |-> detail]
                IN  AdmitCreate(c, id, given) \/ AdmitUpdate(c, id, given)
  <2> PICK id \in Ids : \E name \in NamesOf(id) \cup {Undefined} :
            \E detail \in DetailsOf(id) \cup {Undefined} :
                \/ AdmitCreate(c, id, [name |-> name, detail |-> detail])
                \/ AdmitUpdate(c, id, [name |-> name, detail |-> detail])
      BY <1>9
  <2> PICK name \in NamesOf(id) \cup {Undefined} :
            \E detail \in DetailsOf(id) \cup {Undefined} :
                \/ AdmitCreate(c, id, [name |-> name, detail |-> detail])
                \/ AdmitUpdate(c, id, [name |-> name, detail |-> detail])
      OBVIOUS
  <2> PICK detail \in DetailsOf(id) \cup {Undefined} :
            \/ AdmitCreate(c, id, [name |-> name, detail |-> detail])
            \/ AdmitUpdate(c, id, [name |-> name, detail |-> detail])
      OBVIOUS
  <2> DEFINE given == [name |-> name, detail |-> detail]
  <2>1. given \in Given
      BY <1>8
  <2>2. id \in Users => /\ given.name \in Names \cup {Undefined}
                        /\ given.detail \in Roles \cup {Undefined}
      BY <1>8
  <2> HIDE DEF given
  <2>3. CASE AdmitCreate(c, id, given)
      BY <1>7, <2>1, <2>2, <2>3 DEF AdmitCreate, Writes
  <2>4. CASE AdmitUpdate(c, id, given)
      BY <1>7, <2>1, <2>2, <2>4 DEF AdmitUpdate, Writes
  <2>5. QED
      BY <2>3, <2>4 DEF given
<1>10. CASE \E id \in Ids, op \in {"deactivate", "reactivate"} : AdmitSetActive(c, op, id)
  <2> PICK id \in Ids, op \in {"deactivate", "reactivate"} : AdmitSetActive(c, op, id)
      BY <1>10
  <2>1. Nothing \in Given
      BY DEF Nothing
  <2>2. op \in Writes /\ op \notin {"create", "update"}
      BY DEF Writes
  <2>3. QED
      BY <1>7, <2>1, <2>2 DEF AdmitSetActive
<1>11. CASE \E list \in Lists : AdmitReplace(c, list)
  <2> PICK list \in Lists : AdmitReplace(c, list)
      BY <1>11
  <2> DEFINE component == IF list[2] = None THEN "costs" ELSE "prices"
  <2> DEFINE r == [[[[r0 EXCEPT !.stage = "admitted"] EXCEPT !.op = "replace"]
                        EXCEPT !.list = list]
                        EXCEPT !.documented = DocumentedRoles(component, "create")]
  <2>1. request' = [request EXCEPT ![c] = r] /\ IsAllowed(c, component, "create")
      BY DEF AdmitReplace
  <2> HIDE DEF component
  <2>2. r \in Request
      BY <1>0, <1>6 DEF Request, Stages, Ops
  <2>3. r0.stage = "session"
      BY <2>1 DEF IsAllowed
  <2>4. Quiet(c)
    <3>1. ~SeedIsRunning
        BY <2>3, WorkIsAfterSeed DEF Idle
    <3>2. QED
        BY <2>1, <2>2, <3>1, StayingIsQuiet DEF AdmitReplace
  <2>5. request'[c] = r /\ UNCHANGED <<row, session, requests>>
      BY <1>0, <2>1 DEF AdmitReplace, directoryVars
  <2>6. r.stage = "admitted" /\ r.op = "replace" /\ r.list = list
      BY <1>0 DEF Request
  <2>7. RequestOK(c)'
      BY <2>3, <2>5, <2>6 DEF RequestOK, TypeInv, Exists
  <2>8. QED
      BY <2>4, <2>7, QuietKeepsType
<1>12. CASE \E component \in DOMAIN Routes : \E handler \in DOMAIN Routes[component] :
                VisitElsewhere(c, component, handler)
  <2> PICK component, handler : VisitElsewhere(c, component, handler)
      BY <1>12
  <2> DEFINE r == [[[r0 EXCEPT !.stage = "elsewhere"]
                        EXCEPT !.documented = DocumentedRoles(component, handler)]
                        EXCEPT !.undocumented = UndocumentedRoles(component, handler)]
  <2>1. r \in Request /\ request' = [request EXCEPT ![c] = r]
      BY <1>0, <1>6 DEF VisitElsewhere, Request, Stages
  <2>2. r0.stage = "session"
      BY DEF VisitElsewhere, IsAllowed
  <2>3. Quiet(c)
    <3>1. ~SeedIsRunning
        BY <2>2, WorkIsAfterSeed DEF Idle
    <3>2. QED
        BY <2>1, <3>1, StayingIsQuiet DEF VisitElsewhere
  <2>4. request'[c] = r /\ UNCHANGED <<row, session, requests>>
      BY <1>0, <2>1 DEF VisitElsewhere, directoryVars
  <2>5. r.stage = "elsewhere" /\ r.op = r0.op /\ r.id = r0.id /\ r.list = r0.list
        /\ r.given = r0.given
      BY <1>0 DEF Request
  <2>6. RequestOK(c)'
      BY <2>2, <2>4, <2>5 DEF RequestOK, TypeInv, Exists
  <2>7. QED
      BY <2>3, <2>6, QuietKeepsType
<1>13. QED
    BY <1>1, <1>2, <1>3, <1>4, <1>5, <1>9, <1>10, <1>11, <1>12 DEF AuthNext, Logout, Expire

\* A step of a service that goes on with its request.
Advance(c) ==
    /\ request[c].stage \notin {"idle", "login", "session"}
    /\ UNCHANGED <<row, audit, history, opening, seed, synchronised, appointed,
                   session, requests>>
    /\ instant' \in Nat
    /\ \E r \in Request :
        /\ request' = [request EXCEPT ![c] = r]
        /\ r.stage \notin {"idle", "login", "session"}
        /\ r.op = request[c].op /\ r.id = request[c].id
        /\ r.list = request[c].list /\ r.given = request[c].given
        /\ r.held = request[c].held /\ r.documented = request[c].documented
        /\ r.undocumented = request[c].undocumented

\* Going on with a request keeps the invariant.
LEMMA AdvanceKeepsType ==
    ASSUME TypeInv, NEW c \in Clients, Advance(c)
    PROVE  TypeInv' /\ Quiet(c) /\ ~SeedIsRunning
<1>0. ~SeedIsRunning
    BY WorkIsAfterSeed DEF Advance, Idle
<1>1. PICK r \in Request :
        /\ request' = [request EXCEPT ![c] = r]
        /\ r.stage \notin {"idle", "login", "session"}
        /\ r.op = request[c].op /\ r.id = request[c].id
        /\ r.list = request[c].list /\ r.given = request[c].given
    BY DEF Advance
<1>2. /\ request'[c] = r
      /\ session = [session EXCEPT ![c] = session[c]]
      /\ session[c] \in Token \cup {None}
    BY <1>1 DEF TypeInv, AdminTypeOK
<1>3. Quiet(c)
  <2>1. requests' \in 0..MaxRequests /\ requests' >= requests
      BY MaxRequestsAssumption DEF Advance, TypeInv, AdminTypeOK
  <2>2. QED
      BY <1>0, <1>1, <1>2, <2>1 DEF Quiet, Advance
<1>4. RequestOK(c)'
    BY <1>1, <1>2 DEF Advance, TypeInv, RequestOK, Exists
<1>5. QED
    BY <1>0, <1>3, <1>4, QuietKeepsType

\* The steps of the services that commit nothing.
QuietServiceSteps(c) ==
    \/ \E op \in Writes : Find(c, op)
    \/ \E next \in {"named", "checked"} : CheckNew(c, next) \/ CheckIfChanged(c, next)
    \/ CheckOther(c) \/ EnsureCategoryUsable(c)
    \/ \E op \in {"deactivate", "reactivate"} : BeginSetUserActive(c, op) /\ Of(c, Users)
    \/ RetrySetUserActive(c) /\ Of(c, Users)
    \/ EnsureProductActive(c) \/ EnsureSalesChannelActive(c)
    \/ TakeInstant(c) \/ ReadCurrent(c) \/ RetryReplace(c)

\* Each of them goes on with its request.
LEMMA QuietServicesAdvance ==
    ASSUME TypeInv, NEW c \in Clients, QuietServiceSteps(c)
    PROVE  Advance(c)
<1> DEFINE r0 == request[c]
<1>0. /\ r0 \in Request /\ request \in [Clients -> Request] /\ instant \in Nat
      /\ \A id \in Ids : row[id] \in Row \cup {None}
    BY DEF TypeInv, AdminTypeOK, DirectoryTypeOK
<1>1. ASSUME NEW stage \in Stages \ {"idle", "login", "session"}, Stage(c, stage),
             UNCHANGED <<directoryVars, session, requests>>,
             r0.stage \notin {"idle", "login", "session"}
      PROVE  Advance(c)
  <2> DEFINE r == [r0 EXCEPT !.stage = stage]
  <2>1. r \in Request /\ request' = [request EXCEPT ![c] = r]
      BY <1>0, <1>1 DEF Stage, Request
  <2>2. /\ r.stage = stage
        /\ r.op = r0.op /\ r.id = r0.id /\ r.list = r0.list /\ r.given = r0.given
        /\ r.held = r0.held /\ r.documented = r0.documented
        /\ r.undocumented = r0.undocumented
      BY <1>0 DEF Request
  <2>3. QED
      BY <1>0, <1>1, <2>1, <2>2 DEF Advance, directoryVars
<1>2. /\ "found" \in Stages /\ "named" \in Stages /\ "checked" \in Stages
    BY DEF Stages
<1>3. CASE \E op \in Writes : Find(c, op)
  <2> PICK op \in Writes : Find(c, op)
      BY <1>3
  <2> DEFINE r == [[r0 EXCEPT !.stage = "found"] EXCEPT !.before = row[r0.id]]
  <2>1. r0.id \in Ids /\ r0.stage = "admitted"
      BY DEF Find, At, TypeInv, RequestOK, Writes
  <2>2. r \in Request /\ request' = [request EXCEPT ![c] = r]
      BY <1>0, <1>2, <2>1 DEF Find, Request
  <2>3. /\ r.stage = "found"
        /\ r.op = r0.op /\ r.id = r0.id /\ r.list = r0.list /\ r.given = r0.given
        /\ r.held = r0.held /\ r.documented = r0.documented
        /\ r.undocumented = r0.undocumented
      BY <1>0 DEF Request
  <2>4. QED
      BY <1>0, <2>1, <2>2, <2>3 DEF Find, Advance, directoryVars
<1>4. CASE \/ \E next \in {"named", "checked"} : CheckNew(c, next) \/ CheckIfChanged(c, next)
           \/ CheckOther(c) \/ EnsureCategoryUsable(c)
           \/ EnsureProductActive(c) \/ EnsureSalesChannelActive(c)
    BY <1>1, <1>2, <1>4 DEF CheckNew, CheckIfChanged, CheckOther, EnsureCategoryUsable,
        EnsureProductActive, EnsureSalesChannelActive, PassCheck, At
<1>5. CASE \E op \in {"deactivate", "reactivate"} : BeginSetUserActive(c, op) /\ Of(c, Users)
  <2> PICK op \in {"deactivate", "reactivate"} : BeginSetUserActive(c, op) /\ Of(c, Users)
      BY <1>5
  <2> DEFINE r == [[[r0 EXCEPT !.stage = "counted"] EXCEPT !.before = row[r0.id]]
                        EXCEPT !.raced = FALSE]
  <2>1. r0.id \in Ids /\ r0.stage = "admitted"
      BY DEF BeginSetUserActive, At, TypeInv, RequestOK
  <2>2. r \in Request /\ request' = [request EXCEPT ![c] = r]
      BY <1>0, <2>1 DEF BeginSetUserActive, Request, Stages
  <2>3. /\ r.stage = "counted"
        /\ r.op = r0.op /\ r.id = r0.id /\ r.list = r0.list /\ r.given = r0.given
        /\ r.held = r0.held /\ r.documented = r0.documented
        /\ r.undocumented = r0.undocumented
      BY <1>0 DEF Request
  <2>4. QED
      BY <1>0, <2>1, <2>2, <2>3 DEF BeginSetUserActive, Advance, directoryVars
<1>6. CASE RetrySetUserActive(c)
  <2> DEFINE r == [[[r0 EXCEPT !.stage = "admitted"] EXCEPT !.before = None]
                        EXCEPT !.raced = FALSE]
  <2>1. r \in Request /\ request' = [request EXCEPT ![c] = r]
      BY <1>0, <1>6 DEF RetrySetUserActive, Request, Stages
  <2>2. /\ r.stage = "admitted"
        /\ r.op = r0.op /\ r.id = r0.id /\ r.list = r0.list /\ r.given = r0.given
        /\ r.held = r0.held /\ r.documented = r0.documented
        /\ r.undocumented = r0.undocumented
      BY <1>0 DEF Request
  <2>3. QED
      BY <1>0, <1>6, <2>1, <2>2 DEF RetrySetUserActive, Advance, directoryVars
<1>7. CASE TakeInstant(c)
  <2> DEFINE r == [[r0 EXCEPT !.stage = "timed"] EXCEPT !.now = instant']
  <2>0. instant' \in Nat
      BY <1>0, <1>7 DEF TakeInstant, ReadClock
  <2>1. r \in Request /\ request' = [request EXCEPT ![c] = r]
      BY <1>0, <1>7, <2>0 DEF TakeInstant, Request, Stages
  <2>2. /\ r.stage = "timed"
        /\ r.op = r0.op /\ r.id = r0.id /\ r.list = r0.list /\ r.given = r0.given
        /\ r.held = r0.held /\ r.documented = r0.documented
        /\ r.undocumented = r0.undocumented
      BY <1>0 DEF Request
  <2>3. QED
      BY <1>7, <2>0, <2>1, <2>2 DEF TakeInstant, Advance, At
<1>8. CASE ReadCurrent(c)
  <2> DEFINE r == [[r0 EXCEPT !.stage = "read"] EXCEPT !.raced = FALSE]
  <2>1. r \in Request /\ request' = [request EXCEPT ![c] = r]
      BY <1>0, <1>8 DEF ReadCurrent, Request, Stages
  <2>2. /\ r.stage = "read"
        /\ r.op = r0.op /\ r.id = r0.id /\ r.list = r0.list /\ r.given = r0.given
        /\ r.held = r0.held /\ r.documented = r0.documented
        /\ r.undocumented = r0.undocumented
      BY <1>0 DEF Request
  <2>3. QED
      BY <1>0, <1>8, <2>1, <2>2 DEF ReadCurrent, Advance, At, directoryVars
<1>9. CASE RetryReplace(c)
  <2> DEFINE r == [[[r0 EXCEPT !.stage = "checked"] EXCEPT !.now = 0] EXCEPT !.raced = FALSE]
  <2>1. r \in Request /\ request' = [request EXCEPT ![c] = r]
      BY <1>0, <1>9 DEF RetryReplace, Request, Stages
  <2>2. /\ r.stage = "checked"
        /\ r.op = r0.op /\ r.id = r0.id /\ r.list = r0.list /\ r.given = r0.given
        /\ r.held = r0.held /\ r.documented = r0.documented
        /\ r.undocumented = r0.undocumented
      BY <1>0 DEF Request
  <2>3. QED
      BY <1>0, <1>9, <2>1, <2>2 DEF RetryReplace, Advance, directoryVars
<1>10. QED
    BY <1>3, <1>4, <1>5, <1>6, <1>7, <1>8, <1>9 DEF QuietServiceSteps

\* A commit keeps the invariant when the tables it leaves are typed.
LEMMA CommitKeepsType ==
    ASSUME TypeInv, NEW c \in Clients, Commit(c), DirectoryTypeOK',
           \A id \in Ids : Exists(id) => row'[id] # None,
           UNCHANGED <<seed, session, requests>>, ~SeedIsRunning
    PROVE  TypeInv'
<1>1. /\ request \in [Clients -> Request] /\ session \in [Clients -> Token \cup {None}]
      /\ Users \subseteq Ids
    BY DEF TypeInv, AdminTypeOK, Ids
<1>2. ASSUME NEW d \in Clients, d # c, request[d].stage \notin {"idle", "login"}
      PROVE  /\ request'[d] \in Request
             /\ request'[d].stage = request[d].stage /\ request'[d].op = request[d].op
             /\ request'[d].id = request[d].id /\ request'[d].list = request[d].list
             /\ request'[d].given = request[d].given
  <2>1. session[d] \in Token /\ Exists(session[d].user)
      BY <1>1, <1>2 DEF TypeInv, RequestOK
  <2>2. session[d].user \in Users /\ row'[session[d].user] # None
      BY <1>1, <2>1 DEF Token
  <2>3. RolesIn(row', d) \subseteq Roles
      BY <2>2 DEF RolesIn, DirectoryTypeOK, Exists
  <2>4. OvertakesCheck(request[d], request[c]) \in BOOLEAN
      BY DEF OvertakesCheck
  <2>5. Conflicts(request[d], request[c]) \in BOOLEAN
      BY DEF Conflicts
  <2> DEFINE raced == \/ request[d].raced \/ Conflicts(request[d], request[c])
                      \/ OvertakesCheck(request[d], request[c])
  <2> DEFINE held == request[d].held \cup RolesIn(row', d)
  <2>6. raced \in BOOLEAN /\ held \in SUBSET Roles
    <3>1. request[d].held \in SUBSET Roles
        BY <1>1 DEF Request
    <3>2. QED
        BY <3>1, <2>3
  <2>7. request'[d] = [[request[d] EXCEPT !.raced = raced] EXCEPT !.held = held]
      BY <1>2 DEF Commit
  <2> HIDE DEF raced, held
  <2> DEFINE new == [[request[d] EXCEPT !.raced = raced] EXCEPT !.held = held]
  <2>8. /\ new \in Request
        /\ new.stage = request[d].stage /\ new.op = request[d].op
        /\ new.id = request[d].id /\ new.list = request[d].list
        /\ new.given = request[d].given
    <3>1. request[d] \in Request
        BY <1>1
    <3>2. QED
        BY <2>6, <3>1 DEF Request
  <2>9. request'[d] = new
      BY <2>7
  <2> HIDE DEF new
  <2>10. QED
      BY <2>8, <2>9
<1>3. /\ request'[c] = Idle
      /\ \A d \in Clients \ {c} : request[d].stage \in {"idle", "login"} => request'[d] = request[d]
      /\ request' = [d \in Clients |-> request'[d]]
    BY DEF Commit
<1>4. request' \in [Clients -> Request]
    BY <1>1, <1>2, <1>3, IdleIsRequest
<1>5. AdminTypeOK'
    BY <1>4 DEF TypeInv, AdminTypeOK
<1>6. \A d \in Clients : session[d] # None => session[d].user \in Ids
    BY <1>1 DEF Token
<1>7. ASSUME NEW d \in Clients PROVE RequestOK(d)'
  <2>1. CASE d = c
      BY <1>3, <1>6, <2>1, NoneIsNoOp DEF RequestOK, TypeInv, Idle, Ops, Writes, Exists
  <2>2. CASE d # c /\ request[d].stage \in {"idle", "login"}
      BY <1>1, <1>3, <1>6, <2>2 DEF RequestOK, TypeInv, Exists
  <2>3. CASE d # c /\ request[d].stage \notin {"idle", "login"}
      BY <1>2, <1>6, <2>3 DEF RequestOK, TypeInv, Exists
  <2>4. QED
      BY <2>1, <2>2, <2>3
<1>8. SeedRunsAlone' /\ SeedHasProduct'
    BY DEF TypeInv, SeedRunsAlone, SeedHasProduct, SeedIsRunning
<1>9. QED
    BY <1>5, <1>7, <1>8 DEF TypeInv

\* What a commit leaves of another request.
LEMMA CommitLeaves ==
    ASSUME TypeInv, NEW c \in Clients, Commit(c), NEW d \in Clients \ {c},
           request'[d].stage \notin {"idle", "login"}, ~request'[d].raced
    PROVE  /\ ~request[d].raced
           /\ ~Conflicts(request[d], request[c])
           /\ ~OvertakesCheck(request[d], request[c])
           /\ request'[d].stage = request[d].stage /\ request'[d].op = request[d].op
           /\ request'[d].id = request[d].id /\ request'[d].before = request[d].before
           /\ request'[d].given = request[d].given
<1>1. request[d] \in Request
    BY DEF TypeInv, AdminTypeOK
<1>2. request[d].stage \notin {"idle", "login"}
    BY DEF Commit
<1> DEFINE raced == \/ request[d].raced \/ Conflicts(request[d], request[c])
                    \/ OvertakesCheck(request[d], request[c])
<1> DEFINE held == request[d].held \cup RolesIn(row', d)
<1>3. request'[d] = [[request[d] EXCEPT !.raced = raced] EXCEPT !.held = held]
    BY <1>2 DEF Commit
<1> HIDE DEF raced, held
<1>4. /\ request'[d].raced = raced
      /\ request'[d].stage = request[d].stage /\ request'[d].op = request[d].op
      /\ request'[d].id = request[d].id /\ request'[d].before = request[d].before
      /\ request'[d].given = request[d].given
    BY <1>1, <1>3 DEF Request
<1>5. QED
    BY <1>4 DEF raced

\* A write of a row, and the audit row with it, keeps the tables typed.
LEMMA WriteKeepsTables ==
    ASSUME TypeInv, NEW id \in Ids, NEW new \in Row, Write(id, new),
           id \in Users => new.name \in Names /\ new.detail \in Roles,
           appointed' \in BOOLEAN
    PROVE  /\ DirectoryTypeOK'
           /\ \A other \in Ids : Exists(other) => row'[other] # None
           /\ row' = [row EXCEPT ![id] = new]
           /\ seed' = seed
<1>1. row' \in [Ids -> Row \cup {None}] /\ audit' \in [Ids -> Row \cup {None}]
    BY DEF Write, TypeInv, AdminTypeOK, DirectoryTypeOK
<1>2. \A other \in Ids : row'[other] = IF other = id THEN new ELSE row[other]
    BY DEF Write, TypeInv, AdminTypeOK, DirectoryTypeOK
<1>3. Users \subseteq Ids
    BY DEF Ids
<1>4. \A u \in Users : row'[u] # None => row'[u].name \in Names /\ row'[u].detail \in Roles
    BY <1>2, <1>3 DEF TypeInv, AdminTypeOK, DirectoryTypeOK, Exists
<1>5. DirectoryTypeOK'
    BY <1>1, <1>4 DEF Write, TypeInv, AdminTypeOK, DirectoryTypeOK
<1>6. QED
    BY <1>2, <1>5, NoneIsNoRow DEF Write, Exists

\* The steps of the services that write a row.
WriteSteps(c) ==
    \/ CommitCreate(c) \/ CommitUpdate(c)
    \/ \E op \in {"deactivate", "reactivate"} :
        \/ CommitSetActive(c, op) /\ ~Of(c, Users)
        \/ CommitSetUserActive(c, op) /\ Of(c, Users)

\* A service either goes on, writes a row or replaces a current cost or price.
LEMMA ServiceCases ==
    ASSUME NEW c \in Clients, ServicesNext(c)
    PROVE  QuietServiceSteps(c) \/ WriteSteps(c) \/ CommitReplace(c)
BY ServicesAreSteps DEF ServiceSteps, QuietServiceSteps, WriteSteps

\* What a write writes: a row with a name that the unique index allows, or
\* with the name the row had.
WritesRow(c, new) ==
    LET id == request[c].id
    IN  /\ id \in Ids
        /\ Write(id, new)
        /\ id \in Users => new.name \in Names /\ new.detail \in Roles
        /\ UniqueIndexAllows(id, new.name) \/ (Exists(id) /\ new.name = row[id].name)

\* Each write is the commit of its request.
LEMMA WritesCommit ==
    ASSUME TypeInv, NEW c \in Clients, WriteSteps(c)
    PROVE  /\ \E new \in Row : WritesRow(c, new)
           /\ Commit(c) /\ UNCHANGED <<session, requests>> /\ appointed' \in BOOLEAN
           /\ request[c].stage \notin {"idle", "login", "session"} /\ ~SeedIsRunning
<1> DEFINE r == request[c]
<1>0. /\ r \in Request
      /\ \A id \in Ids : row[id] \in Row \cup {None}
      /\ \A u \in Users : Exists(u) => row[u].name \in Names /\ row[u].detail \in Roles
      /\ appointed \in BOOLEAN
    BY DEF TypeInv, AdminTypeOK, DirectoryTypeOK, Exists
<1>1. /\ r.given.name \in Names \cup {None, Undefined}
      /\ r.given.detail \in Roles \cup Categories \cup {None, Undefined}
      /\ "NONE" \in CommissionTypes /\ Users \cap Channels = {}
    BY <1>0, IdsAreDisjoint DEF Request, CommissionTypes
<1>2. CASE CommitCreate(c)
  <2> DEFINE new == NewRow(r.id, r.given)
  <2>1. r.id \in Ids /\ r.stage = "checked"
      BY <1>2 DEF CommitCreate, At, TypeInv, RequestOK
  <2>2. new \in Row
      BY <1>1 DEF Row, NewRow, OrNull
  <2>3. r.id \in Users => new.name \in Names /\ new.detail \in Roles
      BY <1>1, <1>2 DEF CommitCreate, At, TypeInv, RequestOK, NewRow, OrNull
  <2>4. UniqueIndexAllows(r.id, new.name)
    <3>1. new.name \in Names => new.name = r.given.name
        BY NoneIsNoValue DEF NewRow, OrNull
    <3>2. QED
        BY <1>2, <3>1 DEF CommitCreate, Insert, UniqueIndexAllows
  <2>6. WritesRow(c, new)
      BY <1>2, <2>1, <2>3, <2>4 DEF WritesRow, CommitCreate, Insert
  <2>5. QED
      BY <1>0, <1>2, <2>1, <2>2, <2>6, WorkIsAfterSeed DEF CommitCreate, Insert, Idle
<1>3. CASE CommitUpdate(c)
  <2> DEFINE new == Patch(r.id, row[r.id], r.given)
  <2>1. r.id \in Ids /\ r.stage = "checked" /\ Exists(r.id)
      BY <1>3 DEF CommitUpdate, At, TypeInv, RequestOK
  <2>2. row[r.id] \in Row
      BY <1>0, <2>1 DEF Exists
  <2>3. new \in Row
      BY <1>1, <2>2 DEF Row, Patch
  <2>4. r.id \in Users => /\ r.given.name \in Names \cup {Undefined}
                          /\ r.given.detail \in Roles \cup {Undefined}
      BY <1>3 DEF CommitUpdate, At, TypeInv, RequestOK
  <2>5. r.id \in Users => new.name \in Names /\ new.detail \in Roles
      BY <1>0, <1>1, <2>1, <2>4 DEF Patch
  <2>6. new.name = r.given.name \/ new.name = row[r.id].name
      BY DEF Patch
  <2>7. WritesRow(c, new)
      BY <1>3, <2>1, <2>5, <2>6 DEF WritesRow, CommitUpdate, Modify
  <2>8. QED
    <3>1. appointed' \in BOOLEAN
        BY <1>0, <1>3 DEF CommitUpdate, Modify
    <3>2. QED
        BY <1>3, <2>1, <2>3, <2>7, <3>1, WorkIsAfterSeed DEF CommitUpdate, Idle
<1>4. ASSUME NEW op \in {"deactivate", "reactivate"},
             CommitSetActive(c, op) \/ CommitSetUserActive(c, op)
      PROVE  /\ \E new \in Row : WritesRow(c, new)
             /\ Commit(c) /\ UNCHANGED <<session, requests>> /\ appointed' \in BOOLEAN
             /\ r.stage \notin {"idle", "login", "session"} /\ ~SeedIsRunning
  <2> DEFINE new == [row[r.id] EXCEPT !.active = (op = "reactivate")]
  <2>1. r.id \in Ids /\ r.stage \in {"found", "counted"} /\ Exists(r.id)
      BY <1>4 DEF CommitSetActive, CommitSetUserActive, At, TypeInv, RequestOK
  <2>2. row[r.id] \in Row
      BY <1>0, <2>1 DEF Exists
  <2>3. new \in Row /\ new.name = row[r.id].name /\ new.detail = row[r.id].detail
      BY <2>2 DEF Row
  <2>4. Write(r.id, new)
      BY <1>4 DEF CommitSetActive, CommitSetUserActive, SetActive
  <2>5. WritesRow(c, new)
      BY <1>0, <2>1, <2>3, <2>4 DEF WritesRow
  <2>6. QED
      BY <1>0, <1>4, <2>1, <2>3, <2>5, WorkIsAfterSeed
         DEF CommitSetActive, CommitSetUserActive, SetActive, Idle
<1>5. QED
    BY <1>2, <1>3, <1>4 DEF WriteSteps

\* The history stays typed when a current row is replaced.
LEMMA ReplaceKeepsHistoryTyped ==
    ASSUME TypeInv, NEW list \in Lists, NEW now \in Nat, ReplaceCurrent(list, now)
    PROVE  history' \in [Lists -> Seq(Validity)]
<1>1. history \in [Lists -> Seq(Validity)]
    BY DEF TypeInv, AdminTypeOK, DirectoryTypeOK
<1> DEFINE h == history[list]
<1>2. h \in Seq(Validity)
    BY <1>1
<1>3. \A i \in DOMAIN h : h[i] \in Validity
    BY <1>2
<1>4. \A i \in DOMAIN h :
        (IF IsCurrent(h[i]) THEN [h[i] EXCEPT !.to = now] ELSE h[i]) \in Validity
    BY <1>3 DEF Validity
<1>5. CloseCurrent(list, now) \in Seq(Validity)
    BY <1>2, <1>4 DEF CloseCurrent
<1>6. [from |-> now, to |-> None] \in Validity
    BY DEF Validity
<1>7. Append(CloseCurrent(list, now), [from |-> now, to |-> None]) \in Seq(Validity)
    BY <1>5, <1>6
<1>8. QED
    BY <1>1, <1>7 DEF ReplaceCurrent

\* A new cost or price is the commit of its request.
LEMMA ReplaceCommits ==
    ASSUME TypeInv, NEW c \in Clients, CommitReplace(c)
    PROVE  /\ request[c].list \in Lists /\ request[c].now \in Nat
           /\ ReplaceCurrent(request[c].list, request[c].now)
           /\ Commit(c) /\ UNCHANGED <<session, requests>>
           /\ request[c].stage \notin {"idle", "login", "session"} /\ ~SeedIsRunning
<1>1. /\ request[c].list \in Lists /\ request[c].now \in Nat
    BY DEF CommitReplace, At, TypeInv, RequestOK, AdminTypeOK, Request
<1>2. QED
    BY <1>1, WorkIsAfterSeed DEF CommitReplace, At, Idle

\* A step of the seed writes one of the users,
SeedWritesUser(u, email, role) ==
    /\ \/ /\ u \in Holders(Users, email)
          /\ synchronised' = synchronised \cup {v \in {u} : audit[v] # None}
       \/ /\ row[u] = None /\ Holders(Users, email) = {}
          /\ UNCHANGED synchronised
    /\ SeedWrites(u, SeedRow(email, role))
    /\ seed.step \in {"admin", "demo users"}
    /\ appointed' \in BOOLEAN
    /\ UNCHANGED <<audit, history, instant>>

\* or inserts a row that is missing in another table,
SeedInsertsRow(id, name, detail) ==
    /\ row[id] = None /\ Holders(TableOf(id), name) = {}
    /\ SeedWrites(id, SeedRow(name, detail))
    /\ UNCHANGED <<audit, history, instant, synchronised, appointed>>

\* or opens a list that has no current row,
SeedOpensList(list) ==
    /\ ~HasCurrent(list)
    /\ SeedAppends(list)
    /\ UNCHANGED <<row, audit, instant, synchronised, appointed>>

\* or leaves all of them alone.
SeedGoesOn == UNCHANGED <<row, audit, history, instant, synchronised, appointed>>

SeedDetails == Categories \cup CommissionTypes \cup {None}

SeedShapes ==
    \/ \E u \in Users, email \in Names, role \in Roles : SeedWritesUser(u, email, role)
    \/ \E id \in Ids \ Users, name \in SeedNames, detail \in SeedDetails :
            SeedInsertsRow(id, name, detail)
    \/ \E list \in Lists : SeedOpensList(list)
    \/ SeedGoesOn

\* Every step of the seed is one of these.
LEMMA SeedCases ==
    ASSUME TypeInv, SeedNext \/ SeedFindsStock
    PROVE  SeedShapes
<1>1. /\ Categories \subseteq Ids \ Users /\ Channels \subseteq Ids \ Users
      /\ Banks \subseteq Ids \ Users /\ Tables \subseteq Ids \ Users
      /\ Products \subseteq Ids \ Users /\ Users \subseteq Ids
    BY IdsAreDisjoint DEF Ids
<1>2. ASSUME NEW email \in Names, NEW role \in Roles, EnsureUser(email, role),
             seed.step \in {"admin", "demo users"}, appointed' \in BOOLEAN
      PROVE  SeedShapes
  <2>1. PICK u \in Users :
            /\ \/ /\ u \in Holders(Users, email)
                  /\ synchronised' = synchronised \cup {v \in {u} : audit[v] # None}
               \/ /\ row[u] = None /\ Holders(Users, email) = {}
                  /\ UNCHANGED synchronised
            /\ SeedWrites(u, SeedRow(email, role))
      BY <1>2 DEF EnsureUser, Holders
  <2>2. SeedWritesUser(u, email, role)
      BY <1>2, <2>1 DEF SeedWritesUser, EnsureUser
  <2>3. QED
      BY <2>2 DEF SeedShapes
<1>3. CASE \/ \E email \in Names \ {Empty} : SeedAdmin(email)
           \/ \E email \in Names \ {Empty}, role \in DemoRoles : SeedDemoUser(email, role)
  <2>1. "ADMIN" \in Roles /\ DemoRoles \subseteq Roles /\ appointed \in BOOLEAN
      BY DemoRolesAssumption DEF Roles, TypeInv, AdminTypeOK, DirectoryTypeOK
  <2>2. QED
      BY <1>2, <1>3, <2>1 DEF SeedAdmin, SeedDemoUser
<1>4. ASSUME NEW T \in {Categories, Channels, Banks, Tables}, NEW step, NEW next,
             NEW found, NEW details \in SUBSET SeedDetails,
             EnsureRows(T, step, next, found, details)
      PROVE  SeedShapes
  <2>1. CASE \E name \in SeedNames, id \in T, detail \in details :
                /\ Holders(T, name) = {}
                /\ IsNextId(id, T)
                /\ SeedWrites(id, SeedRow(name, detail))
    <3>1. PICK name \in SeedNames, id \in T, detail \in details :
                /\ Holders(T, name) = {}
                /\ IsNextId(id, T)
                /\ SeedWrites(id, SeedRow(name, detail))
        BY <2>1
    <3>2. T \in TableNames
        BY DEF TableNames
    <3>3. TableOf(id) = T /\ id \in Ids \ Users /\ detail \in SeedDetails
        BY <1>1, <3>2, TableOfId
    <3>4. SeedInsertsRow(id, name, detail)
        BY <1>4, <3>1, <3>3 DEF SeedInsertsRow, IsNextId, EnsureRows
    <3>5. QED
        BY <3>3, <3>4 DEF SeedShapes
  <2>2. CASE UNCHANGED row
      BY <1>4, <2>2 DEF SeedShapes, SeedGoesOn, EnsureRows
  <2>3. QED
      BY <1>4, <2>1, <2>2 DEF EnsureRows
<1>5. CASE EnsureCategories \/ EnsureSalesChannels \/ EnsurePaymentBanks \/ EnsureRestaurantTables
  <2>1. {None} \in SUBSET SeedDetails /\ SeedCommissions \in SUBSET SeedDetails
      BY SeedCommissionsAssumption DEF SeedDetails
  <2>2. QED
      BY <1>4, <1>5, <2>1 DEF EnsureCategories, EnsureSalesChannels, EnsurePaymentBanks,
          EnsureRestaurantTables
<1>6. CASE EnsureDemoProduct
  <2>1. CASE UNCHANGED row
      BY <1>6, <2>1 DEF SeedShapes, SeedGoesOn, EnsureDemoProduct
  <2>2. CASE \E name \in SeedNames, p \in Products :
             \E category \in SeedNames : \E cat \in Holders(Categories, category) :
                /\ Holders(Products, name) = {}
                /\ IsNextId(p, Products)
                /\ SeedWrites(p, SeedRow(name, cat))
    <3>1. PICK name \in SeedNames, p \in Products :
             \E category \in SeedNames : \E cat \in Holders(Categories, category) :
                /\ Holders(Products, name) = {}
                /\ IsNextId(p, Products)
                /\ SeedWrites(p, SeedRow(name, cat))
        BY <2>2
    <3>2. PICK cat \in Categories :
                /\ Holders(Products, name) = {}
                /\ IsNextId(p, Products)
                /\ SeedWrites(p, SeedRow(name, cat))
        BY <3>1 DEF Holders
    <3>3. Products \in TableNames
        BY DEF TableNames
    <3>4. TableOf(p) = Products /\ p \in Ids \ Users /\ cat \in SeedDetails
        BY <1>1, <3>3, TableOfId DEF SeedDetails
    <3>5. SeedInsertsRow(p, name, cat)
        BY <1>6, <3>2, <3>4 DEF SeedInsertsRow, IsNextId, EnsureDemoProduct
    <3>6. QED
        BY <3>4, <3>5 DEF SeedShapes
  <2>3. QED
      BY <1>6, <2>1, <2>2 DEF EnsureDemoProduct
<1>7. CASE EnsureCurrentCost
  <2>1. <<seed.product, None>> \in Lists
      BY <1>7 DEF EnsureCurrentCost, TypeInv, SeedHasProduct, Lists
  <2>2. QED
      BY <1>7, <2>1 DEF EnsureCurrentCost, SeedShapes, SeedOpensList, SeedGoesOn
<1>8. CASE EnsureCurrentPrice
  <2>1. \A ch \in SeedChannels : <<seed.product, ch>> \in Lists
      BY <1>8 DEF EnsureCurrentPrice, TypeInv, SeedHasProduct, Lists, SeedChannels
  <2>2. QED
      BY <1>8, <2>1 DEF EnsureCurrentPrice, SeedShapes, SeedOpensList, SeedGoesOn
<1>9. CASE \/ StartSeed \/ EndDemoUsers \/ EnsureInitialStock \/ SeedDies \/ SeedFindsStock
    BY <1>9 DEF StartSeed, EndDemoUsers, EnsureInitialStock, SeedDies, SeedFindsStock,
        SeedShapes, SeedGoesOn
<1>10. QED
    BY <1>3, <1>5, <1>6, <1>7, <1>8, <1>9 DEF SeedNext

\* The seed goes on with its list of steps, and with one product.
LEMMA SeedProceeds ==
    ASSUME TypeInv, SeedNext \/ SeedFindsStock
    PROVE  /\ seed' \in [step: SeedSteps, product: Products \cup {None}]
           /\ SeedHasProduct'
           /\ opening' \in [Products -> Nat]
           /\ \A p \in Products : opening'[p] <= 1 \/ opening'[p] = opening[p]
<1>1. /\ seed \in [step: SeedSteps, product: Products \cup {None}]
      /\ opening \in [Products -> Nat]
      /\ seed.step \in {"cost", "prices", "stock"} => seed.product \in Products
    BY DEF TypeInv, AdminTypeOK, DirectoryTypeOK, SeedHasProduct
<1>2. ASSUME NEW step \in SeedSteps, SeedGoesTo(step),
             step \in {"cost", "prices", "stock", "done"} => seed.product \in Products
      PROVE  seed' \in [step: SeedSteps, product: Products \cup {None}] /\ SeedHasProduct'
    BY <1>1, <1>2 DEF SeedGoesTo, SeedHasProduct
<1>3. ASSUME UNCHANGED seed
      PROVE  seed' \in [step: SeedSteps, product: Products \cup {None}] /\ SeedHasProduct'
    BY <1>1, <1>3 DEF SeedHasProduct, TypeInv
<1>4. ASSUME NEW step \in SeedSteps, NEW p \in Products \cup {None},
             seed' = [step |-> step, product |-> p],
             step \in {"cost", "prices", "stock", "done"} => p \in Products
      PROVE  seed' \in [step: SeedSteps, product: Products \cup {None}] /\ SeedHasProduct'
    BY <1>4 DEF SeedHasProduct
<1>5. {"admin", "demo users", "categories", "channels", "banks", "tables",
       "product", "cost", "prices", "stock", "done", "off"} \subseteq SeedSteps
    BY DEF SeedSteps
<1>6. ASSUME UNCHANGED opening
      PROVE  /\ opening' \in [Products -> Nat]
             /\ \A p \in Products : opening'[p] <= 1 \/ opening'[p] = opening[p]
    BY <1>1, <1>6
<1>7. CASE \/ \E email \in Names \ {Empty} : SeedAdmin(email)
           \/ \E email \in Names \ {Empty}, role \in DemoRoles : SeedDemoUser(email, role)
           \/ EndDemoUsers
    BY <1>2, <1>3, <1>5, <1>6, <1>7 DEF SeedAdmin, SeedDemoUser, EndDemoUsers, EnsureUser
<1>8. CASE EnsureCategories \/ EnsureSalesChannels \/ EnsurePaymentBanks \/ EnsureRestaurantTables
    BY <1>2, <1>3, <1>5, <1>6, <1>8 DEF EnsureCategories, EnsureSalesChannels,
        EnsurePaymentBanks, EnsureRestaurantTables, EnsureRows
<1>9. CASE EnsureDemoProduct \/ StartSeed \/ SeedDies
  <2>1. PICK step \in SeedSteps, p \in Products \cup {None} :
            /\ seed' = [step |-> step, product |-> p]
            /\ step \in {"cost", "prices", "stock", "done"} => p \in Products
            /\ UNCHANGED opening
      BY <1>5, <1>9 DEF EnsureDemoProduct, StartSeed, SeedDies
  <2>2. QED
      BY <1>4, <1>6, <2>1
<1>10. CASE EnsureCurrentCost \/ EnsureCurrentPrice \/ SeedFindsStock
    BY <1>1, <1>2, <1>3, <1>5, <1>6, <1>10 DEF EnsureCurrentCost, EnsureCurrentPrice,
        SeedFindsStock
<1>11. CASE EnsureInitialStock
  <2>1. /\ seed' \in [step: SeedSteps, product: Products \cup {None}] /\ SeedHasProduct'
        /\ seed.product \in Products
        /\ opening' = [opening EXCEPT ![seed.product] = IF @ = 0 THEN 1 ELSE @]
      BY <1>1, <1>2, <1>5, <1>11 DEF EnsureInitialStock
  <2>2. QED
      BY <1>1, <2>1
<1>12. QED
    BY <1>7, <1>8, <1>9, <1>10, <1>11 DEF SeedNext

\* What the seed writes is a row.
LEMMA SeedRowOfType ==
    ASSUME NEW name \in Names, NEW detail \in Roles \cup SeedDetails
    PROVE  /\ SeedRow(name, detail) \in Row
           /\ SeedRow(name, detail).name = name
           /\ SeedRow(name, detail).detail = detail
           /\ SeedRow(name, detail).active
BY DEF SeedRow, Row, SeedDetails

\* The tables after a step of the seed.
LEMMA SeedKeepsTables ==
    ASSUME TypeInv, SeedShapes
    PROVE  /\ row' \in [Ids -> Row \cup {None}]
           /\ \A id \in Ids : Exists(id) => row'[id] # None
           /\ \A u \in Users : row'[u] # None =>
                row'[u].name \in Names /\ row'[u].detail \in Roles
           /\ audit' = audit
           /\ history' \in [Lists -> Seq(Validity)]
           /\ instant' = instant
           /\ synchronised' \in SUBSET Users
           /\ appointed' \in BOOLEAN
<1>1. /\ row \in [Ids -> Row \cup {None}]
      /\ \A u \in Users : row[u] # None => row[u].name \in Names /\ row[u].detail \in Roles
      /\ history \in [Lists -> Seq(Validity)] /\ instant \in Nat
      /\ synchronised \in SUBSET Users /\ appointed \in BOOLEAN
      /\ Users \subseteq Ids /\ SeedNames \subseteq Names
    BY SeedNamesAssumption DEF TypeInv, AdminTypeOK, DirectoryTypeOK, Exists, Ids
<1>2. ASSUME NEW id \in Ids, NEW new \in Row, SeedWrites(id, new),
             id \in Users => new.name \in Names /\ new.detail \in Roles
      PROVE  /\ row' \in [Ids -> Row \cup {None}]
             /\ \A other \in Ids : Exists(other) => row'[other] # None
             /\ \A u \in Users : row'[u] # None =>
                    row'[u].name \in Names /\ row'[u].detail \in Roles
    BY <1>1, <1>2, NoneIsNoRow DEF SeedWrites, Exists
<1>3. ASSUME NEW u \in Users, NEW email \in Names, NEW role \in Roles,
             SeedWritesUser(u, email, role)
      PROVE  /\ row' \in [Ids -> Row \cup {None}]
             /\ \A other \in Ids : Exists(other) => row'[other] # None
             /\ \A v \in Users : row'[v] # None =>
                    row'[v].name \in Names /\ row'[v].detail \in Roles
  <2>1. u \in Ids /\ SeedWrites(u, SeedRow(email, role))
      BY <1>1, <1>3 DEF SeedWritesUser
  <2>2. /\ SeedRow(email, role) \in Row
        /\ SeedRow(email, role).name \in Names /\ SeedRow(email, role).detail \in Roles
      BY SeedRowOfType
  <2>3. QED
      BY <1>2, <2>1, <2>2
<1>4. ASSUME NEW id \in Ids \ Users, NEW name \in SeedNames, NEW detail \in SeedDetails,
             SeedInsertsRow(id, name, detail)
      PROVE  /\ row' \in [Ids -> Row \cup {None}]
             /\ \A other \in Ids : Exists(other) => row'[other] # None
             /\ \A v \in Users : row'[v] # None =>
                    row'[v].name \in Names /\ row'[v].detail \in Roles
    BY <1>1, <1>2, <1>4, SeedRowOfType DEF SeedInsertsRow
<1>5. ASSUME NEW list \in Lists, SeedOpensList(list)
      PROVE  history' \in [Lists -> Seq(Validity)]
  <2>1. [from |-> instant, to |-> None] \in Validity
      BY <1>1 DEF Validity
  <2>2. Append(history[list], [from |-> instant, to |-> None]) \in Seq(Validity)
      BY <1>1, <2>1
  <2>3. QED
      BY <1>1, <1>5, <2>2 DEF SeedOpensList, SeedAppends
<1>6. CASE \E u \in Users, email \in Names, role \in Roles : SeedWritesUser(u, email, role)
  <2>1. PICK u \in Users, email \in Names, role \in Roles : SeedWritesUser(u, email, role)
      BY <1>6
  <2>2. synchronised' \in SUBSET Users
      BY <1>1, <2>1 DEF SeedWritesUser
  <2>3. QED
      BY <1>1, <1>3, <2>1, <2>2 DEF SeedWritesUser
<1>7. CASE \E id \in Ids \ Users, name \in SeedNames, detail \in SeedDetails :
                SeedInsertsRow(id, name, detail)
  <2>1. PICK id \in Ids \ Users, name \in SeedNames, detail \in SeedDetails :
                SeedInsertsRow(id, name, detail)
      BY <1>7
  <2>2. QED
      BY <1>1, <1>4, <2>1 DEF SeedInsertsRow
<1>8. CASE \E list \in Lists : SeedOpensList(list)
    BY <1>1, <1>5, <1>8 DEF SeedOpensList, Exists
<1>9. CASE SeedGoesOn
    BY <1>1, <1>9 DEF SeedGoesOn, Exists
<1>10. QED
    BY <1>6, <1>7, <1>8, <1>9 DEF SeedShapes

\* The seed keeps the invariant.
LEMMA SeedKeepsType ==
    ASSUME TypeInv, RunSeed
    PROVE  /\ TypeInv' /\ SeedShapes /\ UNCHANGED <<session, request>>
           /\ requests' >= requests /\ \A c \in Clients : request[c] = Idle
<1>1. /\ SeedNext \/ SeedFindsStock
      /\ UNCHANGED <<session, request>> /\ \A c \in Clients : request[c] = Idle
    BY DEF RunSeed, NobodyAtWork
<1>2. /\ SeedShapes
      /\ seed' \in [step: SeedSteps, product: Products \cup {None}]
      /\ SeedHasProduct'
      /\ opening' \in [Products -> Nat]
    BY <1>1, SeedCases, SeedProceeds
<1>3. /\ row' \in [Ids -> Row \cup {None}]
      /\ \A id \in Ids : Exists(id) => row'[id] # None
      /\ \A u \in Users : row'[u] # None =>
            row'[u].name \in Names /\ row'[u].detail \in Roles
      /\ audit' = audit
      /\ history' \in [Lists -> Seq(Validity)]
      /\ instant' = instant
      /\ synchronised' \in SUBSET Users
      /\ appointed' \in BOOLEAN
    BY <1>2, SeedKeepsTables
<1>4. DirectoryTypeOK'
    BY <1>2, <1>3 DEF DirectoryTypeOK, TypeInv, AdminTypeOK, Exists
<1>5. requests \in 0..MaxRequests /\ requests' \in 0..MaxRequests /\ requests' >= requests
    BY MaxRequestsAssumption DEF RunSeed, TypeInv, AdminTypeOK
<1>6. AdminTypeOK'
    BY <1>1, <1>4, <1>5 DEF TypeInv, AdminTypeOK
<1>7. SeedRunsAlone'
    BY <1>1 DEF SeedRunsAlone, NobodyAtWork
<1>8. ASSUME NEW c \in Clients PROVE RequestOK(c)'
  <2>1. session[c] # None => session[c].user \in Ids /\ Exists(session[c].user)
    <3>1. session[c] \in Token \cup {None} /\ RequestOK(c)
        BY DEF TypeInv, AdminTypeOK
    <3>2. Users \subseteq Ids
        BY DEF Ids
    <3>3. QED
        BY <3>1, <3>2 DEF Token, RequestOK
  <2>2. session'[c] # None => row'[session'[c].user] # None
      BY <1>1, <1>3, <2>1
  <2>3. request'[c] = Idle
      BY <1>1
  <2>4. /\ Idle.stage = "idle"
        /\ Idle.op \notin {"create", "update", "deactivate", "reactivate", "replace"}
      BY NoneIsNoOp DEF Idle, Ops, Writes
  <2>5. QED
      BY <2>2, <2>3, <2>4 DEF RequestOK, Exists
<1>9. QED
    BY <1>1, <1>2, <1>5, <1>6, <1>7, <1>8 DEF TypeInv

\* Every step keeps the invariant.
LEMMA TypeInvNext == TypeInv /\ [Next]_vars => TypeInv'
<1> SUFFICES ASSUME TypeInv, [Next]_vars PROVE TypeInv'
    OBVIOUS
<1>1. CASE UNCHANGED vars
    BY <1>1 DEF vars, directoryVars, requestVars, TypeInv, AdminTypeOK, DirectoryTypeOK,
        SeedRunsAlone, SeedIsRunning, SeedHasProduct, NobodyAtWork, RequestOK, Exists
<1>2. CASE RunSeed
    BY <1>2, SeedKeepsType
<1>3. ASSUME NEW c \in Clients, AuthNext(c)
      PROVE  TypeInv'
    BY <1>3, AccessKeepsType
<1>4. ASSUME NEW c \in Clients, ServicesNext(c)
      PROVE  TypeInv'
  <2>1. CASE QuietServiceSteps(c)
      BY <2>1, QuietServicesAdvance, AdvanceKeepsType
  <2>2. CASE WriteSteps(c)
    <3>1. PICK new \in Row : WritesRow(c, new) /\ appointed' \in BOOLEAN
        BY <2>2, WritesCommit
    <3>2. /\ DirectoryTypeOK'
          /\ \A other \in Ids : Exists(other) => row'[other] # None
          /\ seed' = seed
        BY <3>1, WriteKeepsTables DEF WritesRow
    <3>3. QED
        BY <2>2, <3>2, WritesCommit, CommitKeepsType
  <2>3. CASE CommitReplace(c)
    <3>1. /\ ReplaceCurrent(request[c].list, request[c].now)
          /\ request[c].list \in Lists /\ request[c].now \in Nat
          /\ Commit(c) /\ UNCHANGED <<session, requests>> /\ ~SeedIsRunning
        BY <2>3, ReplaceCommits
    <3>2. history' \in [Lists -> Seq(Validity)]
        BY <3>1, ReplaceKeepsHistoryTyped
    <3>3. DirectoryTypeOK'
        BY <3>1, <3>2 DEF ReplaceCurrent, TypeInv, AdminTypeOK, DirectoryTypeOK, Exists
    <3>4. seed' = seed /\ \A id \in Ids : Exists(id) => row'[id] # None
        BY <3>1 DEF ReplaceCurrent, TypeInv, AdminTypeOK, Exists
    <3>5. QED
        BY <3>1, <3>3, <3>4, CommitKeepsType
  <2>4. QED
      BY <1>4, <2>1, <2>2, <2>3, ServiceCases
<1>5. QED
    BY <1>1, <1>2, <1>3, <1>4 DEF Next

\* Every variable keeps its type, for any rows, names, clients and requests:
\* in particular a user always has an email and a role (UsersService).
THEOREM TypeCorrect == Spec => []AdminTypeOK
<1>1. TypeInv => AdminTypeOK
    BY DEF TypeInv
<1>2. QED
    BY <1>1, TypeInvInit, TypeInvNext, PTL DEF Spec

-----------------------------------------------------------------------------
(* The tables. *)

\* What a step may be, with what it does to the tables.
LEMMA StepCases ==
    ASSUME TypeInv, [Next]_vars
    PROVE  \/ UNCHANGED vars
           \/ /\ RunSeed /\ SeedShapes /\ UNCHANGED <<session, request>>
              /\ \A c \in Clients : request[c] = Idle
           \/ \E c \in Clients : AuthNext(c) /\ Quiet(c)
           \/ \E c \in Clients : QuietServiceSteps(c) /\ Advance(c)
           \/ \E c \in Clients : WriteSteps(c)
           \/ \E c \in Clients : CommitReplace(c)
<1>1. \A c \in Clients : AuthNext(c) => Quiet(c)
    BY AccessKeepsType
<1>2. \A c \in Clients : QuietServiceSteps(c) => Advance(c)
    BY QuietServicesAdvance
<1>3. \A c \in Clients :
        ServicesNext(c) => QuietServiceSteps(c) \/ WriteSteps(c) \/ CommitReplace(c)
    BY ServiceCases
<1>4. QED
    BY <1>1, <1>2, <1>3, SeedKeepsType DEF Next

\* A row may be written with this name: the index allows it, or it had it.
MayHaveName(id, name) == UniqueIndexAllows(id, name) \/ (Exists(id) /\ name = row[id].name)

\* The seed writes one row at most, and never a name that another one has.
LEMMA SeedWritesARow ==
    ASSUME TypeInv, SeedShapes
    PROVE  \/ row' = row
           \/ \E id \in Ids, new \in Row : SeedWrites(id, new) /\ MayHaveName(id, new.name)
<1>1. Users \subseteq Ids /\ Users \in TableNames /\ SeedNames \subseteq Names
    BY SeedNamesAssumption DEF Ids, TableNames
<1>2. ASSUME NEW u \in Users, NEW email \in Names, NEW role \in Roles,
             SeedWritesUser(u, email, role)
      PROVE  \E id \in Ids, new \in Row : SeedWrites(id, new) /\ MayHaveName(id, new.name)
  <2> DEFINE new == SeedRow(email, role)
  <2>1. new \in Row /\ new.name = email
      BY SeedRowOfType
  <2>2. MayHaveName(u, email)
      BY <1>1, <1>2, TableOfId DEF SeedWritesUser, Holders, MayHaveName, UniqueIndexAllows
  <2>3. SeedWrites(u, new)
      BY <1>2 DEF SeedWritesUser
  <2> HIDE DEF new
  <2>4. QED
      BY <1>1, <2>1, <2>2, <2>3
<1>3. ASSUME NEW id \in Ids \ Users, NEW name \in SeedNames, NEW detail \in SeedDetails,
             SeedInsertsRow(id, name, detail)
      PROVE  \E id2 \in Ids, new \in Row : SeedWrites(id2, new) /\ MayHaveName(id2, new.name)
  <2> DEFINE new == SeedRow(name, detail)
  <2>1. new \in Row /\ new.name = name
      BY <1>1, SeedRowOfType
  <2>2. MayHaveName(id, name)
      BY <1>3 DEF SeedInsertsRow, MayHaveName, UniqueIndexAllows
  <2>3. SeedWrites(id, new)
      BY <1>3 DEF SeedInsertsRow
  <2> HIDE DEF new
  <2>4. QED
      BY <2>1, <2>2, <2>3
<1>4. QED
    BY <1>2, <1>3 DEF SeedShapes, SeedOpensList, SeedGoesOn

\* A write that the unique index accepts keeps the keys unique.
LEMMA WriteKeepsKeys ==
    ASSUME TypeInv, KeysAreUnique, NEW id \in Ids, NEW new \in Row,
           row' = [row EXCEPT ![id] = new], MayHaveName(id, new.name)
    PROVE  KeysAreUnique'
<1>1. \A other \in Ids : row'[other] = IF other = id THEN new ELSE row[other]
    BY DEF TypeInv, AdminTypeOK, DirectoryTypeOK
<1>2. SUFFICES ASSUME NEW T \in TableNames, NEW id1 \in T, NEW id2 \in T,
                      Exists(id1)', Exists(id2)', id1 # id2
               PROVE  row'[id1].name # row'[id2].name \/ row'[id1].name = None
    BY DEF KeysAreUnique
<1>3. T \subseteq Ids
    BY DEF TableNames, Ids
<1>4. CASE id1 # id /\ id2 # id
    BY <1>1, <1>2, <1>3, <1>4 DEF KeysAreUnique, Exists
<1>5. ASSUME NEW other \in T, other # id, id \in T, row[other] # None
      PROVE  row[other].name # new.name \/ new.name = None
  <2>1. CASE UniqueIndexAllows(id, new.name)
    <3>1. new.name \in Names \cup {None}
        BY DEF Row
    <3>2. QED
        BY <1>5, <2>1, <3>1, TableOfId DEF UniqueIndexAllows, Holders, Exists
  <2>2. CASE Exists(id) /\ new.name = row[id].name
      BY <1>5, <2>2 DEF KeysAreUnique, Exists
  <2>3. QED
      BY <2>1, <2>2 DEF MayHaveName
<1>6. CASE id1 = id
    BY <1>1, <1>2, <1>3, <1>5, <1>6 DEF Exists
<1>7. CASE id2 = id
    BY <1>1, <1>2, <1>3, <1>5, <1>7 DEF Exists
<1>8. QED
    BY <1>4, <1>6, <1>7

\* Every step keeps the keys unique.
LEMMA KeysNext == TypeInv /\ KeysAreUnique /\ [Next]_vars => KeysAreUnique'
<1> SUFFICES ASSUME TypeInv, KeysAreUnique, [Next]_vars PROVE KeysAreUnique'
    OBVIOUS
<1>1. ASSUME row' = row PROVE KeysAreUnique'
    BY <1>1 DEF KeysAreUnique, Exists
<1>2. CASE UNCHANGED vars
    BY <1>1, <1>2 DEF vars, directoryVars
<1>3. CASE SeedShapes
  <2>1. CASE row' = row
      BY <1>1, <2>1
  <2>2. ASSUME NEW id \in Ids, NEW new \in Row, SeedWrites(id, new), MayHaveName(id, new.name)
        PROVE  KeysAreUnique'
      BY <2>2, WriteKeepsKeys DEF SeedWrites
  <2>3. QED
      BY <1>3, <2>1, <2>2, SeedWritesARow
<1>4. CASE \E c \in Clients : Quiet(c) \/ Advance(c) \/ CommitReplace(c)
    BY <1>1, <1>4 DEF Quiet, Advance, CommitReplace, ReplaceCurrent
<1>5. ASSUME NEW c \in Clients, WriteSteps(c) PROVE KeysAreUnique'
  <2>1. PICK new \in Row : WritesRow(c, new)
      BY <1>5, WritesCommit
  <2>2. QED
      BY <2>1, WriteKeepsKeys DEF WritesRow, Write, MayHaveName
<1>6. QED
    BY <1>2, <1>3, <1>4, <1>5, StepCases

\* Emails, names, codes and SKUs stay unique under any concurrent requests and
\* runs of the seed (the unique indexes of schema.prisma).
THEOREM KeysUnique == Spec => []KeysAreUnique
<1>1. Init => KeysAreUnique
    BY DEF Init, DirectoryInit, KeysAreUnique, Exists, TableNames, Ids
<1>2. QED
    BY <1>1, TypeInvInit, TypeInvNext, KeysNext, PTL DEF Spec

\* Only rows that exist have been audited.
AuditedExist == \A id \in Ids : audit[id] # None => Exists(id)

\* Every step keeps the audit trail true: the seed rewrites users only, by the
\* email they have.
LEMMA AuditNext ==
    TypeInv /\ AuditTellsCurrentRow /\ AuditedExist /\ [Next]_vars
        => AuditTellsCurrentRow' /\ AuditedExist'
<1> SUFFICES ASSUME TypeInv, AuditTellsCurrentRow, AuditedExist, [Next]_vars
             PROVE  AuditTellsCurrentRow' /\ AuditedExist'
    OBVIOUS
<1>0. /\ row \in [Ids -> Row \cup {None}] /\ audit \in [Ids -> Row \cup {None}]
      /\ Users \subseteq Ids /\ SeedNames \subseteq Names
    BY SeedNamesAssumption DEF TypeInv, AdminTypeOK, DirectoryTypeOK, Ids
<1>1. ASSUME UNCHANGED <<row, audit, synchronised>>
      PROVE  AuditTellsCurrentRow' /\ AuditedExist'
    BY <1>1 DEF AuditTellsCurrentRow, AuditedExist, Exists
<1>2. CASE UNCHANGED vars \/ \E c \in Clients : Quiet(c) \/ Advance(c) \/ CommitReplace(c)
    BY <1>1, <1>2 DEF vars, directoryVars, Quiet, Advance, CommitReplace, ReplaceCurrent
<1>3. ASSUME NEW u \in Users, NEW email \in Names, NEW role \in Roles,
             SeedWritesUser(u, email, role)
      PROVE  AuditTellsCurrentRow' /\ AuditedExist'
  <2> DEFINE new == SeedRow(email, role)
  <2>1. new \in Row /\ new.name = email
      BY SeedRowOfType
  <2>2. audit' = audit /\ row' = [row EXCEPT ![u] = new]
      BY <1>3 DEF SeedWritesUser, SeedWrites
  <2>3. \/ Exists(u) /\ row[u].name = email
           /\ synchronised' = synchronised \cup {v \in {u} : audit[v] # None}
        \/ ~Exists(u) /\ synchronised' = synchronised
      BY <1>3 DEF SeedWritesUser, Holders, Exists
  <2> HIDE DEF new
  <2>4. \A id \in Ids : row'[id] = IF id = u THEN new ELSE row[id]
      BY <1>0, <2>2
  <2>5. AuditedExist'
      BY <2>1, <2>2, <2>4, NoneIsNoRow DEF AuditedExist, Exists
  <2>6. ASSUME NEW id \in Ids, audit[id] # None
        PROVE  /\ row'[id].name = audit[id].name
               /\ id \notin synchronised' => row'[id] = audit[id]
    <3>1. Exists(id) /\ row[id].name = audit[id].name
          /\ (id \notin synchronised => row[id] = audit[id])
        BY <2>6 DEF AuditedExist, AuditTellsCurrentRow
    <3>2. CASE id = u
        BY <2>1, <2>3, <2>4, <2>6, <3>1, <3>2
    <3>3. CASE id # u
        BY <2>3, <2>4, <3>1, <3>3
    <3>4. QED
        BY <3>2, <3>3
  <2>7. QED
      BY <2>2, <2>5, <2>6 DEF AuditTellsCurrentRow
<1>4. ASSUME NEW id \in Ids \ Users, NEW name \in SeedNames, NEW detail \in SeedDetails,
             SeedInsertsRow(id, name, detail)
      PROVE  AuditTellsCurrentRow' /\ AuditedExist'
  <2> DEFINE new == SeedRow(name, detail)
  <2>1. UNCHANGED <<audit, synchronised>> /\ row' = [row EXCEPT ![id] = new] /\ ~Exists(id)
      BY <1>4 DEF SeedInsertsRow, SeedWrites, Exists
  <2> HIDE DEF new
  <2>2. \A other \in Ids : other # id => row'[other] = row[other]
      BY <1>0, <2>1
  <2>3. \A other \in Ids : audit[other] # None => other # id
      BY <2>1 DEF AuditedExist
  <2>4. QED
      BY <2>1, <2>2, <2>3 DEF AuditTellsCurrentRow, AuditedExist, Exists
<1>5. CASE SeedShapes
  <2>1. ASSUME (\E list \in Lists : SeedOpensList(list)) \/ SeedGoesOn
        PROVE  AuditTellsCurrentRow' /\ AuditedExist'
      BY <1>1, <2>1 DEF SeedOpensList, SeedGoesOn
  <2>2. QED
      BY <1>3, <1>4, <1>5, <2>1 DEF SeedShapes
<1>6. ASSUME NEW c \in Clients, WriteSteps(c)
      PROVE  AuditTellsCurrentRow' /\ AuditedExist'
  <2>1. PICK new \in Row : WritesRow(c, new)
      BY <1>6, WritesCommit
  <2> DEFINE id == request[c].id
  <2>2. /\ id \in Ids /\ synchronised' = synchronised \ {id}
        /\ \A other \in Ids : row'[other] = IF other = id THEN new ELSE row[other]
        /\ \A other \in Ids : audit'[other] = IF other = id THEN new ELSE audit[other]
      BY <1>0, <2>1 DEF WritesRow, Write
  <2> HIDE DEF id
  <2>3. QED
      BY <2>2, NoneIsNoRow DEF AuditTellsCurrentRow, AuditedExist, Exists
<1>7. QED
    BY <1>2, <1>5, <1>6, StepCases

\* However requests interleave, with one another and with runs of the seed, the
\* last audit row of an id tells the row as it is (AuditService.log in the
\* transaction of each service), but for the role and the flag of a user that
\* the seed has synchronised since.
THEOREM AuditCorrect == Spec => []AuditTellsCurrentRow
<1>1. Init => AuditTellsCurrentRow /\ AuditedExist
    BY DEF Init, DirectoryInit, AuditTellsCurrentRow, AuditedExist
<1>2. QED
    BY <1>1, TypeInvInit, TypeInvNext, AuditNext, PTL DEF Spec

-----------------------------------------------------------------------------
(* Costs and prices. *)

\* The rows of a list, one after another.
Contiguous(h) ==
    \A i \in DOMAIN h : h[i].to = IF i = Len(h) THEN None ELSE h[i + 1].from

\* A new row after the current one was closed at the same instant.
LEMMA AppendKeepsContiguous ==
    ASSUME NEW h \in Seq(Validity), Contiguous(h), NEW now \in Nat,
           NEW closed \in Seq(Validity), Len(closed) = Len(h),
           \A i \in DOMAIN h :
                closed[i] = IF IsCurrent(h[i]) THEN [h[i] EXCEPT !.to = now] ELSE h[i]
    PROVE  Contiguous(Append(closed, [from |-> now, to |-> None]))
<1> DEFINE new == Append(closed, [from |-> now, to |-> None])
<1>1. /\ Len(new) = Len(h) + 1 /\ DOMAIN new = 1..(Len(h) + 1)
      /\ \A i \in 1..Len(h) : new[i] = closed[i]
      /\ new[Len(h) + 1] = [from |-> now, to |-> None]
      /\ Len(h) \in Nat /\ DOMAIN h = 1..Len(h)
    OBVIOUS
<1> HIDE DEF new
<1>2. \A i \in 1..Len(h) : h[i] \in Validity
    BY <1>1
<1>3. \A i \in 1..Len(h) : new[i].from = h[i].from
    BY <1>1, <1>2 DEF Validity
<1>4. \A i \in 1..Len(h) : IsCurrent(h[i]) <=> i = Len(h)
  <2> SUFFICES ASSUME NEW i \in 1..Len(h) PROVE IsCurrent(h[i]) <=> i = Len(h)
      OBVIOUS
  <2>1. h[i].to = IF i = Len(h) THEN None ELSE h[i + 1].from
      BY <1>1 DEF Contiguous
  <2>2. i # Len(h) => h[i + 1].from \in Nat
      BY <1>1, <1>2 DEF Validity
  <2>3. QED
      BY <2>1, <2>2, NoneIsNoValue DEF IsCurrent
<1>5. ASSUME NEW i \in 1..Len(h)
      PROVE  new[i].to = IF i = Len(h) THEN now ELSE h[i].to
  <2>1. new[i] = IF i = Len(h) THEN [h[i] EXCEPT !.to = now] ELSE h[i]
      BY <1>1, <1>4
  <2>2. h[i] \in Validity
      BY <1>2
  <2>3. QED
      BY <2>1, <2>2 DEF Validity
<1>6. ASSUME NEW i \in 1..(Len(h) + 1)
      PROVE  new[i].to = IF i = Len(new) THEN None ELSE new[i + 1].from
  <2>1. CASE i = Len(h) + 1
      BY <1>1, <2>1
  <2>2. CASE i = Len(h)
      BY <1>1, <1>5, <2>2
  <2>3. CASE i < Len(h)
      BY <1>1, <1>3, <1>5, <2>3 DEF Contiguous
  <2>4. QED
      BY <1>1, <2>1, <2>2, <2>3
<1>7. QED
    BY <1>1, <1>6 DEF Contiguous, new

\* A function on 1..n is a sequence of length n.
LEMMA FunctionIsSequence ==
    ASSUME NEW S, NEW n \in Nat, NEW f, f = [i \in 1..n |-> f[i]], \A i \in 1..n : f[i] \in S
    PROVE  f \in Seq(S) /\ Len(f) = n
OBVIOUS

\* Every step keeps the histories contiguous.
LEMMA HistoryNext == TypeInv /\ HistoryIsContiguous /\ [Next]_vars => HistoryIsContiguous'
<1> SUFFICES ASSUME TypeInv, HistoryIsContiguous, [Next]_vars PROVE HistoryIsContiguous'
    OBVIOUS
<1>0. /\ history \in [Lists -> Seq(Validity)] /\ instant \in Nat
      /\ \A l \in Lists : Contiguous(history[l])
    BY DEF TypeInv, AdminTypeOK, DirectoryTypeOK, HistoryIsContiguous, Contiguous
<1>1. ASSUME \A l \in Lists : Contiguous(history'[l])
      PROVE  HistoryIsContiguous'
    BY <1>1 DEF HistoryIsContiguous, Contiguous
<1>2. ASSUME history' = history PROVE HistoryIsContiguous'
    BY <1>0, <1>1, <1>2
<1>3. ASSUME NEW list \in Lists, SeedOpensList(list) PROVE HistoryIsContiguous'
  <2> DEFINE h == history[list]
  <2>1. h \in Seq(Validity) /\ Contiguous(h)
      BY <1>0
  <2>2. h = <<>>
      BY <1>3, <2>1 DEF SeedOpensList, HasCurrent, Contiguous, IsCurrent
  <2>3. \A l \in Lists : history'[l] = IF l = list THEN Append(h, [from |-> instant, to |-> None])
                                                   ELSE history[l]
      BY <1>0, <1>3 DEF SeedOpensList, SeedAppends
  <2>4. Contiguous(Append(<<>>, [from |-> instant, to |-> None]))
      BY DEF Contiguous
  <2>5. QED
      BY <1>0, <1>1, <2>2, <2>3, <2>4
<1>4. CASE SeedShapes
  <2>1. ASSUME \/ \E u \in Users, email \in Names, role \in Roles : SeedWritesUser(u, email, role)
               \/ \E id \in Ids \ Users, name \in SeedNames, detail \in SeedDetails :
                    SeedInsertsRow(id, name, detail)
               \/ SeedGoesOn
        PROVE  history' = history
      BY <2>1 DEF SeedWritesUser, SeedInsertsRow, SeedGoesOn
  <2>2. QED
      BY <1>2, <1>3, <1>4, <2>1 DEF SeedShapes
<1>5. CASE UNCHANGED vars \/ \E c \in Clients : Quiet(c) \/ Advance(c)
    BY <1>2, <1>5 DEF vars, directoryVars, Quiet, Advance
<1>6. ASSUME NEW c \in Clients, WriteSteps(c) PROVE HistoryIsContiguous'
    BY <1>2, <1>6, WritesCommit DEF WritesRow, Write
<1>7. ASSUME NEW c \in Clients, CommitReplace(c) PROVE HistoryIsContiguous'
  <2> DEFINE list == request[c].list
  <2> DEFINE now == request[c].now
  <2>1. list \in Lists /\ now \in Nat /\ ReplaceCurrent(list, now)
      BY <1>7, ReplaceCommits
  <2> HIDE DEF list, now
  <2> DEFINE h == history[list]
  <2> DEFINE closed == CloseCurrent(list, now)
  <2>2. h \in Seq(Validity) /\ Contiguous(h)
      BY <1>0, <2>1
  <2>3. /\ DOMAIN closed = DOMAIN h
        /\ \A i \in DOMAIN h :
            closed[i] = IF IsCurrent(h[i]) THEN [h[i] EXCEPT !.to = now] ELSE h[i]
      BY DEF CloseCurrent
  <2>4. closed \in Seq(Validity) /\ Len(closed) = Len(h)
    <3>1. \A i \in DOMAIN h : h[i] \in Validity
        BY <2>2
    <3>2. \A i \in DOMAIN h :
            (IF IsCurrent(h[i]) THEN [h[i] EXCEPT !.to = now] ELSE h[i]) \in Validity
        BY <2>1, <3>1 DEF Validity
    <3>3. \A i \in 1..Len(h) : closed[i] \in Validity
      <4> SUFFICES ASSUME NEW i \in 1..Len(h) PROVE closed[i] \in Validity
          OBVIOUS
      <4>1. i \in DOMAIN h
          BY <2>2
      <4> HIDE DEF h, closed
      <4>2. QED
          BY <2>3, <3>2, <4>1, Zenon
    <3>4. closed = [i \in 1..Len(h) |-> closed[i]] /\ Len(h) \in Nat
        BY <2>2 DEF CloseCurrent
    <3>5. QED
        BY <3>3, <3>4, FunctionIsSequence
  <2>5. Contiguous(Append(closed, [from |-> now, to |-> None]))
      BY <2>1, <2>2, <2>3, <2>4, AppendKeepsContiguous
  <2>6. \A l \in Lists : history'[l] = IF l = list
            THEN Append(closed, [from |-> now, to |-> None]) ELSE history[l]
      BY <1>0, <2>1 DEF ReplaceCurrent
  <2>7. QED
      BY <1>0, <1>1, <2>5, <2>6
<1>8. QED
    BY <1>2, <1>4, <1>5, <1>6, <1>7, StepCases

\* The costs of a product, and its prices on a channel, leave no gap, however
\* many replacements race and retry (ProductPricesService.create).
THEOREM HistoryCorrect == Spec => []HistoryIsContiguous
<1>1. Init => HistoryIsContiguous
    BY DEF Init, DirectoryInit, HistoryIsContiguous
<1>2. QED
    BY <1>1, TypeInvInit, TypeInvNext, HistoryNext, PTL DEF Spec

-----------------------------------------------------------------------------
(* Fields. *)

\* Every step changes the fields that its request gives, or it is a
\* synchronisation of the seed.
LEMMA FieldsNext == TypeInv /\ [Next]_vars => [FieldsAreGiven]_vars
<1> SUFFICES ASSUME TypeInv, [Next]_vars PROVE FieldsAreGiven \/ UNCHANGED vars
    OBVIOUS
<1>0. row \in [Ids -> Row \cup {None}] /\ Users \subseteq Ids
    BY DEF TypeInv, AdminTypeOK, DirectoryTypeOK, Ids
<1>1. ASSUME row' = row PROVE FieldsAreGiven
    BY <1>1 DEF FieldsAreGiven
<1>2. CASE SeedShapes
  <2>1. ASSUME NEW u \in Users, NEW email \in Names, NEW role \in Roles,
               SeedWritesUser(u, email, role)
        PROVE  FieldsAreGiven
    <3> DEFINE new == SeedRow(email, role)
    <3>1. new \in Row /\ new.name = email
        BY SeedRowOfType
    <3>2. /\ row' = [row EXCEPT ![u] = new] /\ seed.step \in {"admin", "demo users"}
          /\ Exists(u) => row[u].name = email
        BY <2>1 DEF SeedWritesUser, SeedWrites, Holders, Exists
    <3> HIDE DEF new
    <3>3. \A id \in Ids : row'[id] = IF id = u THEN new ELSE row[id]
        BY <1>0, <3>2
    <3>4. \A id \in Ids : Exists(id) /\ row'[id] # row[id] => IsSynchronisedBySeed(id)
        BY <3>1, <3>2, <3>3 DEF IsSynchronisedBySeed
    <3>5. QED
        BY <3>4 DEF FieldsAreGiven
  <2>2. ASSUME NEW id \in Ids \ Users, NEW name \in SeedNames, NEW detail \in SeedDetails,
               SeedInsertsRow(id, name, detail)
        PROVE  FieldsAreGiven
    <3>1. row' = [row EXCEPT ![id] = SeedRow(name, detail)] /\ ~Exists(id)
        BY <2>2 DEF SeedInsertsRow, SeedWrites, Exists
    <3>2. \A other \in Ids : Exists(other) => row'[other] = row[other]
        BY <1>0, <3>1
    <3>3. QED
        BY <3>2 DEF FieldsAreGiven
  <2>3. ASSUME (\E list \in Lists : SeedOpensList(list)) \/ SeedGoesOn
        PROVE  row' = row
      BY <2>3 DEF SeedOpensList, SeedGoesOn
  <2>4. QED
      BY <1>1, <1>2, <2>1, <2>2, <2>3 DEF SeedShapes
<1>3. CASE \E c \in Clients : Quiet(c) \/ Advance(c) \/ CommitReplace(c)
    BY <1>1, <1>3 DEF Quiet, Advance, CommitReplace, ReplaceCurrent
<1>4. ASSUME NEW c \in Clients, WriteSteps(c) PROVE FieldsAreGiven
  <2> DEFINE r == request[c]
  <2> DEFINE old == row[r.id]
  <2> DEFINE FieldsOf(new) ==
        /\ new.name # old.name => new.name = r.given.name
        /\ new.detail # old.detail =>
                IF r.id \in Channels
                THEN r.op = "update" /\ new.detail = "NONE"
                ELSE new.detail = r.given.detail
        /\ new.active # old.active =>
                r.op = IF new.active THEN "reactivate" ELSE "deactivate"
  <2>1. PICK new \in Row : WritesRow(c, new)
      BY <1>4, WritesCommit
  <2>2. /\ r.id \in Ids /\ row'[r.id] = new
        /\ \A id \in Ids : id # r.id => row'[id] = row[id]
      BY <1>0, <2>1 DEF WritesRow, Write
  <2>3. request'[c] = Idle
      BY <1>4, WritesCommit DEF Commit
  <2>4. SUFFICES ASSUME Exists(r.id) PROVE FieldsOf(new)
    <3>1. FieldsOf(new) => IsChangedByRequest(r.id)
        BY <2>2, <2>3 DEF IsChangedByRequest
    <3> HIDE DEF FieldsOf
    <3>2. QED
        BY <2>2, <2>4, <3>1 DEF FieldsAreGiven
  <2>5. old \in Row
      BY <1>0, <2>2, <2>4 DEF Exists
  <2>6. CASE CommitCreate(c)
      BY <2>4, <2>6 DEF CommitCreate, Insert, Exists
  <2>7. CASE CommitUpdate(c)
    <3>1. new = Patch(r.id, old, r.given) /\ r.op = "update"
        BY <1>0, <2>2, <2>7 DEF CommitUpdate, Modify, Write, At
    <3>2. QED
        BY <3>1 DEF Patch
  <2>8. ASSUME NEW op \in {"deactivate", "reactivate"},
               CommitSetActive(c, op) \/ CommitSetUserActive(c, op)
        PROVE  FieldsOf(new)
    <3>1. /\ r.op = op
          /\ row' = [row EXCEPT ![r.id] = [row[r.id] EXCEPT !.active = (op = "reactivate")]]
        BY <2>8 DEF CommitSetActive, CommitSetUserActive, At, SetActive, Write
    <3>2. new = [old EXCEPT !.active = (op = "reactivate")]
        BY <1>0, <2>2, <3>1
    <3>3. /\ new.name = old.name /\ new.detail = old.detail
          /\ new.active = (op = "reactivate")
        BY <2>5, <3>2 DEF Row
    <3>4. QED
        BY <3>1, <3>3
  <2>9. QED
      BY <1>4, <2>6, <2>7, <2>8 DEF WriteSteps
<1>5. QED
    BY <1>2, <1>3, <1>4, StepCases

\* The updates of the services patch: a field changes only by a request that
\* gives it, whatever was read before, except that an update of a channel resets
\* its commission; a rerun of the seed changes no row but the users it finds by
\* their emails.
THEOREM FieldsCorrect == Spec => FieldsChangeByTheirRequests
<1>1. QED
    BY TypeInvInit, TypeInvNext, FieldsNext, PTL DEF Spec, FieldsChangeByTheirRequests

-----------------------------------------------------------------------------
(* Duplicates. *)

\* What the checks of a request still know, as long as nobody has raced it: the
\* row found is the row, and the name checked is free, unless it is empty.
CheckOK(c) ==
    LET r == request[c]
    IN  /\ r.stage = "session" => r.id = None
        /\ r.op = "replace" => r.id = None
        /\ r.stage \in {"timed", "read"} => r.op = "replace"
        /\ r.stage = "found" /\ r.op = "update" /\ ~r.raced => r.before = row[r.id]
        /\ r.stage \in {"named", "checked"} /\ r.id # None /\ r.given.name # Empty
           /\ ~r.raced => UniqueIndexAllows(r.id, r.given.name)

CheckInv == \A c \in Clients : CheckOK(c)

\* The table of a row, and the rows of other tables.
LEMMA TableOfRow ==
    ASSUME NEW id \in Ids
    PROVE  /\ TableOf(id) \in TableNames /\ id \in TableOf(id)
           /\ TableOf(id) \subseteq Ids
           /\ \A other \in TableOf(id) : TableOf(other) = TableOf(id)
<1>1. PICK T \in TableNames : id \in T
    BY DEF Ids, TableNames
<1>2. TableOf(id) = T
    BY <1>1, TableOfId
<1>3. T \subseteq Ids
    BY DEF TableNames, Ids
<1>4. QED
    BY <1>1, <1>2, <1>3, TableOfId

\* The steps of login, logout and the guards check nothing.
LEMMA AccessKeepsChecks ==
    ASSUME TypeInv, CheckInv, NEW c \in Clients, AuthNext(c)
    PROVE  CheckOK(c)'
<1> DEFINE r0 == request[c]
<1>0. /\ r0 \in Request /\ request \in [Clients -> Request]
    BY DEF TypeInv, AdminTypeOK
<1>1. ASSUME request'[c].stage \in {"idle", "login", "session", "elsewhere", "admitted"},
             request'[c].stage = "session" => request'[c].id = None,
             request'[c].op = "replace" => request'[c].id = None
      PROVE  CheckOK(c)'
    BY <1>1 DEF CheckOK
<1>2. /\ r0.stage = "session" => r0.id = None
      /\ r0.op = "replace" => r0.id = None
    BY DEF CheckInv, CheckOK
<1>3. Idle.op # "replace" /\ Idle.id = None /\ Idle.stage = "idle"
    BY NoneIsNoOp DEF Idle, Ops
<1>4. CASE (\E u \in Users : StartLogin(c, u)) \/ FinishLogin(c) \/ Arrive(c) \/ Fail(c)
  <2>1. CASE \E u \in Users : StartLogin(c, u)
    <3>1. request'[c].stage = "login" /\ request'[c].op = Idle.op
        BY <1>0, <2>1 DEF StartLogin, Request
    <3>2. QED
        BY <1>1, <1>3, <3>1
  <2>2. CASE FinishLogin(c) \/ Fail(c)
    <3>1. request'[c] = Idle
        BY <1>0, <2>2 DEF FinishLogin, Fail
    <3>2. QED
        BY <1>1, <1>3, <3>1
  <2>3. CASE Arrive(c)
    <3>1. /\ request'[c].stage = "session" /\ request'[c].op = Idle.op
          /\ request'[c].id = Idle.id
        BY <1>0, <2>3 DEF Arrive, Request
    <3>2. QED
        BY <1>1, <1>3, <3>1
  <2>4. QED
      BY <1>4, <2>1, <2>2, <2>3
<1>5. CASE EndSession(c)
  <2>1. request' = request /\ row' = row
      BY <1>5 DEF EndSession, directoryVars
  <2>2. QED
      BY <2>1 DEF CheckInv, CheckOK, UniqueIndexAllows, Holders, Exists
<1>6. ASSUME NEW op \in Writes, NEW id, NEW given, Admit(c, op, id, given)
      PROVE  CheckOK(c)'
  <2>1. request'[c].stage = "admitted" /\ request'[c].op = op
      BY <1>0, <1>6 DEF Admit, Request
  <2>2. op # "replace"
      BY DEF Writes
  <2>3. QED
      BY <1>1, <2>1, <2>2
<1>7. CASE \/ \E id \in Ids : \E name \in NamesOf(id) \cup {Undefined} :
              \E detail \in DetailsOf(id) \cup {Undefined} :
                LET given == [name |-> name, detail |-> detail]
                IN  AdmitCreate(c, id, given) \/ AdmitUpdate(c, id, given)
           \/ \E id \in Ids, op \in {"deactivate", "reactivate"} : AdmitSetActive(c, op, id)
  <2>1. {"create", "update", "deactivate", "reactivate"} \subseteq Writes
      BY DEF Writes
  <2>2. QED
      BY <1>6, <1>7, <2>1 DEF AdmitCreate, AdmitUpdate, AdmitSetActive
<1>8. CASE \E list \in Lists : AdmitReplace(c, list)
  <2>1. /\ request'[c].stage = "admitted" /\ request'[c].id = r0.id
        /\ r0.stage = "session"
      BY <1>0, <1>8 DEF AdmitReplace, IsAllowed, Request
  <2>2. QED
      BY <1>1, <1>2, <2>1
<1>9. CASE \E component \in DOMAIN Routes : \E handler \in DOMAIN Routes[component] :
                VisitElsewhere(c, component, handler)
  <2>1. PICK component, handler : VisitElsewhere(c, component, handler)
      BY <1>9
  <2>2. /\ request'[c].stage = "elsewhere" /\ request'[c].id = r0.id
        /\ request'[c].op = r0.op
      BY <1>0, <2>1 DEF VisitElsewhere, Request
  <2>3. QED
      BY <1>1, <1>2, <2>2
<1>10. QED
    BY <1>4, <1>5, <1>7, <1>8, <1>9 DEF AuthNext, Logout, Expire

\* A service's step that passes a check knows what it has checked.
LEMMA ServiceKeepsChecks ==
    ASSUME TypeInv, KeysAreUnique, CheckInv, NEW c \in Clients, QuietServiceSteps(c)
    PROVE  CheckOK(c)'
<1> DEFINE r == request[c]
<1>0. /\ r \in Request /\ request \in [Clients -> Request]
      /\ row' = row /\ r.stage \notin {"idle", "login", "session"}
    BY QuietServicesAdvance DEF TypeInv, AdminTypeOK, Advance
<1>1. /\ r.op = "replace" => r.id = None
      /\ r.stage \in {"timed", "read"} => r.op = "replace"
      /\ r.stage = "found" /\ r.op = "update" /\ ~r.raced => r.before = row[r.id]
      /\ r.stage \in {"named", "checked"} /\ r.id # None /\ r.given.name # Empty
         /\ ~r.raced => UniqueIndexAllows(r.id, r.given.name)
    BY DEF CheckInv, CheckOK
<1>2. ASSUME request'[c].op = r.op, request'[c].id = r.id, request'[c].given = r.given,
             request'[c].stage \in Stages \ {"session", "timed", "read", "found", "named", "checked"}
      PROVE  CheckOK(c)'
    BY <1>1, <1>2 DEF CheckOK
<1>3. ASSUME NEW stage \in {"found", "named", "checked"}, Stage(c, stage),
             stage = "found" => r.op = "replace",
             stage # "found" /\ r.id # None /\ r.given.name # Empty /\ ~r.raced =>
                UniqueIndexAllows(r.id, r.given.name)
      PROVE  CheckOK(c)'
  <2>1. /\ request'[c].op = r.op /\ request'[c].id = r.id /\ request'[c].given = r.given
        /\ request'[c].raced = r.raced /\ request'[c].stage = stage
      BY <1>0, <1>3 DEF Stage, Request
  <2>2. ASSUME r.id # None, r.given.name # Empty, ~r.raced, stage # "found"
        PROVE  UniqueIndexAllows(request[c].id, request[c].given.name)'
      BY <1>0, <1>3, <2>1, <2>2 DEF UniqueIndexAllows, Holders, Exists
  <2>3. QED
      BY <1>1, <1>3, <2>1, <2>2 DEF CheckOK
<1>4. CASE \E op \in Writes : Find(c, op)
  <2>1. /\ request'[c].op = r.op /\ request'[c].id = r.id
        /\ request'[c].before = row[r.id] /\ request'[c].stage = "found"
      BY <1>0, <1>4 DEF Find, Request
  <2>2. QED
      BY <1>0, <1>1, <2>1 DEF CheckOK
<1>5. ASSUME NEW except, NameIsFree(c, except), except \subseteq {r.id}, r.given.name # Empty
      PROVE  UniqueIndexAllows(r.id, r.given.name)
    BY <1>5, NoneIsNoValue, UndefinedIsNoValue DEF NameIsFree, IsLookedFor, UniqueIndexAllows
<1>6. ASSUME NEW next \in {"named", "checked"}, CheckNew(c, next) PROVE CheckOK(c)'
    BY <1>3, <1>5, <1>6 DEF CheckNew, PassCheck
<1>7. CASE CheckOther(c)
    BY <1>3, <1>5, <1>7 DEF CheckOther, PassCheck
<1>8. ASSUME NEW next \in {"named", "checked"}, CheckIfChanged(c, next) PROVE CheckOK(c)'
  <2>1. r.stage = "found" /\ r.op = "update" /\ Stage(c, next)
      BY <1>8 DEF CheckIfChanged, At, PassCheck
  <2>2. r.id \in Ids /\ Exists(r.id)
      BY <2>1 DEF TypeInv, RequestOK
  <2>3. ASSUME ~r.raced, r.given.name = r.before.name
        PROVE  UniqueIndexAllows(r.id, r.given.name)
    <3>1. r.given.name = row[r.id].name
        BY <1>1, <2>1, <2>3
    <3>2. \A other \in TableOf(r.id) :
            Exists(other) /\ other # r.id =>
                row[other].name # row[r.id].name \/ row[other].name = None
        BY <2>2, TableOfRow DEF KeysAreUnique
    <3>3. QED
        BY <3>1, <3>2, NoneIsNoValue DEF UniqueIndexAllows, Holders
  <2>4. QED
      BY <1>3, <1>5, <1>8, <2>1, <2>3 DEF CheckIfChanged
<1>9. CASE EnsureCategoryUsable(c)
    BY <1>1, <1>3, <1>9 DEF EnsureCategoryUsable, PassCheck
<1>10. CASE EnsureProductActive(c) \/ EnsureSalesChannelActive(c)
    BY <1>1, <1>3, <1>10 DEF EnsureProductActive, EnsureSalesChannelActive, At, PassCheck
<1>11. CASE \/ \E op \in {"deactivate", "reactivate"} : BeginSetUserActive(c, op)
            \/ RetrySetUserActive(c)
  <2>1. /\ request'[c].op = r.op /\ request'[c].id = r.id /\ request'[c].given = r.given
        /\ request'[c].stage \in {"counted", "admitted"}
    <3>1. CASE \E op \in {"deactivate", "reactivate"} : BeginSetUserActive(c, op)
      <4> DEFINE new == [r EXCEPT !.stage = "counted", !.before = row[r.id], !.raced = FALSE]
      <4>1. request'[c] = new
          BY <1>0, <3>1 DEF BeginSetUserActive
      <4>2. QED
          BY <1>0, <4>1 DEF Request
    <3>2. CASE RetrySetUserActive(c)
        BY <1>0, <3>2 DEF RetrySetUserActive, Request
    <3>3. QED
        BY <1>11, <3>1, <3>2
  <2>2. QED
      BY <1>2, <2>1 DEF Stages
<1>12. CASE TakeInstant(c) \/ ReadCurrent(c) \/ RetryReplace(c)
  <2>1. /\ request'[c].op = r.op /\ request'[c].id = r.id
        /\ request'[c].stage \in {"timed", "read", "checked"}
      BY <1>0, <1>12 DEF TakeInstant, ReadCurrent, RetryReplace, Request
  <2>2. r.op = "replace"
      BY <1>1, <1>12 DEF TakeInstant, ReadCurrent, RetryReplace, At
  <2>3. QED
      BY <1>1, <2>1, <2>2 DEF CheckOK
<1>13. QED
    BY <1>4, <1>6, <1>7, <1>8, <1>9, <1>10, <1>11, <1>12 DEF QuietServiceSteps

\* Every step keeps what the checks know.
LEMMA CheckNext == TypeInv /\ KeysAreUnique /\ CheckInv /\ [Next]_vars => CheckInv'
<1> SUFFICES ASSUME TypeInv, KeysAreUnique, CheckInv, [Next]_vars PROVE CheckInv'
    OBVIOUS
<1>0. request \in [Clients -> Request] /\ row \in [Ids -> Row \cup {None}]
    BY DEF TypeInv, AdminTypeOK, DirectoryTypeOK
<1>1. ASSUME NEW c \in Clients, request'[c] = request[c], row' = row PROVE CheckOK(c)'
    BY <1>1 DEF CheckInv, CheckOK, UniqueIndexAllows, Holders, Exists
<1>2. Idle.stage = "idle" /\ Idle.op # "replace" /\ Idle.id = None
    BY NoneIsNoOp DEF Idle, Ops
<1>3. CASE UNCHANGED vars
    BY <1>1, <1>3 DEF vars, directoryVars, requestVars, CheckInv
<1>4. CASE UNCHANGED request /\ \A c \in Clients : request[c] = Idle
    BY <1>2, <1>4 DEF CheckInv, CheckOK
<1>5. ASSUME NEW c \in Clients, Quiet(c), QuietServiceSteps(c) \/ AuthNext(c) PROVE CheckInv'
  <2>1. row' = row /\ \A d \in Clients \ {c} : request'[d] = request[d]
      BY <1>0, <1>5 DEF Quiet
  <2>2. CheckOK(c)'
      BY <1>5, AccessKeepsChecks, ServiceKeepsChecks
  <2>3. QED
      BY <1>1, <2>1, <2>2 DEF CheckInv
<1>6. ASSUME NEW c \in Clients, Commit(c), NEW d \in Clients,
             d # c, request[d].stage \notin {"idle", "login"}
      PROVE  /\ request'[d].stage = request[d].stage /\ request'[d].op = request[d].op
             /\ request'[d].id = request[d].id
  <2>1. \E raced, held : request'[d] = [[request[d] EXCEPT !.raced = raced] EXCEPT !.held = held]
      BY <1>6 DEF Commit
  <2>2. QED
      BY <1>0, <2>1 DEF Request
<1>7. ASSUME NEW c \in Clients, Commit(c), NEW d \in Clients,
             row' = row \/ WriteSteps(c)
      PROVE  CheckOK(d)'
  <2>1. CASE d = c
      BY <1>2, <1>7, <2>1 DEF CheckOK, Commit
  <2>2. CASE d # c /\ request[d].stage \in {"idle", "login"}
      BY <1>7, <2>2 DEF Commit, CheckInv, CheckOK
  <2>3. CASE d # c /\ request[d].stage \notin {"idle", "login"}
    <3> DEFINE r == request[d]
    <3>1. /\ request'[d].stage = r.stage /\ request'[d].op = r.op /\ request'[d].id = r.id
        BY <1>6, <1>7, <2>3
    <3>2. ASSUME r.stage \in {"found", "named", "checked"}, r.id # None, ~request'[d].raced
          PROVE  /\ ~r.raced
                 /\ request'[d].before = r.before /\ request'[d].given = r.given
                 /\ \A id \in TableOf(r.id) : row'[id] = row[id]
                 /\ r.id \in Ids
      <4>1. /\ ~r.raced /\ ~OvertakesCheck(r, request[c])
            /\ request'[d].before = r.before /\ request'[d].given = r.given
          BY <1>7, <2>3, <3>1, <3>2, CommitLeaves
      <4>2. r.id \in Ids
          BY <1>0, <3>2 DEF Request
      <4>3. CASE WriteSteps(c)
        <5>1. PICK new \in Row : WritesRow(c, new)
            BY <4>3, WritesCommit
        <5>2. /\ request[c].id \in Ids
              /\ \A id \in Ids \ {request[c].id} : row'[id] = row[id]
            BY <1>0, <5>1 DEF WritesRow, Write
        <5>3. TableOf(r.id) # TableOf(request[c].id)
            BY <3>2, <4>1, <5>2, NoneIsNoValue DEF OvertakesCheck
        <5>4. QED
            BY <4>1, <4>2, <5>2, <5>3, TableOfRow
      <4>4. QED
          BY <1>7, <4>1, <4>2, <4>3
    <3>3. ASSUME r.stage = "found", r.op = "update", ~request'[d].raced
          PROVE  request'[d].before = row'[request'[d].id]
      <4>1. r.id \in Ids /\ r.id # None
          BY <3>3, NoneIsNoValue DEF TypeInv, RequestOK
      <4>2. r.id \in TableOf(r.id)
          BY <4>1, TableOfRow
      <4>3. QED
          BY <3>1, <3>2, <3>3, <4>1, <4>2 DEF CheckInv, CheckOK
    <3>4. ASSUME r.stage \in {"named", "checked"}, r.id # None, ~request'[d].raced,
                 request'[d].given.name # Empty
          PROVE  UniqueIndexAllows(request[d].id, request[d].given.name)'
      <4>1. /\ \A id \in TableOf(r.id) : row'[id] = row[id]
            /\ ~r.raced /\ request'[d].given = r.given
          BY <3>2, <3>4
      <4>2. UniqueIndexAllows(r.id, r.given.name)
          BY <3>4, <4>1 DEF CheckInv, CheckOK
      <4>3. QED
          BY <3>1, <4>1, <4>2 DEF UniqueIndexAllows, Holders, Exists
    <3>5. QED
        BY <3>1, <3>3, <3>4 DEF CheckInv, CheckOK
  <2>4. QED
      BY <2>1, <2>2, <2>3
<1>8. CASE \E c \in Clients : WriteSteps(c)
    BY <1>7, <1>8, WritesCommit DEF CheckInv
<1>9. CASE \E c \in Clients : CommitReplace(c)
    BY <1>7, <1>9 DEF CommitReplace, ReplaceCurrent, CheckInv
<1>10. QED
    BY <1>3, <1>4, <1>5, <1>8, <1>9, StepCases, AdvanceKeepsType

\* ensureSkuUnique and its like: the unique index refuses a write only when
\* another request has written the table since the check, or when the value is
\* the empty SKU, which no check looks for.
THEOREM DuplicatesCorrect == Spec => []DuplicatesNeedARace
<1>1. Init => KeysAreUnique /\ CheckInv
  <2>1. Init => KeysAreUnique
      BY DEF Init, DirectoryInit, KeysAreUnique, Exists, TableNames, Ids
  <2>2. Init => CheckInv
      BY NoneIsNoOp DEF Init, CheckInv, CheckOK, Idle, Ops
  <2>3. QED
      BY <2>1, <2>2
<1>2. CheckInv => DuplicatesNeedARace
    BY DEF CheckInv, CheckOK, DuplicatesNeedARace
<1>3. QED
    BY <1>1, <1>2, TypeInvInit, TypeInvNext, KeysNext, CheckNext, PTL DEF Spec

-----------------------------------------------------------------------------
(* The seed. *)

\* No run books an opening stock twice, and from its step on the product of the
\* run has a current cost.
SeedAlways ==
    /\ \A p \in Products : opening[p] <= 1
    /\ seed.step \in {"prices", "stock", "done"} => HasCurrent(<<seed.product, None>>)

\* A list that has a current row keeps one: a replacement opens what it closes.
LEMMA CurrentStays ==
    ASSUME TypeInv, [Next]_vars, NEW list \in Lists, HasCurrent(list)
    PROVE  HasCurrent(list)'
<1>0. history \in [Lists -> Seq(Validity)]
    BY DEF TypeInv, AdminTypeOK, DirectoryTypeOK
<1>1. ASSUME history'[list] = history[list] PROVE HasCurrent(list)'
    BY <1>1 DEF HasCurrent
<1>2. CASE \/ UNCHANGED vars
           \/ \E c \in Clients : Quiet(c) \/ Advance(c) \/ \E new \in Row : WritesRow(c, new)
    BY <1>1, <1>2 DEF vars, directoryVars, Quiet, Advance, WritesRow, Write
<1>3. CASE SeedShapes
  <2>1. ASSUME NEW l \in Lists, SeedOpensList(l)
        PROVE  HasCurrent(list)'
    <3>1. l # list
        BY <2>1 DEF SeedOpensList
    <3>2. QED
        BY <1>0, <1>1, <2>1, <3>1 DEF SeedOpensList, SeedAppends
  <2>2. QED
      BY <1>1, <1>3, <2>1 DEF SeedShapes, SeedWritesUser, SeedInsertsRow, SeedGoesOn
<1>4. ASSUME NEW c \in Clients, CommitReplace(c) PROVE HasCurrent(list)'
  <2> DEFINE l == request[c].list
  <2> DEFINE now == request[c].now
  <2>1. l \in Lists /\ now \in Nat /\ ReplaceCurrent(l, now)
      BY <1>4, ReplaceCommits
  <2> HIDE DEF l, now
  <2> DEFINE h == Append(CloseCurrent(l, now), [from |-> now, to |-> None])
  <2>2. history' = [history EXCEPT ![l] = h] /\ h \in Seq(Validity)
    <3>1. history' \in [Lists -> Seq(Validity)]
        BY <2>1, ReplaceKeepsHistoryTyped
    <3>2. history' = [history EXCEPT ![l] = h]
        BY <2>1 DEF ReplaceCurrent
    <3>3. history'[l] = h
        BY <1>0, <2>1, <3>2
    <3> HIDE DEF h
    <3>4. QED
        BY <2>1, <3>1, <3>2, <3>3
  <2>3. \E i \in DOMAIN h : h[i].to = None
    <3>1. CloseCurrent(l, now) = [i \in 1..Len(history[l]) |-> CloseCurrent(l, now)[i]]
        BY <1>0, <2>1 DEF CloseCurrent
    <3>2. CloseCurrent(l, now) \in Seq(Validity)
      <4>1. \A i \in 1..Len(history[l]) : history[l][i] \in Validity
          BY <1>0, <2>1
      <4>2. \A i \in 1..Len(history[l]) :
              (IF IsCurrent(history[l][i]) THEN [history[l][i] EXCEPT !.to = now]
                                           ELSE history[l][i]) \in Validity
          BY <2>1, <4>1 DEF Validity
      <4>3. DOMAIN history[l] = 1..Len(history[l]) /\ Len(history[l]) \in Nat
          BY <1>0, <2>1
      <4>4. QED
          BY <4>2, <4>3 DEF CloseCurrent
    <3> DEFINE n == Len(CloseCurrent(l, now)) + 1
    <3>3. n \in DOMAIN h /\ h[n] = [from |-> now, to |-> None]
        BY <3>2
    <3>4. QED
        BY <3>3
  <2> HIDE DEF h
  <2>4. CASE list = l
    <3>1. history'[list] = h
        BY <1>0, <2>1, <2>2, <2>4
    <3>2. QED
        BY <2>3, <3>1 DEF HasCurrent, IsCurrent
  <2>5. CASE list # l
      BY <1>0, <1>1, <2>1, <2>2, <2>5
  <2>6. QED
      BY <2>4, <2>5
<1>5. QED
    BY <1>2, <1>3, <1>4, StepCases, WritesCommit

\* Every step keeps that.
LEMMA SeedAlwaysNext == TypeInv /\ SeedAlways /\ [Next]_vars => SeedAlways'
<1> SUFFICES ASSUME TypeInv, SeedAlways, [Next]_vars PROVE SeedAlways'
    OBVIOUS
<1>0. /\ seed \in [step: SeedSteps, product: Products \cup {None}]
      /\ history \in [Lists -> Seq(Validity)] /\ instant \in Nat
      /\ seed.step \in {"cost", "prices", "stock", "done"} =>
            seed.product \in Products /\ <<seed.product, None>> \in Lists
    BY DEF TypeInv, AdminTypeOK, DirectoryTypeOK, SeedHasProduct, Lists
<1>1. ASSUME UNCHANGED <<opening, seed>> PROVE SeedAlways'
  <2> DEFINE list == <<seed.product, None>>
  <2>1. seed.step \in {"prices", "stock", "done"} => list \in Lists /\ HasCurrent(list)
      BY <1>0 DEF SeedAlways
  <2>2. seed.step \in {"prices", "stock", "done"} =>
            \E i \in DOMAIN history'[list] : IsCurrent(history'[list][i])
      BY <2>1, CurrentStays DEF HasCurrent
  <2>3. QED
      BY <1>1, <2>2 DEF SeedAlways, HasCurrent
<1>2. CASE \/ UNCHANGED vars
           \/ \E c \in Clients : \/ Quiet(c) \/ Advance(c) \/ CommitReplace(c)
                                 \/ \E new \in Row : WritesRow(c, new)
    BY <1>1, <1>2 DEF vars, directoryVars, Quiet, Advance, WritesRow, Write,
        CommitReplace, ReplaceCurrent
<1>3. CASE RunSeed
  <2>1. \A p \in Products : opening'[p] <= 1
      BY <1>3, SeedProceeds DEF RunSeed, SeedAlways
  <2>2. ASSUME seed'.step \notin {"prices", "stock", "done"} PROVE SeedAlways'
      BY <2>1, <2>2 DEF SeedAlways
  <2>3. ASSUME seed'.step \in {"prices", "stock", "done"}
        PROVE  /\ seed'.product = seed.product /\ seed.product \in Products
               /\ seed.step = "cost" \/ seed.step \in {"prices", "stock", "done"}
               /\ seed.step = "cost" => EnsureCurrentCost
    <3>1. ASSUME NEW step \in SeedSteps, SeedGoesTo(step)
          PROVE  seed'.step = step /\ seed'.product = seed.product
        BY <1>0, <3>1 DEF SeedGoesTo
    <3>2. {"demo users", "categories", "channels", "banks", "tables", "product",
           "prices", "stock", "done"} \subseteq SeedSteps
        BY DEF SeedSteps
    <3>3. CASE \/ \E email \in Names \ {Empty} : SeedAdmin(email)
               \/ \E email \in Names \ {Empty}, role \in DemoRoles : SeedDemoUser(email, role)
               \/ EndDemoUsers
        BY <2>3, <3>1, <3>2, <3>3 DEF SeedAdmin, SeedDemoUser, EndDemoUsers
    <3>4. CASE EnsureCategories \/ EnsureSalesChannels \/ EnsurePaymentBanks \/ EnsureRestaurantTables
        BY <2>3, <3>1, <3>2, <3>4 DEF EnsureCategories, EnsureSalesChannels,
            EnsurePaymentBanks, EnsureRestaurantTables, EnsureRows
    <3>5. CASE EnsureDemoProduct \/ StartSeed \/ SeedDies
        BY <2>3, <3>5 DEF EnsureDemoProduct, StartSeed, SeedDies
    <3>6. CASE EnsureCurrentCost
        BY <1>0, <3>1, <3>2, <3>6 DEF EnsureCurrentCost
    <3>7. CASE EnsureCurrentPrice \/ EnsureInitialStock \/ SeedFindsStock
        BY <1>0, <3>1, <3>2, <3>7 DEF EnsureCurrentPrice, EnsureInitialStock, SeedFindsStock
    <3>8. QED
        BY <1>3, <3>3, <3>4, <3>5, <3>6, <3>7 DEF RunSeed, SeedNext
  <2>4. CASE seed'.step \in {"prices", "stock", "done"} /\ seed.step = "cost"
    <3> DEFINE list == <<seed.product, None>>
    <3>1. EnsureCurrentCost /\ list \in Lists /\ seed'.product = seed.product
        BY <1>0, <2>3, <2>4
    <3>2. CASE HasCurrent(list)
      <4>1. \E i \in DOMAIN history'[list] : IsCurrent(history'[list][i])
          BY <3>1, <3>2, CurrentStays DEF HasCurrent
      <4>2. QED
          BY <2>1, <3>1, <4>1 DEF SeedAlways, HasCurrent
    <3>3. CASE ~HasCurrent(list)
      <4> DEFINE first == [from |-> instant, to |-> None]
      <4>1. history'[list] = Append(history[list], first)
          BY <1>0, <3>1, <3>3 DEF EnsureCurrentCost, SeedAppends
      <4> DEFINE n == Len(history[list]) + 1
      <4>2. n \in DOMAIN history'[list] /\ history'[list][n] = first
        <5>1. history[list] \in Seq(Validity)
            BY <1>0, <3>1
        <5> HIDE DEF first, list
        <5>2. QED
            BY <4>1, <5>1
      <4>3. \E i \in DOMAIN history'[list] : IsCurrent(history'[list][i])
          BY <4>2 DEF IsCurrent
      <4>4. QED
          BY <2>1, <3>1, <4>3 DEF SeedAlways, HasCurrent
    <3>4. QED
        BY <3>2, <3>3
  <2>5. CASE seed'.step \in {"prices", "stock", "done"} /\ seed.step # "cost"
    <3> DEFINE list == <<seed.product, None>>
    <3>1. list \in Lists /\ HasCurrent(list) /\ seed'.product = seed.product
        BY <1>0, <2>3, <2>5 DEF SeedAlways
    <3>2. \E i \in DOMAIN history'[list] : IsCurrent(history'[list][i])
        BY <3>1, CurrentStays DEF HasCurrent
    <3>3. QED
        BY <2>1, <3>1, <3>2 DEF SeedAlways, HasCurrent
  <2>6. QED
      BY <2>2, <2>4, <2>5
<1>4. QED
    BY <1>2, <1>3, StepCases, WritesCommit

\* Every name of the seed's lists is in the table.
Filled(T) == SeedNames \subseteq Found(T)

\* Whatever exists is active and of the seed's lists; a product has a category.
SeedRowsOK ==
    \A id \in Ids : Exists(id) =>
        /\ row[id].active
        /\ id \notin Users => row[id].name \in SeedNames
        /\ id \in Products => row[id].detail \in Categories /\ Exists(row[id].detail)

\* A list has one row at most.
SeedOnceOK == \A l \in Lists : Len(history[l]) <= 1

\* What the steps of this run of the seed have left behind.
SeedStepsOK ==
    /\ seed.step \notin {"off", "admin", "demo users", "categories"} => Filled(Categories)
    /\ seed.step \notin {"off", "admin", "demo users", "categories", "channels"} =>
            Filled(Channels)
    /\ seed.step \in {"tables", "product", "cost", "prices", "stock", "done"} => Filled(Banks)
    /\ seed.step \in {"product", "cost", "prices", "stock", "done"} => Filled(Tables)
    /\ seed.step \in {"cost", "prices", "stock", "done"} => Exists(seed.product)
    /\ seed.step \in {"prices", "stock", "done"} => Len(history[<<seed.product, None>>]) = 1
    /\ seed.step \in {"stock", "done"} =>
            \A ch \in Channels : Exists(ch) => Len(history[<<seed.product, ch>>]) = 1
    /\ seed.step = "done" => opening[seed.product] = 1

\* The tables are the seed's as long as there has been no request.
SeedInv == requests = 0 => SeedRowsOK /\ SeedOnceOK /\ SeedStepsOK

\* A row that the seed writes takes nothing away.
LEMMA SeedWriteKeeps ==
    ASSUME TypeInv, SeedRowsOK, NEW id \in Ids, NEW name \in Names,
           NEW detail \in Roles \cup SeedDetails,
           id \notin Users => row[id] = None /\ name \in SeedNames,
           id \in Products => detail \in Categories /\ Exists(detail),
           SeedWrites(id, SeedRow(name, detail))
    PROVE  /\ SeedRowsOK'
           /\ \A other \in Ids : Exists(other) => Exists(other)'
           /\ \A other \in Ids : Exists(other)' => Exists(other) \/ other = id
           /\ Exists(id)'
           /\ \A T \in {Categories, Channels, Banks, Tables} : Filled(T) => Filled(T)'
<1> DEFINE new == SeedRow(name, detail)
<1>1. new \in Row /\ new.active /\ new.detail = detail /\ new.name = name
    BY SeedRowOfType
<1>2. row \in [Ids -> Row \cup {None}] /\ row' = [row EXCEPT ![id] = new]
    BY DEF TypeInv, AdminTypeOK, DirectoryTypeOK, SeedWrites
<1> HIDE DEF new
<1>3. \A other \in Ids : row'[other] = IF other = id THEN new ELSE row[other]
    BY <1>2
<1>4. /\ \A other \in Ids : Exists(other) => Exists(other)'
      /\ \A other \in Ids : Exists(other)' => Exists(other) \/ other = id
      /\ Exists(id)'
    BY <1>1, <1>3, NoneIsNoRow DEF Exists
<1>5. Categories \subseteq Ids
    BY DEF Ids
<1>6. SeedRowsOK'
  <2> SUFFICES ASSUME NEW other \in Ids, Exists(other)'
               PROVE  /\ row'[other].active
                      /\ other \notin Users => row'[other].name \in SeedNames
                      /\ other \in Products =>
                            /\ row'[other].detail \in Categories
                            /\ row'[row'[other].detail] # None
      BY DEF SeedRowsOK, Exists
  <2>1. CASE other = id
    <3>1. row'[other] = new
        BY <1>3, <2>1
    <3>2. QED
        BY <1>1, <1>4, <1>5, <2>1, <3>1 DEF Exists
  <2>2. CASE other # id
    <3>1. row'[other] = row[other] /\ Exists(other)
        BY <1>3, <1>4, <2>2
    <3>2. /\ row[other].active
          /\ other \notin Users => row[other].name \in SeedNames
          /\ other \in Products => row[other].detail \in Categories /\ Exists(row[other].detail)
        BY <3>1 DEF SeedRowsOK
    <3>3. other \in Products => row'[row[other].detail] # None
        BY <1>4, <1>5, <3>2 DEF Exists
    <3>4. QED
        BY <3>1, <3>2, <3>3
  <2>3. QED
      BY <2>1, <2>2
<1>7. ASSUME NEW T \in {Categories, Channels, Banks, Tables}, Filled(T)
      PROVE  Filled(T)'
  <2> SUFFICES ASSUME NEW n \in SeedNames PROVE Holders(T, n)' # {}
      BY DEF Filled, Found
  <2>1. PICK other \in T : Exists(other) /\ row[other].name = n
      BY <1>7 DEF Filled, Found, Holders
  <2>2. T \subseteq Ids /\ T \cap Users = {}
      BY IdsAreDisjoint DEF Ids
  <2>3. other \in Ids /\ other # id
      BY <2>1, <2>2 DEF Exists
  <2>4. Exists(other)' /\ row'[other].name = n
      BY <1>3, <1>4, <2>1, <2>3
  <2>5. QED
      BY <2>4 DEF Holders
<1>8. QED
    BY <1>4, <1>6, <1>7

\* ensureCurrentCost and ensureCurrentPrice open a list once.
LEMMA SeedAppendsOnce ==
    ASSUME TypeInv, HistoryIsContiguous, SeedOnceOK, NEW list \in Lists,
           (HasCurrent(list) /\ UNCHANGED history) \/ (~HasCurrent(list) /\ SeedAppends(list))
    PROVE  /\ SeedOnceOK'
           /\ Len(history'[list]) = 1
           /\ \A l \in Lists : Len(history[l]) = 1 => Len(history'[l]) = 1
<1> DEFINE h == history[list]
<1>1. /\ h \in Seq(Validity) /\ Len(h) \in Nat /\ Len(h) <= 1 /\ DOMAIN h = 1..Len(h)
      /\ history \in [Lists -> Seq(Validity)]
    BY DEF TypeInv, AdminTypeOK, DirectoryTypeOK, SeedOnceOK
<1>2. \A i \in DOMAIN h : i = Len(h) => IsCurrent(h[i])
    BY DEF HistoryIsContiguous, IsCurrent
<1>3. HasCurrent(list) <=> Len(h) = 1
  <2>1. Len(h) = 1 => 1 \in DOMAIN h /\ IsCurrent(h[1])
      BY <1>1, <1>2
  <2>2. HasCurrent(list) => DOMAIN h # {}
      BY DEF HasCurrent
  <2> HIDE DEF h
  <2>3. DOMAIN h # {} => Len(h) = 1
      BY <1>1
  <2>4. QED
      BY <2>1, <2>2, <2>3 DEF h, HasCurrent
<1>4. CASE HasCurrent(list) /\ UNCHANGED history
    BY <1>3, <1>4 DEF SeedOnceOK
<1>5. CASE ~HasCurrent(list) /\ SeedAppends(list)
  <2> DEFINE first == [from |-> instant, to |-> None]
  <2>1. Len(Append(h, first)) = Len(h) + 1
      BY <1>1
  <2>2. \A l \in Lists : history'[l] = IF l = list THEN Append(h, first) ELSE history[l]
      BY <1>1, <1>5 DEF SeedAppends
  <2>3. Len(h) = 0 /\ Len(history[list]) = 0
      BY <1>1, <1>3, <1>5
  <2> HIDE DEF h, first
  <2>4. Len(history'[list]) = 1
      BY <2>1, <2>2, <2>3
  <2>5. \A l \in Lists : l # list => history'[l] = history[l]
      BY <2>2
  <2>6. \A l \in Lists : Len(history'[l]) <= 1
    <3> SUFFICES ASSUME NEW l \in Lists PROVE Len(history'[l]) <= 1
        OBVIOUS
    <3>1. CASE l = list
      <4>1. Len(history'[l]) = 1
          BY <2>4, <3>1
      <4>2. 1 <= 1
          OBVIOUS
      <4>3. QED
          BY <4>1, <4>2, Zenon
    <3>2. CASE l # list
        BY <2>5, <3>2 DEF SeedOnceOK
    <3>3. QED
        BY <3>1, <3>2
  <2>7. \A l \in Lists : Len(history[l]) = 1 => Len(history'[l]) = 1
      BY <2>3, <2>5
  <2>8. QED
      BY <2>4, <2>6, <2>7 DEF SeedOnceOK
<1>6. QED
    BY <1>4, <1>5

\* Every step of the seed keeps what it has done, and adds its own.
LEMMA SeedStepKeeps ==
    ASSUME TypeInv, HistoryIsContiguous, SeedAlways, SeedRowsOK, SeedOnceOK, SeedStepsOK,
           SeedNext
    PROVE  SeedRowsOK' /\ SeedOnceOK' /\ SeedStepsOK'
<1>0. /\ seed \in [step: SeedSteps, product: Products \cup {None}]
      /\ seed.step \in {"cost", "prices", "stock"} => seed.product \in Products
      /\ opening \in [Products -> Nat]
      /\ SeedNames \subseteq Names
      /\ Users \subseteq Ids /\ Categories \subseteq Ids /\ Channels \subseteq Ids
      /\ Banks \subseteq Ids /\ Tables \subseteq Ids /\ Products \subseteq Ids
    BY SeedNamesAssumption DEF TypeInv, AdminTypeOK, DirectoryTypeOK, SeedHasProduct, Ids
<1>1. /\ {"demo users", "categories", "channels", "banks", "tables", "product",
          "cost", "prices", "stock", "done"} \subseteq SeedSteps
      /\ {None} \in SUBSET SeedDetails /\ SeedCommissions \in SUBSET SeedDetails
    BY SeedCommissionsAssumption DEF SeedSteps, SeedDetails
<1>2. ASSUME NEW step \in SeedSteps, SeedGoesTo(step)
      PROVE  seed'.step = step /\ seed'.product = seed.product
    BY <1>0, <1>2 DEF SeedGoesTo
<1>3. ASSUME row' = row PROVE SeedRowsOK' /\ \A T : Filled(T)' = Filled(T)
    BY <1>3 DEF SeedRowsOK, Filled, Found, Holders, Exists
<1>4. ASSUME UNCHANGED history PROVE SeedOnceOK'
    BY <1>4 DEF SeedOnceOK
<1>5. ASSUME seed'.step \in {"off", "admin", "demo users", "categories"},
             UNCHANGED history, SeedRowsOK'
      PROVE  SeedRowsOK' /\ SeedOnceOK' /\ SeedStepsOK'
    BY <1>4, <1>5 DEF SeedStepsOK
<1>6. ASSUME NEW email \in Names, NEW role \in Roles, EnsureUser(email, role)
      PROVE  SeedRowsOK' /\ UNCHANGED history
  <2>1. PICK u \in Users : SeedWrites(u, SeedRow(email, role))
      BY <1>6 DEF EnsureUser, Holders
  <2>2. u \notin Products
      BY IdsAreDisjoint
  <2>3. QED
      BY <1>0, <1>6, <2>1, <2>2, SeedWriteKeeps DEF EnsureUser
<1>7. ASSUME NEW T \in {Categories, Channels, Banks, Tables}, NEW step, NEW next \in SeedSteps,
             NEW found, found = Found(T) \/ (found = FoundChannels /\ T = Channels),
             NEW details \in SUBSET SeedDetails,
             EnsureRows(T, step, next, found, details)
      PROVE  /\ SeedRowsOK' /\ SeedOnceOK'
             /\ \A T2 \in {Categories, Channels, Banks, Tables} : Filled(T2) => Filled(T2)'
             /\ seed.step = step
             /\ seed'.step = step \/ (seed'.step = next /\ Filled(T)')
  <2>0. T \subseteq Ids /\ T \cap Users = {} /\ T \cap Products = {}
      BY <1>0, IdsAreDisjoint
  <2>1. CASE SeedNames \subseteq found /\ SeedGoesTo(next) /\ UNCHANGED row
    <3>1. Filled(T)
      <4>1. CASE found = Found(T)
          BY <2>1, <4>1 DEF Filled
      <4>2. CASE found = FoundChannels /\ T = Channels
        <5>1. \A id \in Channels : Exists(id) => row[id].name \in SeedNames
            BY <2>0, <4>2 DEF SeedRowsOK
        <5>2. \A name : FoundByEither(Channels, name) = Holders(Channels, name)
            BY <5>1 DEF FoundByEither, Holders
        <5>3. QED
            BY <2>1, <4>2, <5>2 DEF Filled, Found, FoundChannels
      <4>3. QED
          BY <1>7, <4>1, <4>2
    <3>2. QED
        BY <1>2, <1>3, <1>4, <1>7, <2>1, <3>1 DEF EnsureRows
  <2>2. CASE \E name \in SeedNames, id \in T, detail \in details :
                /\ IsNextId(id, T)
                /\ SeedWrites(id, SeedRow(name, detail))
                /\ UNCHANGED seed
    <3>1. PICK name \in SeedNames, id \in T, detail \in details :
                /\ IsNextId(id, T)
                /\ SeedWrites(id, SeedRow(name, detail))
                /\ UNCHANGED seed
        BY <2>2
    <3>2. /\ id \in Ids /\ id \notin Products /\ id \notin Users /\ name \in Names
          /\ row[id] = None /\ detail \in SeedDetails
        BY <1>0, <2>0, <3>1 DEF IsNextId
    <3>3. /\ SeedRowsOK'
          /\ \A T2 \in {Categories, Channels, Banks, Tables} : Filled(T2) => Filled(T2)'
        BY <3>1, <3>2, SeedWriteKeeps
    <3>4. QED
        BY <1>4, <1>7, <3>1, <3>3 DEF EnsureRows
  <2>3. QED
      BY <1>7, <2>1, <2>2 DEF EnsureRows
<1>8. CASE \/ \E email \in Names \ {Empty} : SeedAdmin(email)
           \/ \E email \in Names \ {Empty}, role \in DemoRoles : SeedDemoUser(email, role)
           \/ EndDemoUsers \/ StartSeed \/ SeedDies
  <2>1. "ADMIN" \in Roles /\ DemoRoles \subseteq Roles
      BY DemoRolesAssumption DEF Roles
  <2>2. CASE \E email \in Names \ {Empty} : SeedAdmin(email)
    <3>1. SeedRowsOK' /\ UNCHANGED history
        BY <1>6, <2>1, <2>2 DEF SeedAdmin
    <3>2. seed'.step = "demo users"
        BY <1>1, <1>2, <2>2 DEF SeedAdmin
    <3>3. QED
        BY <1>5, <3>1, <3>2
  <2>3. CASE \E email \in Names \ {Empty}, role \in DemoRoles : SeedDemoUser(email, role)
    <3>1. SeedRowsOK' /\ UNCHANGED history
        BY <1>6, <2>1, <2>3 DEF SeedDemoUser
    <3>2. seed'.step = "demo users"
        BY <2>3 DEF SeedDemoUser
    <3>3. QED
        BY <1>5, <3>1, <3>2
  <2>4. CASE EndDemoUsers
      BY <1>1, <1>2, <1>3, <1>5, <2>4 DEF EndDemoUsers
  <2>5. CASE StartSeed \/ SeedDies
    <3>1. PICK step \in {"admin", "off"} : seed' = [step |-> step, product |-> None]
        BY <2>5 DEF StartSeed, SeedDies
    <3>2. seed'.step \in {"admin", "off"}
        BY <3>1
    <3>3. QED
        BY <1>3, <1>5, <2>5, <3>2 DEF StartSeed, SeedDies
  <2>6. QED
      BY <1>8, <2>2, <2>3, <2>4, <2>5
<1>9. CASE EnsureCategories \/ EnsureSalesChannels \/ EnsurePaymentBanks \/ EnsureRestaurantTables
  <2>1. CASE EnsureCategories
    <3>1. EnsureRows(Categories, "categories", "channels", Found(Categories), {None})
        BY <2>1 DEF EnsureCategories
    <3>2. /\ SeedRowsOK' /\ SeedOnceOK' /\ seed.step = "categories"
          /\ seed'.step = "categories" \/ (seed'.step = "channels" /\ Filled(Categories)')
          /\ Filled(Categories) => Filled(Categories)'
          /\ Filled(Channels) => Filled(Channels)'
          /\ Filled(Banks) => Filled(Banks)'
        BY <1>1, <1>7, <3>1
    <3>3. QED
        BY <3>2 DEF SeedStepsOK
  <2>2. CASE EnsureSalesChannels
    <3>1. EnsureRows(Channels, "channels", "banks", FoundChannels, SeedCommissions)
        BY <2>2 DEF EnsureSalesChannels
    <3>2. /\ SeedRowsOK' /\ SeedOnceOK' /\ seed.step = "channels"
          /\ seed'.step = "channels" \/ (seed'.step = "banks" /\ Filled(Channels)')
          /\ Filled(Categories) => Filled(Categories)'
          /\ Filled(Channels) => Filled(Channels)'
          /\ Filled(Banks) => Filled(Banks)'
        BY <1>1, <1>7, <3>1
    <3>3. QED
        BY <3>2 DEF SeedStepsOK
  <2>3. CASE EnsurePaymentBanks
    <3>1. EnsureRows(Banks, "banks", "tables", Found(Banks), {None})
        BY <2>3 DEF EnsurePaymentBanks
    <3>2. /\ SeedRowsOK' /\ SeedOnceOK' /\ seed.step = "banks"
          /\ seed'.step = "banks" \/ (seed'.step = "tables" /\ Filled(Banks)')
          /\ Filled(Categories) => Filled(Categories)'
          /\ Filled(Channels) => Filled(Channels)'
          /\ Filled(Banks) => Filled(Banks)'
        BY <1>1, <1>7, <3>1
    <3>3. QED
        BY <3>2 DEF SeedStepsOK
  <2>4. CASE EnsureRestaurantTables
    <3>1. EnsureRows(Tables, "tables", "product", Found(Tables), {None})
        BY <2>4 DEF EnsureRestaurantTables
    <3>2. /\ SeedRowsOK' /\ SeedOnceOK' /\ seed.step = "tables"
          /\ seed'.step = "tables" \/ (seed'.step = "product" /\ Filled(Tables)')
          /\ Filled(Categories) => Filled(Categories)'
          /\ Filled(Channels) => Filled(Channels)'
          /\ Filled(Banks) => Filled(Banks)'
        BY <1>1, <1>7, <3>1
    <3>3. QED
        BY <3>2 DEF SeedStepsOK
  <2>5. QED
      BY <1>9, <2>1, <2>2, <2>3, <2>4
<1>10. CASE EnsureDemoProduct
  <2>1. PICK name \in SeedNames, p \in Products :
            /\ \/ /\ p \in FoundByEither(Products, name)
                  /\ UNCHANGED row
               \/ \E category \in SeedNames : \E cat \in Holders(Categories, category) :
                  /\ IsNextId(p, Products)
                  /\ SeedWrites(p, SeedRow(name, cat))
            /\ seed' = [step |-> "cost", product |-> p]
      BY <1>10 DEF EnsureDemoProduct
  <2>2. /\ seed'.step = "cost" /\ seed'.product = p
        /\ seed.step = "product" /\ UNCHANGED history
      BY <1>10, <2>1 DEF EnsureDemoProduct
  <2>3. /\ Filled(Categories) /\ Filled(Channels) /\ Filled(Banks) /\ Filled(Tables)
      BY <2>2 DEF SeedStepsOK
  <2>4. /\ SeedRowsOK' /\ Exists(p)'
        /\ \A T2 \in {Categories, Channels, Banks, Tables} : Filled(T2) => Filled(T2)'
    <3>1. CASE p \in FoundByEither(Products, name) /\ UNCHANGED row
        BY <1>3, <3>1 DEF FoundByEither, Holders, Exists
    <3>2. CASE \E category \in SeedNames : \E cat \in Holders(Categories, category) :
                    /\ IsNextId(p, Products)
                    /\ SeedWrites(p, SeedRow(name, cat))
      <4>1. PICK cat \in Categories :
                    Exists(cat) /\ IsNextId(p, Products) /\ SeedWrites(p, SeedRow(name, cat))
          BY <3>2 DEF Holders
      <4>2. /\ p \in Ids /\ p \notin Users /\ name \in Names /\ row[p] = None
            /\ cat \in SeedDetails
          BY <1>0, <4>1, IdsAreDisjoint DEF IsNextId, SeedDetails
      <4>3. QED
          BY <4>1, <4>2, SeedWriteKeeps
    <3>3. QED
        BY <2>1, <3>1, <3>2
  <2>5. (Exists(seed.product))'
      BY <2>2, <2>4 DEF Exists
  <2>6. QED
      BY <1>4, <2>2, <2>3, <2>4, <2>5 DEF SeedStepsOK
<1>11. ASSUME seed.step \in {"cost", "prices", "stock"}, UNCHANGED row, SeedOnceOK',
              seed'.product = seed.product
       PROVE  /\ SeedRowsOK'
              /\ Filled(Categories)' /\ Filled(Channels)' /\ Filled(Banks)' /\ Filled(Tables)'
              /\ Exists(seed.product)'
  <2>1. /\ Filled(Categories) /\ Filled(Channels) /\ Filled(Banks) /\ Filled(Tables)
        /\ Exists(seed.product)
      BY <1>11 DEF SeedStepsOK
  <2>2. QED
      BY <1>3, <1>11, <2>1 DEF Exists
<1>12. CASE EnsureCurrentCost
  <2> DEFINE list == <<seed.product, None>>
  <2>1. /\ seed.step = "cost" /\ seed'.step = "prices" /\ seed'.product = seed.product
        /\ UNCHANGED row /\ list \in Lists
      BY <1>0, <1>1, <1>2, <1>12 DEF EnsureCurrentCost, Lists
  <2>2. SeedOnceOK' /\ Len(history'[list]) = 1
    <3>1. (HasCurrent(list) /\ UNCHANGED history) \/ (~HasCurrent(list) /\ SeedAppends(list))
        BY <1>12 DEF EnsureCurrentCost
    <3> HIDE DEF list
    <3>2. QED
        BY <2>1, <3>1, SeedAppendsOnce
  <2>3. QED
      BY <1>11, <2>1, <2>2 DEF SeedStepsOK
<1>13. CASE EnsureCurrentPrice
  <2>1. \A ch \in Channels : Exists(ch) => ch \in SeedChannels
      BY <1>0, IdsAreDisjoint DEF SeedChannels, SeedRowsOK
  <2>2. seed.step = "prices" /\ UNCHANGED <<row, opening>> /\ seed.product \in Products
      BY <1>0, <1>13 DEF EnsureCurrentPrice
  <2>3. Len(history[<<seed.product, None>>]) = 1 /\ <<seed.product, None>> \in Lists
      BY <2>2 DEF SeedStepsOK, Lists
  <2>4. CASE \E ch \in SeedChannels :
                ~HasCurrent(<<seed.product, ch>>) /\ SeedAppends(<<seed.product, ch>>) /\ UNCHANGED seed
    <3>1. PICK ch \in SeedChannels :
                ~HasCurrent(<<seed.product, ch>>) /\ SeedAppends(<<seed.product, ch>>) /\ UNCHANGED seed
        BY <2>4
    <3> DEFINE list == <<seed.product, ch>>
    <3>2. list \in Lists
        BY <2>2 DEF Lists, SeedChannels
    <3>3. SeedOnceOK' /\ Len(history'[<<seed.product, None>>]) = 1
        BY <2>3, <3>1, <3>2, SeedAppendsOnce
    <3>4. seed'.step = "prices" /\ seed'.product = seed.product
        BY <2>2, <3>1
    <3>5. QED
        BY <1>11, <2>2, <3>3, <3>4 DEF SeedStepsOK
  <2>5. CASE /\ \A ch \in SeedChannels : HasCurrent(<<seed.product, ch>>)
             /\ SeedGoesTo("stock")
             /\ UNCHANGED history
    <3>1. \A ch \in Channels : Exists(ch) => Len(history[<<seed.product, ch>>]) = 1
      <4> SUFFICES ASSUME NEW ch \in Channels, Exists(ch)
                   PROVE  Len(history[<<seed.product, ch>>]) = 1
          OBVIOUS
      <4> DEFINE list == <<seed.product, ch>>
      <4>1. list \in Lists /\ HasCurrent(list)
          BY <2>1, <2>2, <2>5 DEF Lists
      <4>2. Len(history'[list]) = 1
        <5> HIDE DEF list
        <5>1. QED
            BY <2>5, <4>1, SeedAppendsOnce
      <4>3. QED
          BY <2>5, <4>2
    <3>2. seed'.step = "stock" /\ seed'.product = seed.product
        BY <1>1, <1>2, <2>5
    <3>3. \A ch \in Channels : Exists(ch)' = Exists(ch)
        BY <2>2 DEF Exists
    <3>4. \A ch \in Channels : Exists(ch)' => Len(history'[<<seed'.product, ch>>]) = 1
        BY <2>5, <3>1, <3>2, <3>3
    <3>5. Len(history'[<<seed'.product, None>>]) = 1
        BY <2>3, <2>5, <3>2
    <3>6. QED
        BY <1>4, <1>11, <2>2, <2>5, <3>2, <3>4, <3>5 DEF SeedStepsOK
  <2>6. QED
      BY <1>13, <2>4, <2>5 DEF EnsureCurrentPrice
<1>14. CASE EnsureInitialStock
  <2>1. /\ seed.step = "stock" /\ seed'.step = "done" /\ seed'.product = seed.product
        /\ UNCHANGED <<row, history>> /\ seed.product \in Products
      BY <1>0, <1>1, <1>2, <1>14 DEF EnsureInitialStock
  <2>2. opening'[seed.product] = 1
      BY <1>0, <1>14, <2>1 DEF EnsureInitialStock, SeedAlways
  <2>3. /\ Len(history'[<<seed'.product, None>>]) = 1
        /\ \A ch \in Channels : Exists(ch)' => Len(history'[<<seed'.product, ch>>]) = 1
      BY <2>1 DEF SeedStepsOK, Exists
  <2>4. opening'[seed'.product] = 1
      BY <2>1, <2>2
  <2>5. QED
      BY <1>4, <1>11, <2>1, <2>3, <2>4 DEF SeedStepsOK
<1>15. QED
    BY <1>8, <1>9, <1>10, <1>12, <1>13, <1>14 DEF SeedNext

\* Every step keeps the invariant of the seed: only requests write, and they are
\* counted before they do.
LEMMA SeedInvNext ==
    TypeInv /\ HistoryIsContiguous /\ SeedAlways /\ SeedInv /\ [Next]_vars => SeedInv'
<1> SUFFICES ASSUME TypeInv, HistoryIsContiguous, SeedAlways, SeedInv, [Next]_vars,
                    requests' = 0
             PROVE  SeedRowsOK' /\ SeedOnceOK' /\ SeedStepsOK'
    BY DEF SeedInv
<1>0. requests \in Nat
    BY MaxRequestsAssumption DEF TypeInv, AdminTypeOK
<1>1. ASSUME requests = 0, UNCHANGED <<row, history, opening, seed>>
      PROVE  SeedRowsOK' /\ SeedOnceOK' /\ SeedStepsOK'
  <2>1. /\ \A T : Filled(T)' = Filled(T)
        /\ \A id : Exists(id)' = Exists(id)
      BY <1>1 DEF Filled, Found, Holders, Exists
  <2>2. SeedRowsOK' /\ SeedOnceOK'
      BY <1>1, <2>1 DEF SeedInv, SeedRowsOK, SeedOnceOK
  <2>3. Exists(seed.product)' = Exists(seed.product)
      BY <1>1 DEF Exists
  <2>4. SeedStepsOK'
      BY <1>1, <2>1, <2>3 DEF SeedInv, SeedStepsOK
  <2>5. QED
      BY <2>2, <2>4
<1>2. CASE UNCHANGED vars
    BY <1>1, <1>2 DEF vars, directoryVars, requestVars
<1>3. CASE RunSeed
  <2>1. requests = 0
      BY <1>0, <1>3, SeedKeepsType
  <2>2. SeedNext
      BY <1>0, <1>3, <2>1 DEF RunSeed, SeedFindsStock
  <2>3. QED
      BY <2>1, <2>2, SeedStepKeeps DEF SeedInv
<1>4. ASSUME NEW c \in Clients, Quiet(c)
      PROVE  SeedRowsOK' /\ SeedOnceOK' /\ SeedStepsOK'
    BY <1>0, <1>1, <1>4 DEF Quiet
<1>5. ASSUME NEW c \in Clients, Advance(c)
      PROVE  SeedRowsOK' /\ SeedOnceOK' /\ SeedStepsOK'
    BY <1>4, <1>5, AdvanceKeepsType
<1>6. ASSUME NEW c \in Clients, WriteSteps(c) \/ CommitReplace(c)
      PROVE  FALSE
  <2>1. request[c].stage \notin {"idle", "login", "session"} /\ requests' = requests
      BY <1>6, WritesCommit, ReplaceCommits
  <2>2. requests > 0
      BY <2>1 DEF TypeInv, RequestOK
  <2>3. QED
      BY <2>1, <2>2
<1>7. QED
    BY <1>2, <1>3, <1>4, <1>5, <1>6, StepCases

\* What a finished run has left behind is what converging means.
LEMMA SeedInvConverges ==
    ASSUME TypeInv, KeysAreUnique, SeedAlways, SeedInv PROVE SeedConverges
<1> SUFFICES ASSUME seed.step = "done", requests = 0
             PROVE  ListsAreThere /\ DemoProductIsReady
    BY DEF SeedConverges, SeedAlways
<1> DEFINE p == seed.product
<1>1. SeedRowsOK /\ SeedOnceOK /\ SeedStepsOK
    BY DEF SeedInv
<1>2. /\ Filled(Categories) /\ Filled(Channels) /\ Filled(Banks) /\ Filled(Tables)
      /\ p \in Products /\ Exists(p)
      /\ Len(history[<<p, None>>]) = 1 /\ opening[p] = 1
      /\ \A ch \in Channels : Exists(ch) => Len(history[<<p, ch>>]) = 1
    BY <1>1 DEF SeedStepsOK, TypeInv, SeedHasProduct
<1>3. ASSUME NEW name \in SeedNames, NEW T \in TableNames \ {Users, Products}
      PROVE  \E id \in T : Holders(T, name) = {id} /\ IsActive(id)
  <2>1. Filled(T) /\ T \in TableNames /\ T \subseteq Ids
      BY <1>2 DEF TableNames, Ids
  <2>2. PICK id \in T : Exists(id) /\ row[id].name = name
      BY <2>1 DEF Filled, Found, Holders
  <2>3. name # None
      BY SeedNamesAssumption, NoneIsNoValue
  <2>4. \A other \in T : Exists(other) /\ row[other].name = name => other = id
      BY <2>1, <2>2, <2>3 DEF KeysAreUnique
  <2>5. Holders(T, name) = {id}
      BY <2>2, <2>4 DEF Holders
  <2>6. IsActive(id)
      BY <1>1, <2>1, <2>2 DEF SeedRowsOK, IsActive
  <2>7. QED
      BY <2>5, <2>6
<1>4. IsActive(p) /\ IsActive(row[p].detail)
  <2>1. Products \subseteq Ids /\ Categories \subseteq Ids
      BY DEF Ids
  <2>2. row[p].active /\ row[p].detail \in Categories /\ Exists(row[p].detail)
      BY <1>1, <1>2, <2>1 DEF SeedRowsOK
  <2>3. row[row[p].detail].active
      BY <1>1, <2>1, <2>2 DEF SeedRowsOK
  <2>4. QED
      BY <1>2, <2>2, <2>3 DEF IsActive
<1>5. \A ch \in {ch2 \in Channels : Exists(ch2)} \cup {None} : Len(history[<<p, ch>>]) = 1
    BY <1>2
<1>6. QED
    BY <1>2, <1>3, <1>4, <1>5 DEF ListsAreThere, DemoProductIsReady

\* However often the seed runs, and wherever a run dies, no run books an opening
\* stock twice, a run that ends leaves a current cost, and before the first
\* request it leaves everything of its lists once and active, and a demo product
\* with its category, cost, prices and one opening stock (prisma/seed.ts).
THEOREM SeedCorrect == Spec => []SeedConverges
<1>1. Init => KeysAreUnique /\ HistoryIsContiguous /\ SeedAlways /\ SeedInv
  <2> SUFFICES ASSUME Init PROVE KeysAreUnique /\ HistoryIsContiguous /\ SeedAlways /\ SeedInv
      OBVIOUS
  <2>1. KeysAreUnique
      BY DEF Init, DirectoryInit, KeysAreUnique, Exists, TableNames, Ids
  <2>2. HistoryIsContiguous
      BY DEF Init, DirectoryInit, HistoryIsContiguous
  <2>3. SeedRowsOK
      BY DEF Init, DirectoryInit, SeedRowsOK, Exists
  <2>4. SeedOnceOK
      BY DEF Init, DirectoryInit, SeedOnceOK
  <2>5. SeedAlways
      BY DEF Init, DirectoryInit, SeedAlways
  <2>6. seed.step = "off"
      BY DEF Init, DirectoryInit
  <2>7. SeedStepsOK
      BY <2>6 DEF SeedStepsOK
  <2>8. QED
      BY <2>1, <2>2, <2>3, <2>4, <2>5, <2>7 DEF SeedInv
<1>2. QED
    BY <1>1, SeedInvConverges, SeedInvNext, SeedAlwaysNext, TypeInvInit, TypeInvNext, KeysNext,
       HistoryNext, PTL DEF Spec
==============================================================================
