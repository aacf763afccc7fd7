------------------------------ MODULE AccessProofs ------------------------------
(***************************************************************************)
(* Theorems about who may do what in Administration: the roles that let a  *)
(* request through, and the administrator that remains.                    *)
(***************************************************************************)
EXTENDS AdministrationProofs

-----------------------------------------------------------------------------
(* Routes. *)

KnownRoles(component, handler) ==
    DocumentedRoles(component, handler) \cup UndocumentedRoles(component, handler)

\* No route of a controller is open to a role that the documentation denies, but
\* for the one that is known.
LEMMA RoutesAreDocumented ==
    \A component \in DOMAIN Routes : \A handler \in DOMAIN Routes[component] :
        AllowedRoles(component, handler) \subseteq KnownRoles(component, handler)
<1> USE DEF DocumentedRoles, ReadHandlers, Reads, Writes, Roles, Management, Floor, Oversight,
        MasterDataRoutes
<1>1. \A h \in DOMAIN UserRoutes : UserRoutes[h] \subseteq DocumentedRoles("users", h)
    BY DEF UserRoutes
<1>2. \A component \in {"categories", "salesChannels", "paymentBanks", "tables", "products"} :
      \A h \in Reads \cup Writes :
        MasterDataRoutes(Roles, Management)[h] \subseteq DocumentedRoles(component, h)
    OBVIOUS
<1>3. \A h \in DOMAIN CostRoutes : CostRoutes[h] \subseteq DocumentedRoles("costs", h)
    BY DEF CostRoutes
<1>4. \A h \in DOMAIN PriceRoutes : PriceRoutes[h] \subseteq KnownRoles("prices", h)
    BY DEF PriceRoutes, KnownRoles, UndocumentedRoles
<1>5. \A h \in DOMAIN StockQueryRoutes : StockQueryRoutes[h] \subseteq DocumentedRoles("stock", h)
    BY DEF StockQueryRoutes
<1>6. \A h \in DOMAIN StockMovementRoutes :
        StockMovementRoutes[h] \subseteq DocumentedRoles("movements", h)
    BY DEF StockMovementRoutes
<1>7. \A h \in DOMAIN TicketRoutes : TicketRoutes[h] \subseteq DocumentedRoles("tickets", h)
  <2>1. \A h \in {"findAll", "findOne"} : DocumentedRoles("tickets", h) = Roles
      OBVIOUS
  <2>2. \A h \in {"create", "update"} : DocumentedRoles("tickets", h) = Floor
      OBVIOUS
  <2> HIDE DEF DocumentedRoles, ReadHandlers
  <2>3. QED
      BY <2>1, <2>2 DEF TicketRoutes
<1>8. \A h \in DOMAIN TicketItemRoutes :
        TicketItemRoutes[h] \subseteq DocumentedRoles("ticketItems", h)
    BY DEF TicketItemRoutes
<1>9. \A h \in DOMAIN TicketClosingRoutes :
        TicketClosingRoutes[h] \subseteq DocumentedRoles("ticketClosing", h)
    BY DEF TicketClosingRoutes
<1>10. \A h \in DOMAIN TableOrderRoutes :
        TableOrderRoutes[h] \subseteq DocumentedRoles("tableOrders", h)
  <2> DEFINE reads == {"findAll", "findCurrentByTable", "findOne"}
  <2> DEFINE others == {"open", "cancel", "addItem", "updateItem", "removeItem", "close"}
  <2>1. \A h \in reads : DocumentedRoles("tableOrders", h) = Roles
      OBVIOUS
  <2>2. \A h \in others : DocumentedRoles("tableOrders", h) = Floor
      OBVIOUS
  <2>3. /\ DOMAIN TableOrderRoutes = reads \cup others
        /\ \A h \in reads : TableOrderRoutes[h] = Roles
        /\ \A h \in others : TableOrderRoutes[h] = Floor
      BY DEF TableOrderRoutes
  <2> HIDE DEF reads, others, DocumentedRoles
  <2>4. QED
      BY <2>1, <2>2, <2>3
<1>11. \A h \in DOMAIN ReportRoutes : ReportRoutes[h] \subseteq DocumentedRoles("reports", h)
    BY DEF ReportRoutes
<1>12. \A h \in DOMAIN AuditRoutes : AuditRoutes[h] \subseteq DocumentedRoles("audit", h)
    BY DEF AuditRoutes
<1>13. \A h \in DOMAIN MetricsRoutes : MetricsRoutes[h] \subseteq DocumentedRoles("metrics", h)
    BY DEF MetricsRoutes
<1>14. \A h \in DOMAIN PosRoutes : PosRoutes[h] \subseteq DocumentedRoles("pos", h)
    BY DEF PosRoutes
<1>15. \A h \in DOMAIN OptionRoutes : OptionRoutes[h] \subseteq DocumentedRoles("options", h)
    BY DEF OptionRoutes
<1>16. DOMAIN Routes = {"users", "categories", "salesChannels", "paymentBanks", "tables",
        "products", "costs", "prices", "stock", "movements", "tickets", "ticketItems",
        "ticketClosing", "tableOrders", "reports", "audit", "metrics", "pos", "options"}
    BY DEF Routes
<1>17. /\ Routes["users"] = UserRoutes /\ Routes["costs"] = CostRoutes
       /\ Routes["prices"] = PriceRoutes /\ Routes["stock"] = StockQueryRoutes
       /\ Routes["movements"] = StockMovementRoutes /\ Routes["tickets"] = TicketRoutes
       /\ Routes["ticketItems"] = TicketItemRoutes
       /\ Routes["ticketClosing"] = TicketClosingRoutes
       /\ Routes["tableOrders"] = TableOrderRoutes /\ Routes["reports"] = ReportRoutes
       /\ Routes["audit"] = AuditRoutes /\ Routes["metrics"] = MetricsRoutes
       /\ Routes["pos"] = PosRoutes /\ Routes["options"] = OptionRoutes
    BY DEF Routes
<1>18. \A component \in {"categories", "salesChannels", "paymentBanks", "tables", "products"} :
        /\ Routes[component] = MasterDataRoutes(Roles, Management)
        /\ DOMAIN Routes[component] = Reads \cup Writes
  <2>1. DOMAIN MasterDataRoutes(Roles, Management) = Reads \cup Writes
      OBVIOUS
  <2> HIDE DEF MasterDataRoutes
  <2>2. QED
      BY <2>1 DEF Routes, CategoryRoutes, SalesChannelRoutes, PaymentBankRoutes, TableRoutes,
          ProductRoutes
<1> HIDE DEF DocumentedRoles, ReadHandlers, Reads, Writes, Roles, Management, Floor, Oversight,
        MasterDataRoutes
<1>19. \A component, handler :
        DocumentedRoles(component, handler) \subseteq KnownRoles(component, handler)
    BY DEF KnownRoles
<1>20. \A component \in DOMAIN Routes \ {"prices"} : \A handler \in DOMAIN Routes[component] :
        Routes[component][handler] \subseteq DocumentedRoles(component, handler)
    BY <1>1, <1>2, <1>3, <1>5, <1>6, <1>7, <1>8, <1>9, <1>10, <1>11, <1>12, <1>13,
       <1>14, <1>15, <1>16, <1>17, <1>18
<1>21. QED
    BY <1>4, <1>17, <1>19, <1>20 DEF AllowedRoles

-----------------------------------------------------------------------------
(* Permissions of a request. *)

\* A request collects every role its user has while it runs, and is let through
\* by one of them.
PermissionOK(c) ==
    LET r == request[c]
    IN  /\ r.stage \notin {"idle", "login"} => RolesIn(row, c) \subseteq r.held
        /\ r.stage \notin {"idle", "login", "session"} =>
                r.held \cap (r.documented \cup r.undocumented) # {}

PermissionInv == \A c \in Clients : PermissionOK(c)

\* Whoever the guards let through has one of the known roles now.
LEMMA AllowedIsKnown ==
    ASSUME NEW c \in Clients, PermissionOK(c), NEW component \in DOMAIN Routes,
           NEW handler \in DOMAIN Routes[component], IsAllowed(c, component, handler)
    PROVE  request[c].held \cap KnownRoles(component, handler) # {}
<1> DEFINE role == row[session[c].user].detail
<1>1. role \in RolesIn(row, c)
    BY DEF IsAllowed, IsActive, RolesIn
<1>2. role \in request[c].held
    BY <1>1 DEF PermissionOK, IsAllowed
<1>3. role \in KnownRoles(component, handler)
    BY RoutesAreDocumented DEF IsAllowed
<1>4. QED
    BY <1>2, <1>3

\* The routes of the components of an id.
LEMMA ComponentRoutes ==
    ASSUME NEW id \in Ids, NEW op \in Writes
    PROVE  /\ Component(id) \in DOMAIN Routes /\ op \in DOMAIN Routes[Component(id)]
           /\ UndocumentedRoles(Component(id), op) = {}
<1>1. Component(id) \in {"users", "categories", "salesChannels", "paymentBanks", "tables",
                        "products"}
    BY IdsAreDisjoint DEF Component, Ids
<1>2. \A component \in {"users", "categories", "salesChannels", "paymentBanks", "tables",
                        "products"} :
        component \in DOMAIN Routes
    BY DEF Routes
<1>3. \A readers, writers : Writes \subseteq DOMAIN MasterDataRoutes(readers, writers)
    BY DEF MasterDataRoutes
<1>4. \A component \in {"users", "categories", "salesChannels", "paymentBanks", "tables",
                        "products"} :
        \E readers, writers : Routes[component] = MasterDataRoutes(readers, writers)
    BY DEF Routes, UserRoutes, CategoryRoutes, SalesChannelRoutes, PaymentBankRoutes,
        TableRoutes, ProductRoutes
<1>5. UndocumentedRoles(Component(id), op) = {}
    BY DEF UndocumentedRoles, Writes
<1>6. QED
    BY <1>1, <1>2, <1>3, <1>4, <1>5

\* The steps of login, logout and the guards.
LEMMA AccessKeepsPermissions ==
    ASSUME TypeInv, NEW c \in Clients, AuthNext(c), PermissionOK(c)
    PROVE  PermissionOK(c)'
<1> DEFINE r0 == request[c]
<1>0. /\ r0 \in Request /\ request \in [Clients -> Request]
      /\ session \in [Clients -> Token \cup {None}]
    BY DEF TypeInv, AdminTypeOK
<1>1. ASSUME request'[c].stage \in {"idle", "login"} PROVE PermissionOK(c)'
    BY <1>1 DEF PermissionOK
<1>2. CASE \/ \E u \in Users : StartLogin(c, u)
           \/ FinishLogin(c) \/ Fail(c)
  <2>1. request'[c].stage \in {"idle", "login"}
      BY <1>0, <1>2 DEF StartLogin, FinishLogin, Fail, Idle, Request
  <2>2. QED
      BY <1>1, <2>1
<1>3. CASE EndSession(c)
  <2>1. session[c] \in Token
      BY <1>0, <1>3 DEF EndSession
  <2>2. session'[c].user = session[c].user
      BY <1>0, <1>3, <2>1 DEF EndSession, Token
  <2>3. UNCHANGED <<row, request>>
      BY <1>3 DEF EndSession, directoryVars
  <2>4. QED
      BY <2>2, <2>3 DEF PermissionOK, RolesIn
<1>4. CASE Arrive(c)
  <2>1. request'[c].stage = "session" /\ request'[c].held = RolesIn(row, c)
      BY <1>0, <1>4 DEF Arrive, Request
  <2>2. UNCHANGED <<row, session>>
      BY <1>4 DEF Arrive, directoryVars
  <2>3. QED
      BY <2>1, <2>2 DEF PermissionOK, RolesIn
<1>5. ASSUME NEW component \in DOMAIN Routes, NEW handler \in DOMAIN Routes[component],
             IsAllowed(c, component, handler), UNCHANGED <<row, session>>,
             request'[c].held = r0.held,
             KnownRoles(component, handler)
                \subseteq request'[c].documented \cup request'[c].undocumented
      PROVE  PermissionOK(c)'
  <2>1. r0.held \cap KnownRoles(component, handler) # {}
      BY <1>5, AllowedIsKnown
  <2>2. RolesIn(row, c) \subseteq r0.held
      BY <1>5 DEF PermissionOK, IsAllowed
  <2>3. QED
      BY <1>5, <2>1, <2>2 DEF PermissionOK, RolesIn
<1>6. CASE \E component \in DOMAIN Routes : \E handler \in DOMAIN Routes[component] :
                VisitElsewhere(c, component, handler)
  <2> PICK component \in DOMAIN Routes :
            \E handler \in DOMAIN Routes[component] : VisitElsewhere(c, component, handler)
      BY <1>6
  <2> PICK handler \in DOMAIN Routes[component] : VisitElsewhere(c, component, handler)
      OBVIOUS
  <2>1. /\ request'[c].held = r0.held
        /\ request'[c].documented = DocumentedRoles(component, handler)
        /\ request'[c].undocumented = UndocumentedRoles(component, handler)
        /\ IsAllowed(c, component, handler) /\ UNCHANGED <<row, session>>
      BY <1>0 DEF VisitElsewhere, Request, directoryVars
  <2>2. KnownRoles(component, handler)
            \subseteq request'[c].documented \cup request'[c].undocumented
      BY <2>1 DEF KnownRoles
  <2>3. QED
      BY <1>5, <2>1, <2>2
<1>7. ASSUME NEW op \in Writes, NEW id \in Ids, NEW given, Admit(c, op, id, given)
      PROVE  PermissionOK(c)'
  <2>1. /\ request'[c].held = r0.held
        /\ request'[c].documented = DocumentedRoles(Component(id), op)
        /\ IsAllowed(c, Component(id), op) /\ UNCHANGED <<row, session>>
      BY <1>0, <1>7 DEF Admit, Request, directoryVars
  <2>2. /\ Component(id) \in DOMAIN Routes /\ op \in DOMAIN Routes[Component(id)]
        /\ UndocumentedRoles(Component(id), op) = {}
      BY <1>7, ComponentRoutes
  <2>3. KnownRoles(Component(id), op)
            \subseteq request'[c].documented \cup request'[c].undocumented
      BY <2>1, <2>2 DEF KnownRoles
  <2>4. QED
      BY <1>5, <2>1, <2>2, <2>3
<1>8. {"create", "update", "deactivate", "reactivate"} \subseteq Writes
    BY DEF Writes
<1>9. CASE \/ \E id \in Ids : \E name \in NamesOf(id) \cup {Undefined} :
              \E detail \in DetailsOf(id) \cup {Undefined} :
                LET given == [name |-> name, detail |-> detail]
                IN  AdmitCreate(c, id, given) \/ AdmitUpdate(c, id, given)
           \/ \E id \in Ids, op \in {"deactivate", "reactivate"} : AdmitSetActive(c, op, id)
    BY <1>7, <1>8, <1>9 DEF AdmitCreate, AdmitUpdate, AdmitSetActive
<1>10. CASE \E list \in Lists : AdmitReplace(c, list)
  <2> PICK list \in Lists : AdmitReplace(c, list)
      BY <1>10
  <2> DEFINE component == IF list[2] = None THEN "costs" ELSE "prices"
  <2>1. /\ IsAllowed(c, component, "create") /\ UNCHANGED <<row, session>>
        /\ request'[c].held = r0.held
        /\ request'[c].documented = DocumentedRoles(component, "create")
      BY <1>0 DEF AdmitReplace, Request, directoryVars
  <2>2. component \in DOMAIN Routes /\ "create" \in DOMAIN Routes[component]
      BY DEF Routes, CostRoutes, PriceRoutes
  <2>3. KnownRoles(component, "create")
            \subseteq request'[c].documented \cup request'[c].undocumented
      BY <2>1 DEF KnownRoles, UndocumentedRoles
  <2> HIDE DEF component
  <2>4. QED
      BY <1>5, <2>1, <2>2, <2>3
<1>11. QED
    BY <1>2, <1>3, <1>4, <1>6, <1>9, <1>10 DEF AuthNext, Logout, Expire

\* Every step keeps the permissions of every request current.
LEMMA PermissionNext == TypeInv /\ PermissionInv /\ [Next]_vars => PermissionInv'
<1> SUFFICES ASSUME TypeInv, PermissionInv, [Next]_vars PROVE PermissionInv'
    OBVIOUS
<1>0. request \in [Clients -> Request] /\ session \in [Clients -> Token \cup {None}]
    BY DEF TypeInv, AdminTypeOK
<1>1. ASSUME NEW c \in Clients, request'[c] = request[c], session'[c] = session[c],
             row' = row
      PROVE  PermissionOK(c)'
    BY <1>1 DEF PermissionInv, PermissionOK, RolesIn
<1>2. CASE UNCHANGED vars
    BY <1>1, <1>2 DEF vars, directoryVars, requestVars, PermissionInv
<1>3. CASE UNCHANGED <<session, request>> /\ \A c \in Clients : request[c] = Idle
    BY <1>3 DEF Idle, PermissionInv, PermissionOK
<1>4. ASSUME NEW c \in Clients, Quiet(c), PermissionOK(c)' PROVE PermissionInv'
    BY <1>0, <1>1, <1>4 DEF Quiet, PermissionInv
<1>5. CASE \E c \in Clients : AuthNext(c) /\ Quiet(c)
    BY <1>4, <1>5, AccessKeepsPermissions DEF PermissionInv
<1>6. ASSUME NEW c \in Clients, Advance(c) PROVE PermissionInv'
  <2>1. /\ request[c].stage \notin {"idle", "login", "session"}
        /\ request'[c].held = request[c].held
        /\ request'[c].documented = request[c].documented
        /\ request'[c].undocumented = request[c].undocumented
        /\ UNCHANGED <<row, session>>
      BY <1>0, <1>6 DEF Advance
  <2>2. PermissionOK(c)'
      BY <2>1 DEF PermissionInv, PermissionOK, RolesIn
  <2>3. QED
      BY <1>4, <1>6, <2>2, AdvanceKeepsType
<1>7. ASSUME NEW c \in Clients, Commit(c), session' = session PROVE PermissionInv'
  <2> SUFFICES ASSUME NEW d \in Clients PROVE PermissionOK(d)'
      BY DEF PermissionInv
  <2>1. CASE d = c \/ request[d].stage \in {"idle", "login"}
    <3>1. request'[d].stage \in {"idle", "login"}
        BY <1>7, <2>1 DEF Commit, Idle
    <3>2. QED
        BY <3>1 DEF PermissionOK
  <2>2. CASE ~(d = c \/ request[d].stage \in {"idle", "login"})
    <3> DEFINE held == request[d].held \cup RolesIn(row', d)
    <3>1. \E raced \in {TRUE, FALSE} : request'[d] = [[request[d] EXCEPT !.raced = raced]
                                                        EXCEPT !.held = held]
        BY <1>7, <2>2 DEF Commit
    <3>2. /\ request'[d].held = held
          /\ request'[d].stage = request[d].stage
          /\ request'[d].documented = request[d].documented
          /\ request'[d].undocumented = request[d].undocumented
        BY <1>0, <3>1 DEF Request
    <3>3. RolesIn(row, d)' = RolesIn(row', d)
        BY <1>7 DEF RolesIn
    <3>4. PermissionOK(d)
        BY DEF PermissionInv
    <3>5. QED
        BY <3>2, <3>3, <3>4 DEF PermissionOK
  <2>3. QED
      BY <2>1, <2>2
<1>8. QED
    BY <1>2, <1>3, <1>5, <1>6, <1>7, StepCases, WritesCommit, ReplaceCommits

\* JwtStrategy and RolesGuard: however roles and users change while requests
\* run, whoever is beyond the guards was active with a documented role, or the
\* one undocumented role that the code is known to admit, at some moment of that
\* request.
THEOREM PermissionsCorrect == Spec => []PermissionsAreCurrent
<1>1. Init => PermissionInv
    BY DEF Init, Idle, PermissionInv, PermissionOK
<1>2. PermissionInv => PermissionsAreCurrent
    BY DEF PermissionInv, PermissionOK, PermissionsAreCurrent
<1>3. QED
    BY <1>1, <1>2, TypeInvInit, TypeInvNext, PermissionNext, PTL DEF Spec

-----------------------------------------------------------------------------
(* The administrator that remains. *)

\* A change of a user that may still commit has read the user as it is, and
\* has counted another administrator, who is still there.
CountedOK(c) ==
    LET r == request[c]
    IN  r.stage = "counted" /\ ~r.raced =>
            /\ r.id \in Users /\ r.before = row[r.id]
            /\ CountsAdmins(r) /\ appointed => ActiveAdmins \ {r.id} # {}

AdminInv ==
    /\ AdministratorRemains
    /\ \A c \in Clients : CountedOK(c)

\* The seed appoints an administrator, and takes the role of one only when its
\* email is that of a demo user.
LEMMA SeedKeepsAdmin == ASSUME TypeInv, AdminInv, RunSeed PROVE AdminInv'
<1>0. row \in [Ids -> Row \cup {None}] /\ Users \subseteq Ids
    BY DEF TypeInv, AdminTypeOK, DirectoryTypeOK, Ids
<1>1. \A c \in Clients : request'[c] = Idle
    BY SeedKeepsType
<1>2. \A c \in Clients : CountedOK(c)'
    BY <1>1 DEF CountedOK, Idle
<1>3. CASE \E email \in Names \ {Empty} : SeedAdmin(email)
  <2>1. PICK email \in Names, u \in Users : SeedWrites(u, SeedRow(email, "ADMIN"))
      BY <1>3 DEF SeedAdmin, EnsureUser, Holders
  <2>2. row'[u] = SeedRow(email, "ADMIN") /\ row'[u] \in Row
      BY <1>0, <2>1 DEF SeedWrites, SeedRow, Row, Roles
  <2>3. u \in ActiveAdmins'
      BY <2>2, NoneIsNoRow DEF ActiveAdmins, IsActive, Exists, SeedRow
  <2>4. QED
      BY <1>2, <2>3 DEF AdminInv, AdministratorRemains
<1>4. CASE \E email \in Names \ {Empty}, role \in DemoRoles : SeedDemoUser(email, role)
  <2>1. appointed' = (appointed /\ AdministratorsStay)
      BY <1>4 DEF SeedDemoUser
  <2>2. QED
      BY <1>2, <2>1 DEF AdminInv, AdministratorRemains, AdministratorsStay
<1>5. ASSUME \A u \in Users : row'[u] = row[u], appointed' = appointed
      PROVE  AdminInv'
    BY <1>2, <1>5 DEF AdminInv, AdministratorRemains, ActiveAdmins, IsActive, Exists
<1>6. ASSUME NEW id \in Ids \ Users, NEW new, SeedWrites(id, new)
      PROVE  \A u \in Users : row'[u] = row[u]
    BY <1>0, <1>6 DEF SeedWrites
<1>7. ASSUME NEW T \in {Categories, Channels, Banks, Tables}, NEW step, NEW next, NEW found,
             NEW details, EnsureRows(T, step, next, found, details)
      PROVE  AdminInv'
  <2>1. T \subseteq Ids \ Users
      BY IdsAreDisjoint DEF Ids
  <2>2. QED
      BY <1>5, <1>6, <1>7, <2>1 DEF EnsureRows
<1>8. CASE EnsureCategories \/ EnsureSalesChannels \/ EnsurePaymentBanks \/ EnsureRestaurantTables
    BY <1>7, <1>8 DEF EnsureCategories, EnsureSalesChannels, EnsurePaymentBanks,
        EnsureRestaurantTables
<1>9. CASE EnsureDemoProduct
  <2>1. Products \subseteq Ids \ Users
      BY IdsAreDisjoint DEF Ids
  <2>2. QED
      BY <1>5, <1>6, <1>9, <2>1 DEF EnsureDemoProduct
<1>10. CASE \/ StartSeed \/ EndDemoUsers \/ EnsureCurrentCost \/ EnsureCurrentPrice
            \/ EnsureInitialStock \/ SeedDies \/ SeedFindsStock
    BY <1>5, <1>10 DEF StartSeed, EndDemoUsers, EnsureCurrentCost, EnsureCurrentPrice,
        EnsureInitialStock, SeedDies, SeedFindsStock
<1>11. QED
    BY <1>3, <1>4, <1>8, <1>9, <1>10 DEF RunSeed, SeedNext

\* What a write does to the administrators: nobody stops being one, or none is
\* promised any more, or c deactivates one and had counted another.
LEMMA WriteAndAdmins ==
    ASSUME TypeInv, AdminInv, NEW c \in Clients, WriteSteps(c)
    PROVE  LET r == request[c]
           IN  /\ \A u \in Users \ {r.id} : row'[u] = row[u]
               /\ appointed' => appointed
               /\ \/ ActiveAdmins \subseteq ActiveAdmins'
                  \/ ~appointed'
                  \/ /\ r.stage = "counted" /\ ~r.raced /\ CountsAdmins(r)
                     /\ r.id \in Users
                     /\ ActiveAdmins \ {r.id} \subseteq ActiveAdmins'
<1> DEFINE r == request[c]
<1>0. /\ row \in [Ids -> Row \cup {None}] /\ Users \subseteq Ids
      /\ appointed \in BOOLEAN
    BY DEF TypeInv, AdminTypeOK, DirectoryTypeOK, Ids
<1>1. PICK new \in Row : WritesRow(c, new)
    BY WritesCommit
<1>2. /\ r.id \in Ids /\ row' = [row EXCEPT ![r.id] = new]
      /\ \A id \in Ids \ {r.id} : row'[id] = row[id]
      /\ row'[r.id] = new
    BY <1>0, <1>1 DEF WritesRow, Write
<1>3. \A u \in Users \ {r.id} : row'[u] = row[u]
    BY <1>0, <1>2
<1>4. ASSUME r.id \in ActiveAdmins => r.id \in ActiveAdmins'
      PROVE  ActiveAdmins \subseteq ActiveAdmins'
    BY <1>3, <1>4 DEF ActiveAdmins, IsActive, Exists
<1>5. CASE CommitUpdate(c)
  <2>1. appointed' = (appointed /\ AdministratorsStay)
      BY <1>5 DEF CommitUpdate, Modify
  <2>2. QED
      BY <1>0, <1>3, <2>1 DEF AdministratorsStay
<1>6. CASE CommitCreate(c)
  <2>1. row[r.id] = None /\ appointed' = appointed
      BY <1>6 DEF CommitCreate, Insert
  <2>2. QED
      BY <1>3, <1>4, <2>1 DEF ActiveAdmins, IsActive, Exists
<1>7. CASE \E op \in {"deactivate", "reactivate"} : CommitSetActive(c, op) /\ ~Of(c, Users)
  <2>1. r.id \notin Users /\ appointed' = appointed
      BY <1>7 DEF CommitSetActive, SetActive, Of
  <2>2. QED
      BY <1>3, <1>4, <2>1 DEF ActiveAdmins
<1>8. CASE \E op \in {"deactivate", "reactivate"} : CommitSetUserActive(c, op) /\ Of(c, Users)
  <2> PICK op \in {"deactivate", "reactivate"} : CommitSetUserActive(c, op) /\ Of(c, Users)
      BY <1>8
  <2>1. /\ r.id \in Users /\ r.stage = "counted" /\ ~r.raced /\ r.op = op
        /\ row' = [row EXCEPT ![r.id] = [row[r.id] EXCEPT !.active = (op = "reactivate")]]
        /\ appointed' = appointed
      BY DEF CommitSetUserActive, Of, At, SetActive, Write
  <2>2. r.before = row[r.id] /\ Exists(r.id)
      BY <2>1 DEF AdminInv, CountedOK, TypeInv, RequestOK
  <2>3. row[r.id] \in Row
      BY <1>0, <2>1, <2>2 DEF Exists
  <2>4. row'[r.id] = [row[r.id] EXCEPT !.active = (op = "reactivate")]
      BY <1>0, <2>1
  <2>5. CASE CountsAdmins(r)
      BY <1>3, <2>1, <2>5 DEF ActiveAdmins, IsActive, Exists
  <2>6. CASE ~CountsAdmins(r) /\ op = "deactivate"
    <3>1. r.id \notin ActiveAdmins
        BY <2>1, <2>2, <2>6 DEF CountsAdmins, ActiveAdmins, IsActive
    <3>2. QED
        BY <1>3, <1>4, <2>1, <3>1
  <2>7. CASE op = "reactivate"
    <3>1. row'[r.id].active = TRUE /\ row'[r.id].detail = row[r.id].detail
        BY <2>3, <2>4, <2>7 DEF Row
    <3>2. row'[r.id] # None
        BY <1>2, NoneIsNoRow
    <3>3. r.id \in ActiveAdmins => r.id \in ActiveAdmins'
        BY <3>1, <3>2 DEF ActiveAdmins, IsActive, Exists
    <3>4. QED
        BY <1>3, <1>4, <2>1, <3>3
  <2>8. QED
      BY <2>5, <2>6, <2>7
<1>9. QED
    BY <1>5, <1>6, <1>7, <1>8 DEF WriteSteps

\* The steps that commit nothing leave a request counted only by counting.
LEMMA QuietCounts ==
    ASSUME TypeInv, NEW c \in Clients, QuietServiceSteps(c) \/ AuthNext(c)
    PROVE  \/ request'[c].stage # "counted"
           \/ request'[c] = request[c]
           \/ \E op \in {"deactivate", "reactivate"} :
                BeginSetUserActive(c, op) /\ Of(c, Users)
<1>0. request[c] \in Request /\ request \in [Clients -> Request]
    BY DEF TypeInv, AdminTypeOK
<1>1. CASE AuthNext(c)
  <2>1. CASE (\E u \in Users : StartLogin(c, u)) \/ FinishLogin(c) \/ Arrive(c) \/ Fail(c)
      BY <1>0, <2>1 DEF StartLogin, FinishLogin, Arrive, Fail, Idle, Request
  <2>2. CASE EndSession(c)
      BY <2>2 DEF EndSession
  <2>3. ASSUME NEW op, NEW id, NEW given, Admit(c, op, id, given)
        PROVE  request'[c].stage # "counted"
      BY <1>0, <2>3 DEF Admit, Request
  <2>4. CASE \/ \E id \in Ids : \E name \in NamesOf(id) \cup {Undefined} :
                \E detail \in DetailsOf(id) \cup {Undefined} :
                    LET given == [name |-> name, detail |-> detail]
                    IN  AdmitCreate(c, id, given) \/ AdmitUpdate(c, id, given)
             \/ \E id \in Ids, op \in {"deactivate", "reactivate"} : AdmitSetActive(c, op, id)
      BY <2>3, <2>4 DEF AdmitCreate, AdmitUpdate, AdmitSetActive
  <2>5. CASE \E list \in Lists : AdmitReplace(c, list)
      BY <1>0, <2>5 DEF AdmitReplace, Request
  <2>6. CASE \E component \in DOMAIN Routes : \E handler \in DOMAIN Routes[component] :
                VisitElsewhere(c, component, handler)
    <3>1. PICK component, handler : VisitElsewhere(c, component, handler)
        BY <2>6
    <3>2. request'[c].stage = "elsewhere"
        BY <1>0, <3>1 DEF VisitElsewhere, Request
    <3>3. QED
        BY <3>2
  <2>7. QED
      BY <1>1, <2>1, <2>2, <2>4, <2>5, <2>6 DEF AuthNext, Logout, Expire
<1>2. CASE QuietServiceSteps(c)
  <2>1. CASE \E op \in Writes : Find(c, op)
      BY <1>0, <2>1 DEF Find, Request
  <2>2. CASE \/ \E next \in {"named", "checked"} : CheckNew(c, next) \/ CheckIfChanged(c, next)
             \/ CheckOther(c) \/ EnsureCategoryUsable(c)
             \/ EnsureProductActive(c) \/ EnsureSalesChannelActive(c)
      BY <1>0, <2>2 DEF CheckNew, CheckIfChanged, CheckOther, EnsureCategoryUsable,
          EnsureProductActive, EnsureSalesChannelActive, PassCheck, Stage, Request
  <2>3. CASE RetrySetUserActive(c) \/ TakeInstant(c) \/ ReadCurrent(c) \/ RetryReplace(c)
      BY <1>0, <2>3 DEF RetrySetUserActive, TakeInstant, ReadCurrent, RetryReplace, Request
  <2>4. QED
      BY <1>2, <2>1, <2>2, <2>3 DEF QuietServiceSteps
<1>3. QED
    BY <1>1, <1>2

\* Every step keeps the administrator.
LEMMA AdminNext == TypeInv /\ AdminInv /\ [Next]_vars => AdminInv'
<1> SUFFICES ASSUME TypeInv, AdminInv, [Next]_vars PROVE AdminInv'
    OBVIOUS
<1>0. /\ request \in [Clients -> Request] /\ Users \subseteq Ids
      /\ row \in [Ids -> Row \cup {None}] /\ appointed \in BOOLEAN
    BY DEF TypeInv, AdminTypeOK, DirectoryTypeOK, Ids
<1>1. ASSUME UNCHANGED <<row, appointed>>, \A c \in Clients : CountedOK(c)'
      PROVE  AdminInv'
    BY <1>1 DEF AdminInv, AdministratorRemains, ActiveAdmins, IsActive, Exists
<1>2. ASSUME NEW c \in Clients, request'[c] = request[c], UNCHANGED <<row, appointed>>
      PROVE  CountedOK(c)'
    BY <1>2 DEF AdminInv, CountedOK, CountsAdmins, ActiveAdmins, IsActive, Exists
<1>3. CASE UNCHANGED vars
    BY <1>1, <1>2, <1>3 DEF vars, directoryVars, requestVars
<1>4. CASE RunSeed
    BY <1>4, SeedKeepsAdmin
<1>5. ASSUME NEW c \in Clients, Quiet(c), QuietServiceSteps(c) \/ AuthNext(c) PROVE AdminInv'
  <2>1. UNCHANGED <<row, appointed>> /\ \A d \in Clients \ {c} : request'[d] = request[d]
      BY <1>0, <1>5 DEF Quiet
  <2>2. CountedOK(c)'
    <3>1. CASE request'[c].stage # "counted"
        BY <3>1 DEF CountedOK
    <3>2. CASE request'[c] = request[c]
        BY <1>2, <2>1, <3>2
    <3>3. ASSUME NEW op \in {"deactivate", "reactivate"}, BeginSetUserActive(c, op), Of(c, Users)
          PROVE  CountedOK(c)'
      <4> DEFINE r0 == request[c]
      <4> DEFINE r == [r0 EXCEPT !.stage = "counted", !.before = row[r0.id], !.raced = FALSE]
      <4>1. request'[c] = r /\ (CountsAdmins(r) => AnotherAdmin(r0.id))
          BY <1>0, <3>3 DEF BeginSetUserActive
      <4>2. r.id = r0.id /\ r.before = row[r0.id] /\ r0.id \in Users
          BY <1>0, <3>3 DEF Request, Of
      <4> HIDE DEF r
      <4>3. QED
          BY <2>1, <4>1, <4>2 DEF CountedOK, AnotherAdmin, CountsAdmins, ActiveAdmins,
              IsActive, Exists
    <3>4. QED
        BY <1>5, <3>1, <3>2, <3>3, QuietCounts
  <2>3. QED
      BY <1>1, <1>2, <2>1, <2>2
<1>6. ASSUME NEW c \in Clients, WriteSteps(c) PROVE AdminInv'
  <2> DEFINE mine == request[c]
  <2>1. /\ \A u \in Users \ {mine.id} : row'[u] = row[u]
        /\ appointed' => appointed
        /\ \/ ActiveAdmins \subseteq ActiveAdmins'
           \/ ~appointed'
           \/ /\ mine.stage = "counted" /\ ~mine.raced /\ CountsAdmins(mine)
              /\ mine.id \in Users
              /\ ActiveAdmins \ {mine.id} \subseteq ActiveAdmins'
      BY <1>6, WriteAndAdmins
  <2>2. Commit(c) /\ request'[c] = Idle
      BY <1>6, WritesCommit DEF Commit
  <2>3. appointed => ActiveAdmins # {}
      BY DEF AdminInv, AdministratorRemains
  <2>4. mine.stage = "counted" /\ ~mine.raced /\ CountsAdmins(mine) /\ appointed
            => ActiveAdmins \ {mine.id} # {}
      BY DEF AdminInv, CountedOK
  <2>5. appointed' => ActiveAdmins' # {}
      BY <2>1, <2>3, <2>4
  <2>6. ASSUME NEW d \in Clients PROVE CountedOK(d)'
    <3>1. SUFFICES ASSUME d # c, request'[d].stage = "counted", ~request'[d].raced
                   PROVE  CountedOK(d)'
        BY <2>2 DEF CountedOK, Idle
    <3> DEFINE r == request[d]
    <3>2. /\ r.stage = "counted" /\ ~r.raced /\ ~Conflicts(r, mine)
          /\ request'[d].id = r.id /\ request'[d].before = r.before
          /\ request'[d].op = r.op
        BY <2>2, <3>1, CommitLeaves
    <3>3. r.id \in Users /\ r.before = row[r.id] /\ (CountsAdmins(r) /\ appointed => ActiveAdmins \ {r.id} # {})
        BY <3>2 DEF AdminInv, CountedOK
    <3>4. mine.id # r.id /\ ~(mine.stage = "counted" /\ CountsAdmins(r) /\ CountsAdmins(mine))
        BY <3>2 DEF Conflicts
    <3>5. row'[r.id] = row[r.id]
        BY <2>1, <3>3, <3>4
    <3>6. CountsAdmins(r) /\ appointed' => ActiveAdmins' \ {r.id} # {}
        BY <2>1, <3>3, <3>4
    <3>7. CountsAdmins(request'[d]) <=> CountsAdmins(r)
        BY <3>2 DEF CountsAdmins
    <3>8. QED
        BY <3>1, <3>2, <3>3, <3>5, <3>6, <3>7 DEF CountedOK, CountsAdmins
  <2>7. QED
      BY <2>5, <2>6 DEF AdminInv, AdministratorRemains
<1>7. ASSUME NEW c \in Clients, CommitReplace(c) PROVE AdminInv'
  <2>1. UNCHANGED <<row, appointed>> /\ Commit(c)
      BY <1>7 DEF CommitReplace, ReplaceCurrent
  <2>2. ASSUME NEW d \in Clients PROVE CountedOK(d)'
    <3>1. SUFFICES ASSUME d # c, request'[d].stage = "counted", ~request'[d].raced
                   PROVE  CountedOK(d)'
        BY <2>1 DEF Commit, CountedOK, Idle
    <3> DEFINE r == request[d]
    <3>2. /\ r.stage = "counted" /\ ~r.raced
          /\ request'[d].id = r.id /\ request'[d].before = r.before
          /\ request'[d].op = r.op
        BY <2>1, <3>1, CommitLeaves
    <3>3. QED
        BY <2>1, <3>2 DEF AdminInv, CountedOK, CountsAdmins, ActiveAdmins, IsActive, Exists
  <2>3. QED
      BY <1>1, <2>1, <2>2
<1>8. QED
    BY <1>3, <1>4, <1>5, <1>6, <1>7, StepCases, AdvanceKeepsType

\* UsersService.updateActiveStatus and the seed: once the seed has appointed an
\* administrator, an active one remains as long as no update, and no demo user of
\* the seed, takes the role of one, however many are deactivated at once.
THEOREM AdministratorCorrect == Spec => []AdministratorRemains
<1>1. Init => AdminInv
    BY DEF Init, DirectoryInit, Idle, AdminInv, AdministratorRemains, CountedOK
<1>2. AdminInv => AdministratorRemains
    BY DEF AdminInv
<1>3. QED
    BY <1>1, <1>2, TypeInvInit, TypeInvNext, AdminNext, PTL DEF Spec
==============================================================================
