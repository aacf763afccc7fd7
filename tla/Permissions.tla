----------------------------- MODULE Permissions -----------------------------
(***************************************************************************)
(* What the @Roles decorators of the controllers allow, handler by handler *)
(* and, next to it, the matrix of docs/05-roles-and-permissions.md.  A     *)
(* decorator on a handler overrides the one of its class; all of these     *)
(* controllers are behind JwtAuthGuard and RolesGuard.                     *)
(***************************************************************************)

Roles == {"ADMIN", "MANAGER", "CASHIER", "AUDITOR"}
Management == {"ADMIN", "MANAGER"}
Floor == {"ADMIN", "MANAGER", "CASHIER"}
Oversight == {"ADMIN", "MANAGER", "AUDITOR"}

Reads == {"findAll", "findOne"}
Writes == {"create", "update", "deactivate", "reactivate"}

\* The six routes of a controller of master data.
MasterDataRoutes(readers, writers) ==
    [h \in Reads \cup Writes |-> IF h \in Reads THEN readers ELSE writers]

UserRoutes == MasterDataRoutes({"ADMIN"}, {"ADMIN"})
CategoryRoutes == MasterDataRoutes(Roles, Management)
SalesChannelRoutes == MasterDataRoutes(Roles, Management)
PaymentBankRoutes == MasterDataRoutes(Roles, Management)
TableRoutes == MasterDataRoutes(Roles, Management)
ProductRoutes == MasterDataRoutes(Roles, Management)

CostRoutes ==
    [create |-> Management, findHistory |-> Oversight, findCurrent |-> Oversight]

\* The current price is also read at the till.
PriceRoutes ==
    [create |-> Management, findHistory |-> Oversight, findCurrent |-> Roles]

StockQueryRoutes ==
    [getInventory |-> Roles, getProductInventory |-> Roles,
     getMovements |-> Oversight, getProductMovements |-> Oversight]

StockMovementRoutes ==
    [h \in {"stockIn", "manualAdjust", "registerWaste", "returnIn",
            "updateMinimumStock"} |-> Management]

TicketRoutes ==
    [findAll |-> Roles, findOne |-> Roles,
     create |-> Floor, update |-> Floor]

TicketItemRoutes == [addItem |-> Floor, updateItem |-> Floor, removeItem |-> Floor]

TicketClosingRoutes == [cancel |-> Floor, confirm |-> Floor, void |-> Management]

TableOrderRoutes ==
    [h \in {"findAll", "findCurrentByTable", "findOne", "open", "cancel", "addItem",
            "updateItem", "removeItem", "close"} |->
        IF h \in {"findAll", "findCurrentByTable", "findOne"} THEN Roles ELSE Floor]

ReportRoutes ==
    [h \in {"getStockReport", "getSalesByChannelReport", "getSalesByProductReport",
            "getSalesByUserReport", "getInventoryMovementsReport"} |-> Oversight]

AuditRoutes == [h \in Reads |-> {"ADMIN", "AUDITOR"}]
MetricsRoutes == [snapshot |-> {"ADMIN", "AUDITOR"}]
PosRoutes == [getCatalog |-> Floor]
OptionRoutes == [find |-> Roles]

Routes ==
    [users |-> UserRoutes, categories |-> CategoryRoutes,
     salesChannels |-> SalesChannelRoutes, paymentBanks |-> PaymentBankRoutes,
     tables |-> TableRoutes, products |-> ProductRoutes,
     costs |-> CostRoutes, prices |-> PriceRoutes,
     stock |-> StockQueryRoutes, movements |-> StockMovementRoutes,
     tickets |-> TicketRoutes, ticketItems |-> TicketItemRoutes,
     ticketClosing |-> TicketClosingRoutes, tableOrders |-> TableOrderRoutes,
     reports |-> ReportRoutes, audit |-> AuditRoutes, metrics |-> MetricsRoutes,
     pos |-> PosRoutes, options |-> OptionRoutes]

\* RolesGuard.canActivate: the roles a handler is open to.
AllowedRoles(component, handler) == Routes[component][handler]

-----------------------------------------------------------------------------
(* docs/05, "Matriz Resumida Rol-Permiso" and, for what it leaves out, the   *)
(* sections by role; "Parcial" is read as a permission.                      *)

\* The handlers that change nothing.
ReadHandlers ==
    Reads \cup {"findHistory", "findCurrent", "getInventory", "getProductInventory",
        "getMovements", "getProductMovements", "findCurrentByTable", "getStockReport",
        "getSalesByChannelReport", "getSalesByProductReport", "getSalesByUserReport",
        "getInventoryMovementsReport", "snapshot", "getCatalog", "find"}

DocumentedRoles(component, handler) ==
    IF component = "users" THEN {"ADMIN"}
    ELSE IF handler \in ReadHandlers
         THEN IF component \in {"audit", "costs", "prices"} THEN Oversight ELSE Roles
    ELSE IF \/ component \in {"tickets", "ticketItems", "tableOrders"}
            \/ component = "ticketClosing" /\ handler # "void"
         THEN Floor
    ELSE Management

\* What the code is known to allow besides: "Precios Historicos por Canal" says
\* CASHIER: no, and findCurrent of the prices is open to every role.
UndocumentedRoles(component, handler) ==
    IF component = "prices" /\ handler = "findCurrent" THEN {"CASHIER"} ELSE {}
==============================================================================
