------------------------------- MODULE Catalog -------------------------------
(***************************************************************************)
(* The master data a sale depends on, as the sales and inventory services  *)
(* read it: products (active flag, stockManagementType, current cost and   *)
(* price per channel), sales channels, payment banks, restaurant tables.   *)
(*                                                                         *)
(* Every administrative write is one committed transaction on one row (or  *)
(* on one price history), so it is one action.  The eligibility checks the *)
(* services make before opening that transaction (ensureProductActive,     *)
(* ensureSalesChannelActive of ProductPricesService) run outside of it, so *)
(* the write may land after the product or channel was deactivated: rows   *)
(* are created active, hence the check never constrains the write alone.   *)
(***************************************************************************)
EXTENDS Integers, FiniteSets

CONSTANTS
    Products, Channels, Banks, Tables,  \* ids of the catalogue's rows
    StockTypes,     \* the stock management types the catalogue uses
    Prices,         \* unit prices, in cents
    FirstPrices,    \* bound: prices, or their absence, before the first sale
    None,           \* null: no price, no bank, no channel, no table...
    MaxAdminSteps   \* bound: administrative changes in a behaviour

AllStockTypes == {"FINISHED_PRODUCT", "NON_STOCKED", "RECIPE_BASED"}

ASSUME StockTypesAssumption == StockTypes \subseteq AllStockTypes
ASSUME PricesAssumption == Prices \subseteq Nat
ASSUME NoneAssumption ==
    None \notin Products \cup Channels \cup Banks \cup Tables \cup Prices
ASSUME FirstPricesAssumption == FirstPrices \subseteq Prices \cup {None}
\* The tables of the database have finitely many rows.
ASSUME FiniteCatalogAssumption == IsFiniteSet(Products) /\ IsFiniteSet(Channels)
ASSUME MaxAdminStepsAssumption == MaxAdminSteps \in Nat

VARIABLES
    productActive,         \* Product.active
    stockManagementType,   \* Product.stockManagementType
    costed,                \* products with a current ProductCostHistory row
    currentPrice,          \* price of the ProductPriceHistory row with validTo null
    channelActive,         \* SalesChannel.active
    bankActive,            \* PaymentBank.active
    tableActive,           \* RestaurantTable.active
    adminSteps             \* administrative changes so far

catalogVars == <<productActive, stockManagementType, costed, currentPrice,
                 channelActive, bankActive, tableActive, adminSteps>>

CatalogTypeOK ==
    /\ productActive \in [Products -> BOOLEAN]
    /\ stockManagementType \in [Products -> StockTypes]
    /\ costed \in SUBSET Products
    /\ currentPrice \in [Products -> [Channels -> Prices \cup {None}]]
    /\ channelActive \in [Channels -> BOOLEAN]
    /\ bankActive \in [Banks -> BOOLEAN]
    /\ tableActive \in [Tables -> BOOLEAN]
    /\ adminSteps \in 0..MaxAdminSteps

\* A catalogue as it is configured before the first sale: every row active
\* (the schema's default), any type, cost and price.
CatalogInit ==
    /\ productActive = [p \in Products |-> TRUE]
    /\ stockManagementType \in [Products -> StockTypes]
    /\ costed \in SUBSET Products
    /\ currentPrice \in [Products -> [Channels -> FirstPrices]]
    /\ channelActive = [ch \in Channels |-> TRUE]
    /\ bankActive = [b \in Banks |-> TRUE]
    /\ tableActive = [s \in Tables |-> TRUE]
    /\ adminSteps = 0

AdminStep ==
    /\ adminSteps < MaxAdminSteps
    /\ adminSteps' = adminSteps + 1

\* ProductsService.deactivate and reactivate.
SetProductActive(p, active) ==
    /\ AdminStep
    /\ productActive' = [productActive EXCEPT ![p] = active]
    /\ UNCHANGED <<stockManagementType, costed, currentPrice,
                   channelActive, bankActive, tableActive>>

\* ProductsService.update: the type may change at any time, also while tickets
\* hold the product.
UpdateStockManagementType(p, type) ==
    /\ AdminStep
    /\ stockManagementType' = [stockManagementType EXCEPT ![p] = type]
    /\ UNCHANGED <<productActive, costed, currentPrice,
                   channelActive, bankActive, tableActive>>

\* ProductCostsService.create: only the existence of a current cost matters here.
CreateCost(p) ==
    /\ AdminStep
    /\ costed' = costed \cup {p}
    /\ UNCHANGED <<productActive, stockManagementType, currentPrice,
                   channelActive, bankActive, tableActive>>

\* ProductPricesService.create: closes the current row and inserts the new one.
CreatePrice(p, ch, price) ==
    /\ AdminStep
    /\ currentPrice' = [currentPrice EXCEPT ![p][ch] = price]
    /\ UNCHANGED <<productActive, stockManagementType, costed,
                   channelActive, bankActive, tableActive>>

\* SalesChannelsService.deactivate and reactivate.
SetChannelActive(ch, active) ==
    /\ AdminStep
    /\ channelActive' = [channelActive EXCEPT ![ch] = active]
    /\ UNCHANGED <<productActive, stockManagementType, costed, currentPrice,
                   bankActive, tableActive>>

\* PaymentBanksService.deactivate and reactivate.
SetBankActive(b, active) ==
    /\ AdminStep
    /\ bankActive' = [bankActive EXCEPT ![b] = active]
    /\ UNCHANGED <<productActive, stockManagementType, costed, currentPrice,
                   channelActive, tableActive>>

\* TablesService.deactivate and reactivate: an OPEN order does not prevent it.
SetTableActive(s, active) ==
    /\ AdminStep
    /\ tableActive' = [tableActive EXCEPT ![s] = active]
    /\ UNCHANGED <<productActive, stockManagementType, costed, currentPrice,
                   channelActive, bankActive>>

CatalogNext ==
    \/ \E p \in Products, active \in BOOLEAN : SetProductActive(p, active)
    \/ \E p \in Products, type \in StockTypes : UpdateStockManagementType(p, type)
    \/ \E p \in Products : CreateCost(p)
    \/ \E p \in Products, ch \in Channels, price \in Prices : CreatePrice(p, ch, price)
    \/ \E ch \in Channels, active \in BOOLEAN : SetChannelActive(ch, active)
    \/ \E b \in Banks, active \in BOOLEAN : SetBankActive(b, active)
    \/ \E s \in Tables, active \in BOOLEAN : SetTableActive(s, active)

IsFinished(p) == stockManagementType[p] = "FINISHED_PRODUCT"
IsRecipeBased(p) == stockManagementType[p] = "RECIPE_BASED"
==============================================================================
