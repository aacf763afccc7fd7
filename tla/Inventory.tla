------------------------------ MODULE Inventory ------------------------------
(***************************************************************************)
(* InventoryService: the stock of each product and its movement ledger.    *)
(*                                                                         *)
(* A manual movement is two steps of a request: findProductForMovement     *)
(* reads the product outside the transaction, then one serializable        *)
(* transaction reads the stock row, checks it, writes it and appends the   *)
(* movement.  Between the two anything may happen to the product.          *)
(*                                                                         *)
(* Quantities are stored in a Decimal(10,2) column, and no DTO limits the  *)
(* decimals of its input: an input is an integer number of thousandths,    *)
(* and Stored is the rounding of the column.  Arithmetic is done before    *)
(* the rounding, as in the code.                                           *)
(*                                                                         *)
(* An operator introduced by "Faulty:" is not part of the specification:   *)
(* it is the operator below it with a plausible mistake, kept to show that *)
(* the properties notice it.                                               *)
(***************************************************************************)
EXTENDS Catalog, Sequences

CONSTANTS
    Clerks,         \* concurrent requests of the inventory endpoints
    Tickets,        \* ids of sale tickets, the references of sale movements
    Inputs,         \* input quantities, in thousandths of a unit
    MaxStored,      \* bound: the capacity of a stock column, in hundredths
    MaxMovements    \* bound: movements per product in a behaviour

\* IsNumber, Min(0.01): an input is at least ten thousandths.
ASSUME InputsAssumption == Inputs \subseteq Nat \ (0..9)
ASSUME MaxStoredAssumption == MaxStored \in Nat
ASSUME MaxMovementsAssumption == MaxMovements \in Nat
ASSUME TicketsAssumption == None \notin Tickets /\ IsFiniteSet(Tickets)

VARIABLES
    currentStock,   \* ProductStock.currentStock, 0 while there is no row
    minimumStock,   \* ProductStock.minimumStock, 0 while there is no row
    movements,      \* InventoryMovement rows of a product, in commit order
    request         \* what each clerk's request has read before its transaction

inventoryVars == <<currentStock, minimumStock, movements, request>>

InTypes == {"STOCK_IN", "RETURN_IN", "VOID_REVERSAL"}
OutTypes == {"WASTE", "SALE_OUT"}
MovementTypes == InTypes \cup OutTypes \cup {"MANUAL_ADJUSTMENT"}

\* A movement row; referenceId is the ticket of a sale movement.
Movement == [movementType: MovementTypes, quantity: Nat, previousStock: Nat,
             newStock: Nat, referenceId: Tickets \cup {None}]

Idle == [kind |-> "idle", product |-> None]
Request == [kind: {"movement", "minimum"}, product: Products] \cup {Idle}

InventoryTypeOK ==
    /\ currentStock \in [Products -> Nat]
    /\ minimumStock \in [Products -> Nat]
    /\ movements \in [Products -> Seq(Movement)]
    /\ request \in [Clerks -> Request]

InventoryInit ==
    /\ currentStock = [p \in Products |-> 0]
    /\ minimumStock = [p \in Products |-> 0]
    /\ movements = [p \in Products |-> <<>>]
    /\ request = [c \in Clerks |-> Idle]

\* Rounding half up of thousandths to the column's hundredths.
Stored(thousandths) == (thousandths + 5) \div 10
Thousandths(hundredths) == 10 * hundredths
AbsDiff(a, b) == IF a >= b THEN a - b ELSE b - a

\* Faulty: the movement says the stock already was the new one.
MovementAfterUpdate(p, type, quantity, newStock, reference) ==
    [movementType |-> type, quantity |-> Stored(quantity),
     previousStock |-> Stored(newStock), newStock |-> Stored(newStock),
     referenceId |-> reference]

\* The row persistMovement inserts for a quantity and a new stock in
\* thousandths, both rounded by the database.
MovementOf(p, type, quantity, newStock, reference) ==
    [movementType |-> type, quantity |-> Stored(quantity),
     previousStock |-> currentStock[p], newStock |-> Stored(newStock),
     referenceId |-> reference]

\* persistMovement for each product of moved: quantity and newStock are
\* functions of the product.  The first conjunct is the bounds.
PersistMovements(moved, type, quantity, newStock, reference) ==
    /\ \A p \in moved : /\ Stored(newStock[p]) <= MaxStored
                        /\ Len(movements[p]) < MaxMovements
    /\ currentStock' = [p \in Products |->
            IF p \in moved THEN Stored(newStock[p]) ELSE currentStock[p]]
    /\ movements' = [p \in Products |->
            IF p \in moved
            THEN Append(movements[p],
                        MovementOf(p, type, quantity[p], newStock[p], reference))
            ELSE movements[p]]

\* applyMovement with operation 'add' and with operation 'subtract'.
AddMovements(moved, type, quantity, reference) ==
    PersistMovements(moved, type, quantity,
        [p \in moved |-> Thousandths(currentStock[p]) + quantity[p]], reference)

\* Faulty: the stock is not checked.
SubtractMovementsUnchecked(moved, type, quantity, reference) ==
    PersistMovements(moved, type, quantity,
        [p \in moved |-> Thousandths(currentStock[p]) - quantity[p]], reference)

SubtractMovements(moved, type, quantity, reference) ==
    LET newStock == [p \in moved |-> Thousandths(currentStock[p]) - quantity[p]]
    IN  /\ \A p \in moved : newStock[p] >= 0
        /\ PersistMovements(moved, type, quantity, newStock, reference)

\* applySaleOut and applyVoidReversal, for all the products of a ticket: the
\* service applies them one after the other, a refusal rolls all of them back.
ApplySaleOut(moved, quantity, t) ==
    SubtractMovements(moved, "SALE_OUT", quantity, t)
ApplyVoidReversal(moved, quantity, t) ==
    AddMovements(moved, "VOID_REVERSAL", quantity, t)

-----------------------------------------------------------------------------
\* findProductForMovement, before the transaction.
FindProductForMovement(c, p) ==
    /\ request[c] = Idle
    /\ IsFinished(p)
    /\ productActive[p]
    /\ request' = [request EXCEPT ![c] = [kind |-> "movement", product |-> p]]
    /\ UNCHANGED <<currentStock, minimumStock, movements>>

\* findProductForRead, before the transaction of updateMinimumStock.
FindProductForRead(c, p) ==
    /\ request[c] = Idle
    /\ IsFinished(p)
    /\ request' = [request EXCEPT ![c] = [kind |-> "minimum", product |-> p]]
    /\ UNCHANGED <<currentStock, minimumStock, movements>>

EndRequest(c) == request' = [request EXCEPT ![c] = Idle]

StockIn(c, input) ==
    /\ request[c].kind = "movement"
    /\ AddMovements({request[c].product}, "STOCK_IN",
                    [p \in Products |-> input], None)
    /\ EndRequest(c)
    /\ UNCHANGED minimumStock

ReturnIn(c, input) ==
    /\ request[c].kind = "movement"
    /\ AddMovements({request[c].product}, "RETURN_IN",
                    [p \in Products |-> input], None)
    /\ EndRequest(c)
    /\ UNCHANGED minimumStock

RegisterWaste(c, input) ==
    /\ request[c].kind = "movement"
    /\ SubtractMovements({request[c].product}, "WASTE",
                         [p \in Products |-> input], None)
    /\ EndRequest(c)
    /\ UNCHANGED minimumStock

\* Faulty: the movement records the count instead of the difference.
ManualAdjustByCount(c, target) ==
    LET p == request[c].product
    IN  /\ request[c].kind = "movement"
        /\ target # Thousandths(currentStock[p])
        /\ PersistMovements({p}, "MANUAL_ADJUSTMENT",
               [q \in {p} |-> target], [q \in {p} |-> target], None)
        /\ EndRequest(c)
        /\ UNCHANGED minimumStock

\* manualAdjust: target is the stock the clerk counted.
ManualAdjust(c, target) ==
    LET p == request[c].product
        previous == Thousandths(currentStock[p])
    IN  /\ request[c].kind = "movement"
        /\ target # previous
        /\ PersistMovements({p}, "MANUAL_ADJUSTMENT",
               [q \in {p} |-> AbsDiff(previous, target)],
               [q \in {p} |-> target], None)
        /\ EndRequest(c)
        /\ UNCHANGED minimumStock

\* Faulty: the upsert writes the whole row of a new product.
UpdateMinimumStockResetting(c, minimum) ==
    /\ request[c].kind = "minimum"
    /\ minimumStock' = [minimumStock EXCEPT ![request[c].product] = Stored(minimum)]
    /\ currentStock' = [currentStock EXCEPT ![request[c].product] = 0]
    /\ EndRequest(c)
    /\ UNCHANGED movements

UpdateMinimumStock(c, minimum) ==
    /\ request[c].kind = "minimum"
    /\ minimumStock' = [minimumStock EXCEPT ![request[c].product] = Stored(minimum)]
    /\ EndRequest(c)
    /\ UNCHANGED <<currentStock, movements>>

\* The transaction is refused (409), fails after its retries, or the process
\* stops: it leaves nothing behind.
RequestFails(c) ==
    /\ request[c] # Idle
    /\ EndRequest(c)
    /\ UNCHANGED <<currentStock, minimumStock, movements>>

InventoryNext ==
    \E c \in Clerks :
        \/ \E p \in Products : FindProductForMovement(c, p) \/ FindProductForRead(c, p)
        \/ \E input \in Inputs :
            StockIn(c, input) \/ ReturnIn(c, input) \/ RegisterWaste(c, input)
        \/ \E target \in Inputs \cup {0} : ManualAdjust(c, target)
        \/ \E minimum \in Inputs \cup {0} : UpdateMinimumStock(c, minimum)
        \/ RequestFails(c)

\* The component on its own: the catalogue changes under the clerks' requests.
stockVars == <<catalogVars, inventoryVars>>

StockNext ==
    \/ CatalogNext /\ UNCHANGED inventoryVars
    \/ InventoryNext /\ UNCHANGED catalogVars

StockInit == CatalogInit /\ InventoryInit

InventorySpec == StockInit /\ [][StockNext]_stockVars

-----------------------------------------------------------------------------
StockTypeOK == CatalogTypeOK /\ InventoryTypeOK

\* The ledger of a product is one chain from an empty stock to the current
\* one: each movement starts from the stock the one before it left, although
\* concurrent requests and sales wrote them (persistMovement).
ChainFrom(ledger, stock) ==
    /\ stock = IF ledger = <<>> THEN 0 ELSE ledger[Len(ledger)].newStock
    /\ \A i \in DOMAIN ledger :
        ledger[i].previousStock = IF i = 1 THEN 0 ELSE ledger[i - 1].newStock

LedgerReconstructsStock ==
    \A p \in Products : ChainFrom(movements[p], currentStock[p])

\* A movement accounts for its change of stock: additions and sales exactly
\* (a sale's quantity was rounded when its line was stored); in the others
\* quantity and stocks are rounded apart, by at most one hundredth.
ExplainsWithinOneHundredth(m) ==
    /\ m.movementType \in InTypes => m.newStock = m.previousStock + m.quantity
    /\ m.movementType = "SALE_OUT" => m.previousStock = m.newStock + m.quantity
    /\ m.movementType = "WASTE" =>
        AbsDiff(m.previousStock, m.newStock + m.quantity) <= 1
    /\ m.movementType = "MANUAL_ADJUSTMENT" =>
        AbsDiff(m.quantity, AbsDiff(m.previousStock, m.newStock)) <= 1

\* docs/04: the stock can be rebuilt from the movements, up to the rounding of
\* quantities no input validation limits to the two decimals of the columns.
DriftIsBounded ==
    \A p \in Products : \A i \in DOMAIN movements[p] :
        ExplainsWithinOneHundredth(movements[p][i])

\* Stock never changes without a movement, and movements are never rewritten
\* or removed: a step leaves a product alone or appends one to its ledger.
LedgerOnlyGrows ==
    [][\A p \in Products :
        \/ movements'[p] = movements[p] /\ currentStock'[p] = currentStock[p]
        \/ /\ Len(movements'[p]) = Len(movements[p]) + 1
           /\ \A i \in DOMAIN movements[p] : movements'[p][i] = movements[p][i]
      ]_stockVars

\* docs/02, section 1: a deactivated product is not used in new operations, so
\* it receives no manual movement.
NoMovementOnInactiveProduct ==
    [][\A p \in Products :
        ~productActive[p] => \/ movements'[p] = movements[p]
                             \/ movements'[p][Len(movements'[p])].referenceId # None
      ]_stockVars
==============================================================================
