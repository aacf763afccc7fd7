-------------------------------- MODULE Sales --------------------------------
(***************************************************************************)
(* SalesService and TableOrdersService over the inventory and the          *)
(* catalogue: sale tickets with their lines, the table order a ticket may  *)
(* belong to, and the operation events both announce.                      *)
(*                                                                         *)
(* Each endpoint is one serializable transaction, so one action; a request *)
(* that is refused (4xx) or rolled back changes nothing and is no action.  *)
(* The expectedVersion of a request only refuses it when it is stale: the  *)
(* actions are the requests whose version is current.                      *)
(*                                                                         *)
(* TableOrder.saleTicketId is unique and an order is inserted with its     *)
(* ticket, so an order is named by its ticket; addItem merges lines of the *)
(* same product, so a line is named by its product.                        *)
(***************************************************************************)
EXTENDS Inventory, Functions

CONSTANTS
    OPERATIONS_SSE,     \* the feature flag: write OperationEvent rows
    MaxVersion          \* bound: a ticket at this version is not edited again

ASSUME OperationsSseAssumption == OPERATIONS_SSE \in BOOLEAN
ASSUME MaxVersionAssumption == MaxVersion \in Nat

VARIABLES
    ticket,         \* SaleTicket rows, but for their amount
    totalAmount,    \* SaleTicket.totalAmount, in cents
    items,          \* SaleTicketItem rows of a ticket, by product
    order,          \* TableOrder rows, by ticket
    ticketEvent,    \* version announced by the last sale-ticket.changed event
    orderEvent      \* version announced by the last table-order.changed event

salesVars == <<ticket, totalAmount, items, order, ticketEvent, orderEvent>>
vars == <<catalogVars, inventoryVars, salesVars>>

TicketStatuses == {"ABSENT", "DRAFT", "CONFIRMED", "CANCELLED", "VOIDED"}
OrderStatuses == {"ABSENT", "OPEN", "CLOSED", "CANCELLED"}
PaymentMethods == {"CASH", "TRANSFER"}
ASSUME MethodsAssumption == None \notin PaymentMethods

\* paymentMethod and paymentBankId, of a ticket or of a request.
Payment == [method: PaymentMethods \cup {None}, bank: Banks \cup {None}]
NoPayment == [method |-> None, bank |-> None]

Ticket == [status: TicketStatuses, version: Nat, channel: Channels \cup {None},
           payment: Payment]
Item == [quantity: Nat, unitPrice: Nat, subtotal: Nat]
Order == [status: OrderStatuses, version: Nat, table: Tables \cup {None}]

\* A line with quantity 0 is a row that does not exist.
NoItem == [quantity |-> 0, unitPrice |-> 0, subtotal |-> 0]
NoItems == [p \in Products |-> NoItem]
Lines(t) == {p \in Products : items[t][p].quantity > 0}

SalesTypeOK ==
    /\ ticket \in [Tickets -> Ticket]
    /\ \A t \in Tickets : ticket[t].status # "ABSENT" => ticket[t].channel \in Channels
    /\ DOMAIN totalAmount = Tickets
    /\ items \in [Tickets -> [Products -> Item]]
    /\ order \in [Tickets -> Order]
    /\ ticketEvent \in [Tickets -> Nat]
    /\ orderEvent \in [Tickets -> Nat]

SalesInit ==
    /\ ticket = [t \in Tickets |-> [status |-> "ABSENT", version |-> 0,
                    channel |-> None, payment |-> NoPayment]]
    /\ totalAmount = [t \in Tickets |-> 0]
    /\ items = [t \in Tickets |-> NoItems]
    /\ order = [t \in Tickets |-> [status |-> "ABSENT", version |-> 0, table |-> None]]
    /\ ticketEvent = [t \in Tickets |-> 0]
    /\ orderEvent = [t \in Tickets |-> 0]

-----------------------------------------------------------------------------
\* Faulty: cash with a bank is accepted.
ResolvesPaymentLoosely(payment, requireMethod) ==
    \/ payment = NoPayment /\ ~requireMethod
    \/ payment.method = "CASH"
    \/ payment.method = "TRANSFER" /\ payment.bank \in Banks /\ bankActive[payment.bank]

\* resolvePaymentSelection: the selections it accepts.  It returns them as
\* they are given; a transfer needs a bank that is active now.
ResolvesPayment(payment, requireMethod) ==
    \/ payment = NoPayment /\ ~requireMethod
    \/ payment.method = "CASH" /\ payment.bank = None
    \/ payment.method = "TRANSFER" /\ payment.bank \in Banks /\ bankActive[payment.bank]

\* dto.paymentMethod ?? ticket.paymentMethod, and the same for the bank.
PaymentOver(given, saved) ==
    [method |-> IF given.method = None THEN saved.method ELSE given.method,
     bank   |-> IF given.bank = None THEN saved.bank ELSE given.bank]

\* findProductSalesContext: the product can be added to a ticket of ch.
Sellable(p, ch) ==
    /\ productActive[p]
    /\ ~IsRecipeBased(p)
    /\ p \in costed
    /\ currentPrice[p][ch] # None

\* recalculateTicketTotals: the sum of the stored subtotals.
TotalOf(lines) == SumFunction([p \in Products |-> lines[p].subtotal])

\* Faulty: lines the stock does not cover are skipped.
InventoryItemsInStock(t) ==
    {p \in Lines(t) : IsFinished(p) /\ currentStock[p] >= items[t][p].quantity}

\* groupInventoryItems: the lines whose product is FINISHED_PRODUCT now.
InventoryItems(t) == {p \in Lines(t) : IsFinished(p)}
ItemQuantities(t) == [p \in Products |-> Thousandths(items[t][p].quantity)]

\* emitOperationEvent of each service.
EmitTicketEvent(t, version) ==
    ticketEvent' = IF OPERATIONS_SSE THEN [ticketEvent EXCEPT ![t] = version]
                                     ELSE ticketEvent
EmitOrderEvent(t, version) ==
    orderEvent' = IF OPERATIONS_SSE THEN [orderEvent EXCEPT ![t] = version]
                                    ELSE orderEvent

\* Faulty: the event carries the version read before the update.
UpdateOrderAnnouncingOld(t, status) ==
    /\ order' = [order EXCEPT ![t].status = status, ![t].version = @ + 1]
    /\ EmitOrderEvent(t, order[t].version)

\* tableOrder.update with version increment 1, and its event.
UpdateOrder(t, status) ==
    /\ order' = [order EXCEPT ![t].status = status, ![t].version = @ + 1]
    /\ EmitOrderEvent(t, order[t].version + 1)

\* Faulty: an edit of the ticket is not a change of its order.
SyncRelatedOrderStatusOnly(t, transition) ==
    \/ /\ order[t].status = "ABSENT" \/ transition = "EDITED"
       /\ UNCHANGED <<order, orderEvent>>
    \/ /\ order[t].status # "ABSENT"
       /\ transition # "VOIDED" => order[t].status = "OPEN"
       /\ transition # "EDITED"
       /\ UpdateOrder(t, IF transition \in {"CLOSED", "CANCELLED"}
                         THEN transition ELSE order[t].status)

\* syncRelatedOrder, called by the sales endpoints: a ticket without an order
\* is left alone, an order that is not OPEN refuses everything but a void.
SyncRelatedOrder(t, transition) ==
    \/ /\ order[t].status = "ABSENT"
       /\ UNCHANGED <<order, orderEvent>>
    \/ /\ order[t].status # "ABSENT"
       /\ transition # "VOIDED" => order[t].status = "OPEN"
       /\ UpdateOrder(t, IF transition \in {"CLOSED", "CANCELLED"}
                         THEN transition ELSE order[t].status)

\* mutateItems, close and cancel of TableOrdersService: only an OPEN order.
UpdateOpenOrder(t, status) ==
    /\ order[t].status = "OPEN"
    /\ UpdateOrder(t, status)

-----------------------------------------------------------------------------
(* The parts of the transactions that only concern the ticket. *)

\* createDraftInTransaction; it announces nothing.
CreateDraft(t, ch, payment) ==
    /\ ticket[t].status = "ABSENT"
    /\ channelActive[ch]
    /\ ResolvesPayment(payment, FALSE)
    /\ ticket' = [ticket EXCEPT ![t] = [status |-> "DRAFT", version |-> 1,
                    channel |-> ch, payment |-> payment]]
    /\ totalAmount' = [totalAmount EXCEPT ![t] = 0]
    /\ UNCHANGED <<items, ticketEvent>>

\* Faulty: any ticket that was not voided.
IsEditableUnlessVoided(t) ==
    /\ ticket[t].status \in {"DRAFT", "CONFIRMED", "CANCELLED"}
    /\ ticket[t].version < MaxVersion

\* ensureDraftTicket; the second conjunct is the bound.
IsEditable(t) ==
    /\ ticket[t].status = "DRAFT"
    /\ ticket[t].version < MaxVersion

\* Faulty: the version is left to the caller.
WriteLinesUnversioned(t, lines) ==
    /\ items' = [items EXCEPT ![t] = lines]
    /\ totalAmount' = [totalAmount EXCEPT ![t] = TotalOf(lines)]
    /\ UNCHANGED ticket
    /\ EmitTicketEvent(t, ticket[t].version)

\* The line writes: recalculateTicketTotals, then the event with the version read back.
WriteLines(t, lines) ==
    /\ items' = [items EXCEPT ![t] = lines]
    /\ totalAmount' = [totalAmount EXCEPT ![t] = TotalOf(lines)]
    /\ ticket' = [ticket EXCEPT ![t].version = @ + 1]
    /\ EmitTicketEvent(t, ticket[t].version + 1)

\* A Decimal(10,2) column of money: PostgreSQL rounds cents per unit times
\* thousandths of a unit to whole cents, half a cent up.
StoredCents(amount) == (amount + 500) \div 1000

\* A line as it is stored: the subtotal is computed from the unrounded quantity.
LineOf(quantity, unitPrice) ==
    [quantity |-> Stored(quantity), unitPrice |-> unitPrice,
     subtotal |-> StoredCents(unitPrice * quantity)]

WriteLine(t, p, quantity, unitPrice) ==
    /\ Stored(quantity) <= MaxStored
    /\ WriteLines(t, [items[t] EXCEPT ![p] = LineOf(quantity, unitPrice)])

\* addItem: a product already on the ticket keeps the price of its first line.
PutItem(t, p, input) ==
    /\ IsEditable(t)
    /\ Sellable(p, ticket[t].channel)
    /\ WriteLine(t, p, Thousandths(items[t][p].quantity) + input,
                 IF p \in Lines(t) THEN items[t][p].unitPrice
                                   ELSE currentPrice[p][ticket[t].channel])

\* Faulty: the quantity changes and the subtotal stays.
ChangeItemQuantity(t, p, input) ==
    /\ IsEditable(t)
    /\ p \in Lines(t)
    /\ WriteLines(t, [items[t] EXCEPT ![p].quantity = Stored(input)])

\* updateItem: the product is not looked at again.
ChangeItem(t, p, input) ==
    /\ IsEditable(t)
    /\ p \in Lines(t)
    /\ WriteLine(t, p, input, items[t][p].unitPrice)

\* Faulty: the totals are not recalculated.
DropItemOnly(t, p) ==
    /\ IsEditable(t)
    /\ p \in Lines(t)
    /\ items' = [items EXCEPT ![t][p] = NoItem]
    /\ ticket' = [ticket EXCEPT ![t].version = @ + 1]
    /\ EmitTicketEvent(t, ticket[t].version + 1)
    /\ UNCHANGED totalAmount

DropItem(t, p) ==
    /\ IsEditable(t)
    /\ p \in Lines(t)
    /\ WriteLines(t, [items[t] EXCEPT ![p] = NoItem])

\* The ticket.update of update, confirm, cancel and void.
UpdateTicket(t, status, payment) ==
    /\ ticket' = [ticket EXCEPT ![t].status = status, ![t].version = @ + 1,
                                ![t].payment = payment]
    /\ EmitTicketEvent(t, ticket[t].version + 1)
    /\ UNCHANGED <<totalAmount, items>>

CancelDraft(t) ==
    /\ ticket[t].status = "DRAFT"
    /\ UpdateTicket(t, "CANCELLED", ticket[t].payment)

\* Faulty: the status of the ticket is not checked.
ConfirmAny(t, given) ==
    LET payment == PaymentOver(given, ticket[t].payment)
    IN  /\ Lines(t) # {}
        /\ channelActive[ticket[t].channel]
        /\ ResolvesPayment(payment, TRUE)
        /\ \A p \in Lines(t) : productActive[p] /\ ~IsRecipeBased(p)
        /\ ApplySaleOut(InventoryItems(t), ItemQuantities(t), t)
        /\ UpdateTicket(t, "CONFIRMED", payment)

ConfirmDraft(t, given) ==
    LET payment == PaymentOver(given, ticket[t].payment)
    IN  /\ ticket[t].status = "DRAFT"
        /\ Lines(t) # {}
        /\ channelActive[ticket[t].channel]
        /\ ResolvesPayment(payment, TRUE)
        /\ \A p \in Lines(t) : productActive[p] /\ ~IsRecipeBased(p)
        /\ ApplySaleOut(InventoryItems(t), ItemQuantities(t), t)
        /\ UpdateTicket(t, "CONFIRMED", payment)

-----------------------------------------------------------------------------
(* SalesController: the endpoints on tickets, linked to an order or not. *)

Create(t, ch, payment) ==
    /\ CreateDraft(t, ch, payment)
    /\ UNCHANGED <<order, orderEvent, inventoryVars>>

UpdateNotes(t) ==
    /\ IsEditable(t)
    /\ UpdateTicket(t, "DRAFT", ticket[t].payment)
    /\ SyncRelatedOrder(t, "EDITED")
    /\ UNCHANGED inventoryVars

UpdatePayment(t, payment) ==
    /\ IsEditable(t)
    /\ ResolvesPayment(payment, FALSE)
    /\ UpdateTicket(t, "DRAFT", payment)
    /\ SyncRelatedOrder(t, "EDITED")
    /\ UNCHANGED inventoryVars

AddItem(t, p, input) ==
    /\ PutItem(t, p, input)
    /\ SyncRelatedOrder(t, "EDITED")
    /\ UNCHANGED inventoryVars

UpdateItem(t, p, input) ==
    /\ ChangeItem(t, p, input)
    /\ SyncRelatedOrder(t, "EDITED")
    /\ UNCHANGED inventoryVars

RemoveItem(t, p) ==
    /\ DropItem(t, p)
    /\ SyncRelatedOrder(t, "EDITED")
    /\ UNCHANGED inventoryVars

\* Faulty: the order of the ticket is forgotten.
CancelTicketOnly(t) ==
    /\ CancelDraft(t)
    /\ UNCHANGED <<order, orderEvent, inventoryVars>>

Cancel(t) ==
    /\ CancelDraft(t)
    /\ SyncRelatedOrder(t, "CANCELLED")
    /\ UNCHANGED inventoryVars

Confirm(t, given) ==
    /\ ConfirmDraft(t, given)
    /\ SyncRelatedOrder(t, "CLOSED")
    /\ UNCHANGED <<minimumStock, request>>

\* Faulty: a voided ticket can be voided again.
VoidAgain(t) ==
    /\ ticket[t].status \in {"CONFIRMED", "VOIDED"}
    /\ \A p \in Lines(t) : ~IsRecipeBased(p)
    /\ ApplyVoidReversal(InventoryItems(t), ItemQuantities(t), t)
    /\ UpdateTicket(t, "VOIDED", ticket[t].payment)
    /\ SyncRelatedOrder(t, "VOIDED")
    /\ UNCHANGED <<minimumStock, request>>

\* void: what is put back is decided by the products' types now.
Void(t) ==
    /\ ticket[t].status = "CONFIRMED"
    /\ \A p \in Lines(t) : ~IsRecipeBased(p)
    /\ ApplyVoidReversal(InventoryItems(t), ItemQuantities(t), t)
    /\ UpdateTicket(t, "VOIDED", ticket[t].payment)
    /\ SyncRelatedOrder(t, "VOIDED")
    /\ UNCHANGED <<minimumStock, request>>

-----------------------------------------------------------------------------
(* TableOrdersController: the endpoints on an order and its ticket. *)

\* Faulty: only the table's own row is looked at.
TableIsFreeUnchecked(s) == tableActive[s]

TableIsFree(s) == ~\E t \in Tickets : order[t].status = "OPEN" /\ order[t].table = s

Open(t, s, ch) ==
    /\ tableActive[s]
    /\ TableIsFree(s)
    /\ CreateDraft(t, ch, NoPayment)
    /\ order' = [order EXCEPT ![t] = [status |-> "OPEN", version |-> 1, table |-> s]]
    /\ EmitOrderEvent(t, 1)
    /\ UNCHANGED inventoryVars

OrderAddItem(t, p, input) ==
    /\ PutItem(t, p, input)
    /\ UpdateOpenOrder(t, "OPEN")
    /\ UNCHANGED inventoryVars

OrderUpdateItem(t, p, input) ==
    /\ ChangeItem(t, p, input)
    /\ UpdateOpenOrder(t, "OPEN")
    /\ UNCHANGED inventoryVars

OrderRemoveItem(t, p) ==
    /\ DropItem(t, p)
    /\ UpdateOpenOrder(t, "OPEN")
    /\ UNCHANGED inventoryVars

\* Faulty: closing writes the ticket and leaves the table taken.
CloseLeavingOpen(t, given) ==
    /\ ConfirmDraft(t, given)
    /\ UpdateOpenOrder(t, "OPEN")
    /\ UNCHANGED <<minimumStock, request>>

Close(t, given) ==
    /\ ConfirmDraft(t, given)
    /\ UpdateOpenOrder(t, "CLOSED")
    /\ UNCHANGED <<minimumStock, request>>

OrderCancel(t) ==
    /\ CancelDraft(t)
    /\ UpdateOpenOrder(t, "CANCELLED")
    /\ UNCHANGED inventoryVars

SalesNext ==
    \E t \in Tickets :
        \/ \E ch \in Channels, payment \in Payment : Create(t, ch, payment)
        \/ \E s \in Tables, ch \in Channels : Open(t, s, ch)
        \/ UpdateNotes(t)
        \/ \E payment \in Payment : UpdatePayment(t, payment)
        \/ \E p \in Products, input \in Inputs :
            \/ AddItem(t, p, input) \/ OrderAddItem(t, p, input)
            \/ UpdateItem(t, p, input) \/ OrderUpdateItem(t, p, input)
        \/ \E p \in Products : RemoveItem(t, p) \/ OrderRemoveItem(t, p)
        \/ \E given \in Payment : Confirm(t, given) \/ Close(t, given)
        \/ Cancel(t) \/ OrderCancel(t)
        \/ Void(t)

Init == CatalogInit /\ InventoryInit /\ SalesInit

Next ==
    \/ CatalogNext /\ UNCHANGED <<inventoryVars, salesVars>>
    \/ InventoryNext /\ UNCHANGED <<catalogVars, salesVars>>
    \/ SalesNext /\ UNCHANGED catalogVars

Spec == Init /\ [][Next]_vars

-----------------------------------------------------------------------------
TypeOK == CatalogTypeOK /\ InventoryTypeOK /\ SalesTypeOK

\* An order and its ticket always agree on how far the sale is, whichever of
\* the two sets of endpoints moved it.
OrderFollowsTicket ==
    \A t \in Tickets :
        /\ order[t].status = "OPEN" => ticket[t].status = "DRAFT"
        /\ order[t].status = "CLOSED" => ticket[t].status \in {"CONFIRMED", "VOIDED"}
        /\ order[t].status = "CANCELLED" => ticket[t].status = "CANCELLED"

\* A linked ticket and its order have had the same number of changes: every
\* endpoint increments each of the two versions exactly once, so either
\* version detects a concurrent edit made through the other endpoint.
VersionsAdvanceTogether ==
    \A t \in Tickets :
        order[t].status # "ABSENT" => order[t].version = ticket[t].version

\* At most one order of a table is OPEN.
OneOpenOrderPerTable ==
    \A t1, t2 \in Tickets :
        /\ order[t1].status = "OPEN"
        /\ order[t2].status = "OPEN"
        /\ order[t1].table = order[t2].table
        => t1 = t2

\* A subscriber told of the last event knows the current version of what was
\* changed (a ticket is announced from its first change on, an order from its opening).
EventsAnnounceLatestVersion ==
    OPERATIONS_SSE =>
        \A t \in Tickets :
            /\ ticket[t].version > 1 => ticketEvent[t] = ticket[t].version
            /\ orderEvent[t] = order[t].version

\* Position i of p's ledger is a movement of the given type for ticket t.
IsMovementOf(p, i, type, t) ==
    /\ i \in DOMAIN movements[p]
    /\ movements[p][i].movementType = type
    /\ movements[p][i].referenceId = t

\* Stock leaves for a ticket only when the ticket was confirmed, once per
\* product, and by the quantity of its line, which no later edit changed.
SaleOutOnce ==
    \A t \in Tickets, p \in Products : \A i, j \in DOMAIN movements[p] :
        /\ IsMovementOf(p, i, "SALE_OUT", t) =>
            /\ ticket[t].status \in {"CONFIRMED", "VOIDED"}
            /\ movements[p][i].quantity = items[t][p].quantity
        /\ IsMovementOf(p, i, "SALE_OUT", t) /\ IsMovementOf(p, j, "SALE_OUT", t)
            => i = j

\* Stock comes back for a ticket only when it was voided, once per product,
\* and by the quantity of its line.
VoidReversalOnce ==
    \A t \in Tickets, p \in Products : \A i, j \in DOMAIN movements[p] :
        /\ IsMovementOf(p, i, "VOID_REVERSAL", t) =>
            /\ ticket[t].status = "VOIDED"
            /\ movements[p][i].quantity = items[t][p].quantity
        /\ IsMovementOf(p, i, "VOID_REVERSAL", t) /\ IsMovementOf(p, j, "VOID_REVERSAL", t)
            => i = j

\* docs/06, docs/02 rule 8: what a void puts back is what the sale took.
ReversalMirrorsSale ==
    \A t \in Tickets, p \in Products :
        ticket[t].status = "VOIDED" =>
            (\E i \in DOMAIN movements[p] : IsMovementOf(p, i, "SALE_OUT", t))
            <=> (\E i \in DOMAIN movements[p] : IsMovementOf(p, i, "VOID_REVERSAL", t))

\* A ticket charges the sum of its lines, as stored.
TotalIsSumOfLines ==
    \A t \in Tickets : totalAmount[t] = TotalOf(items[t])

\* A sale is paid in a way the till can account for: a confirmed ticket has a
\* payment method, and a bank is recorded exactly with a transfer.
PaymentIsCoherent ==
    \A t \in Tickets :
        /\ ticket[t].status \in {"CONFIRMED", "VOIDED"} => ticket[t].payment.method # None
        /\ ticket[t].payment.bank # None <=> ticket[t].payment.method = "TRANSFER"

\* Once a ticket is not a draft its content is history: no later edit,
\* catalogue change or void alters lines, prices, total, channel or payment.
ConfirmedContentIsFrozen ==
    [][\A t \in Tickets :
        ticket[t].status \in {"CONFIRMED", "CANCELLED", "VOIDED"} =>
            /\ items'[t] = items[t]
            /\ totalAmount'[t] = totalAmount[t]
            /\ ticket'[t].channel = ticket[t].channel
            /\ ticket'[t].payment = ticket[t].payment]_vars

\* Whatever changes on a ticket, by any endpoint, changes its version and the
\* version of its order: nobody can save over a change they have not seen.
EveryChangeIsVersioned ==
    [][\A t \in Tickets :
        (items'[t] # items[t] \/ ticket'[t] # ticket[t]) /\ ticket[t].status # "ABSENT"
        => /\ ticket'[t].version = ticket[t].version + 1
           /\ order[t].status # "ABSENT" => order'[t].version = order[t].version + 1]_vars

\* Confirming takes from stock every line whose product is managed by stock,
\* all of them or none, and nothing else moves.
LinesAreTaken ==
    \A t \in Tickets :
        ticket[t].status = "DRAFT" /\ ticket'[t].status = "CONFIRMED" =>
            \A p \in Products :
                currentStock'[p] = currentStock[p] -
                    (IF IsFinished(p) THEN items[t][p].quantity ELSE 0)

ConfirmationTakesTheLines == [][LinesAreTaken]_vars

\* docs/02 rules 4, 5 and 7: a confirmed line has the price current at the
\* confirmation.
PriceIsCurrentAtConfirmation ==
    [][\A t \in Tickets, p \in Products :
        /\ ticket[t].status = "DRAFT" /\ ticket'[t].status = "CONFIRMED"
        /\ p \in Lines(t)
        => items'[t][p].unitPrice = currentPrice[p][ticket[t].channel]]_vars

\* A line's subtotal is its price times its quantity but for the rounding of
\* either column: half a hundredth of a unit at that price, and half a cent
\* (both sides are in halves of a hundredth of a cent).
SubtotalWithinRounding ==
    \A t \in Tickets, p \in Products :
        LET line == items[t][p]
        IN  2 * AbsDiff(100 * line.subtotal, line.unitPrice * line.quantity)
                <= line.unitPrice + 100

-----------------------------------------------------------------------------
(* The endpoints, whichever are used, implement the service of the floor. *)

Service == INSTANCE TableService WITH
    sale <- [t \in Tickets |-> ticket[t].status],
    seat <- [t \in Tickets |-> IF order[t].status = "OPEN" THEN order[t].table
                                                           ELSE None]

\* A table is free exactly when no draft sits at it, although closing,
\* cancelling and confirming are offered on the order and on its ticket.
ImplementsTableService == Service!ServiceSpec
==============================================================================
