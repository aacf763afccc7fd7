---------------------------- MODULE SalesProofs ------------------------------
(***************************************************************************)
(* Theorems about Sales for every set of tickets, products, tables,        *)
(* channels, banks and inputs.  Each endpoint is first shown to be one of  *)
(* five shapes of a sale step (begin, edit, cancel, confirm, void), which  *)
(* say what happens to the ticket, its order, its lines, its events and    *)
(* the stock; every theorem is then an argument about the five shapes.     *)
(***************************************************************************)
EXTENDS Sales, InventoryProofs, SumProofs

CoherentPayment(payment) == payment.bank # None <=> payment.method = "TRANSFER"

\* The order of t, if it has one, was OPEN, is now as given and has its
\* version incremented and announced.
OrderMoves(t, status) ==
    \/ /\ order[t].status = "ABSENT"
       /\ order'[t] = order[t]
       /\ orderEvent'[t] = orderEvent[t]
    \/ /\ order[t].status = "OPEN"
       /\ order'[t].status = status
       /\ order'[t].table = order[t].table
       /\ order'[t].version = order[t].version + 1
       /\ OPERATIONS_SSE => orderEvent'[t] = order'[t].version

\* The ticket goes from one status to the other, versioned and announced.
TicketMoves(t, from, to) ==
    /\ ticket[t].status = from
    /\ ticket'[t].status = to
    /\ ticket'[t].version = ticket[t].version + 1
    /\ ticket'[t].channel = ticket[t].channel
    /\ OPERATIONS_SSE => ticketEvent'[t] = ticket'[t].version

SameContent(t) == items'[t] = items[t] /\ totalAmount'[t] = totalAmount[t]

\* A line as the services leave it: no row, or a row computed by LineOf from a
\* quantity of at least a hundredth.
IsStoredLine(line) ==
    \/ line = NoItem
    \/ \E quantity \in Nat, unitPrice \in Nat :
        quantity >= 10 /\ line = LineOf(quantity, unitPrice)

\* One line of t is written, and its amount recalculated from the lines.
RewritesLine(t) ==
    /\ totalAmount'[t] = TotalOf(items'[t])
    /\ \E p \in Products, line \in Item :
        /\ IsStoredLine(line)
        /\ items'[t] = [items[t] EXCEPT ![p] = line]

Begins(t) ==
    /\ ticket[t].status = "ABSENT"
    /\ ticket'[t].status = "DRAFT"
    /\ ticket'[t].version = 1
    /\ CoherentPayment(ticket'[t].payment)
    /\ items'[t] = items[t]
    /\ totalAmount'[t] = 0
    /\ \/ /\ order'[t] = order[t]
          /\ orderEvent'[t] = orderEvent[t]
       \/ /\ order'[t].status = "OPEN"
          /\ order'[t].version = 1
          /\ order'[t].table \in Tables
          /\ TableIsFree(order'[t].table)
          /\ OPERATIONS_SSE => orderEvent'[t] = 1
    /\ UNCHANGED inventoryVars

Edits(t) ==
    /\ TicketMoves(t, "DRAFT", "DRAFT")
    /\ ticket'[t].payment = ticket[t].payment \/ CoherentPayment(ticket'[t].payment)
    /\ SameContent(t) \/ RewritesLine(t)
    /\ OrderMoves(t, "OPEN")
    /\ UNCHANGED inventoryVars

Cancels(t) ==
    /\ TicketMoves(t, "DRAFT", "CANCELLED")
    /\ ticket'[t].payment = ticket[t].payment
    /\ SameContent(t)
    /\ OrderMoves(t, "CANCELLED")
    /\ UNCHANGED inventoryVars

Confirms(t) ==
    /\ TicketMoves(t, "DRAFT", "CONFIRMED")
    /\ Lines(t) # {}
    /\ CoherentPayment(ticket'[t].payment)
    /\ ticket'[t].payment.method # None
    /\ SameContent(t)
    /\ OrderMoves(t, "CLOSED")
    /\ ApplySaleOut(InventoryItems(t), ItemQuantities(t), t)
    /\ UNCHANGED <<minimumStock, request>>

Voids(t) ==
    /\ TicketMoves(t, "CONFIRMED", "VOIDED")
    /\ ticket'[t].payment = ticket[t].payment
    /\ SameContent(t)
    /\ \/ OrderMoves(t, "OPEN")
       \/ /\ order'[t].status = order[t].status
          /\ order[t].status # "ABSENT"
          /\ order'[t].table = order[t].table
          /\ order'[t].version = order[t].version + 1
          /\ OPERATIONS_SSE => orderEvent'[t] = order'[t].version
    /\ ApplyVoidReversal(InventoryItems(t), ItemQuantities(t), t)
    /\ UNCHANGED <<minimumStock, request>>

\* A step of the sale of t leaves the other sales alone.
SaleStep(t) ==
    /\ SalesTypeOK'
    /\ \A u \in Tickets \ {t} :
        /\ ticket'[u] = ticket[u]
        /\ order'[u] = order[u]
        /\ SameContent(u)
        /\ ticketEvent'[u] = ticketEvent[u]
        /\ orderEvent'[u] = orderEvent[u]
    /\ Begins(t) \/ Edits(t) \/ Cancels(t) \/ Confirms(t) \/ Voids(t)

-----------------------------------------------------------------------------
(* The endpoints have these shapes. *)

\* What the order writes leave: only the order of t and its event.
OrderFrame(t) ==
    /\ order' \in [Tickets -> Order]
    /\ orderEvent' \in [Tickets -> Nat]
    /\ \A u \in Tickets \ {t} : order'[u] = order[u] /\ orderEvent'[u] = orderEvent[u]

\* Writing the order of t with its version incremented moves it, and keeps the
\* type of the order and event tables (tableOrder.update and emitOperationEvent).
LEMMA OrderWrite ==
    ASSUME SalesTypeOK, NEW t \in Tickets, NEW status \in OrderStatuses,
           UpdateOrder(t, status)
    PROVE  /\ OrderFrame(t)
           /\ order'[t].status = status
           /\ order'[t].table = order[t].table
           /\ order'[t].version = order[t].version + 1
           /\ OPERATIONS_SSE => orderEvent'[t] = order'[t].version
<1>1. order[t] \in Order
    BY DEF SalesTypeOK
<1>2. order' = [order EXCEPT ![t].status = status, ![t].version = @ + 1]
    BY DEF UpdateOrder
<1>3. /\ order' \in [Tickets -> Order]
      /\ order'[t].status = status
      /\ order'[t].table = order[t].table
      /\ order'[t].version = order[t].version + 1
      /\ \A u \in Tickets \ {t} : order'[u] = order[u]
    <2>1. order'[t] = [order[t] EXCEPT !.status = status, !.version = @ + 1]
        BY <1>2 DEF SalesTypeOK
    <2>2. /\ \A u \in Tickets \ {t} : order'[u] = order[u]
          /\ order' = [u \in Tickets |-> order'[u]]
        BY <1>2 DEF SalesTypeOK
    <2>3. /\ order'[t] \in Order
          /\ order'[t].status = status
          /\ order'[t].table = order[t].table
          /\ order'[t].version = order[t].version + 1
        <3>1. order[t] = [status |-> order[t].status, version |-> order[t].version,
                          table |-> order[t].table]
            BY <1>1 DEF Order
        <3>2. order'[t] = [status |-> status, version |-> order[t].version + 1,
                           table |-> order[t].table]
            BY <2>1, <3>1
        <3>3. order[t].version \in Nat /\ order[t].table \in Tables \cup {None}
            BY <1>1 DEF Order
        <3>4. QED
            BY <3>2, <3>3 DEF Order
    <2>4. \A u \in Tickets : order'[u] \in Order
        BY <2>2, <2>3 DEF SalesTypeOK
    <2>5. QED
        BY <2>2, <2>3, <2>4
<1>4. /\ orderEvent' \in [Tickets -> Nat]
      /\ OPERATIONS_SSE => orderEvent'[t] = order[t].version + 1
      /\ \A u \in Tickets \ {t} : orderEvent'[u] = orderEvent[u]
    BY <1>1 DEF SalesTypeOK, Order, UpdateOrder, EmitOrderEvent
<1>5. QED
    BY <1>3, <1>4 DEF OrderFrame

\* TableOrdersService moves an OPEN order.
LEMMA OpenOrderMoves ==
    ASSUME SalesTypeOK, NEW t \in Tickets, NEW status \in OrderStatuses,
           UpdateOpenOrder(t, status)
    PROVE  OrderFrame(t) /\ OrderMoves(t, status)
BY OrderWrite DEF UpdateOpenOrder, OrderMoves

\* SalesService moves the order of the ticket with it, if there is one.
LEMMA RelatedOrderMoves ==
    ASSUME SalesTypeOK, NEW t \in Tickets,
           NEW transition \in {"EDITED", "CLOSED", "CANCELLED"},
           SyncRelatedOrder(t, transition)
    PROVE  /\ OrderFrame(t)
           /\ OrderMoves(t, IF transition = "EDITED" THEN "OPEN" ELSE transition)
<1> DEFINE status == IF transition = "EDITED" THEN "OPEN" ELSE transition
<1>1. CASE order[t].status = "ABSENT" /\ UNCHANGED <<order, orderEvent>>
    BY <1>1 DEF SalesTypeOK, OrderFrame, OrderMoves
<1>2. CASE order[t].status = "OPEN" /\ UpdateOrder(t, status)
    <2>1. status \in OrderStatuses
        BY DEF OrderStatuses
    <2>2. QED
        BY <1>2, <2>1, OrderWrite DEF OrderMoves
<1>3. QED
    BY <1>1, <1>2 DEF SyncRelatedOrder

\* A void keeps the status of the order.
LEMMA VoidedOrderMoves ==
    ASSUME SalesTypeOK, NEW t \in Tickets, SyncRelatedOrder(t, "VOIDED")
    PROVE  /\ OrderFrame(t)
           /\ \/ OrderMoves(t, "OPEN")
              \/ /\ order'[t].status = order[t].status
                 /\ order[t].status # "ABSENT"
                 /\ order'[t].table = order[t].table
                 /\ order'[t].version = order[t].version + 1
                 /\ OPERATIONS_SSE => orderEvent'[t] = order'[t].version
<1>1. CASE order[t].status = "ABSENT" /\ UNCHANGED <<order, orderEvent>>
    BY <1>1 DEF SalesTypeOK, OrderFrame, OrderMoves
<1>2. CASE order[t].status # "ABSENT" /\ UpdateOrder(t, order[t].status)
    <2>1. order[t].status \in OrderStatuses
        BY DEF SalesTypeOK, Order
    <2>2. QED
        BY <1>2, <2>1, OrderWrite
<1>3. QED
    BY <1>1, <1>2 DEF SyncRelatedOrder

\* What the ticket writes leave: only the ticket of t, its lines and its event.
TicketFrame(t) ==
    /\ ticket' \in [Tickets -> Ticket]
    /\ ticket'[t].status # "ABSENT" => ticket'[t].channel \in Channels
    /\ items' \in [Tickets -> [Products -> Item]]
    /\ DOMAIN totalAmount' = Tickets
    /\ ticketEvent' \in [Tickets -> Nat]
    /\ \A u \in Tickets \ {t} :
        /\ ticket'[u] = ticket[u]
        /\ SameContent(u)
        /\ ticketEvent'[u] = ticketEvent[u]

\* A ticket.update that sets the status and the payment is a move of the ticket,
\* and keeps the type of the ticket and event tables.
LEMMA TicketWrite ==
    ASSUME SalesTypeOK, NEW t \in Tickets, NEW status \in TicketStatuses,
           NEW payment \in Payment, ticket[t].status # "ABSENT",
           UpdateTicket(t, status, payment)
    PROVE  /\ TicketFrame(t)
           /\ TicketMoves(t, ticket[t].status, status)
           /\ ticket'[t].payment = payment
           /\ SameContent(t)
<1>1. ticket[t] \in Ticket
    BY DEF SalesTypeOK
<1>2. ticket' = [ticket EXCEPT ![t].status = status, ![t].version = @ + 1,
                               ![t].payment = payment]
    BY DEF UpdateTicket
<1>3. /\ ticket' \in [Tickets -> Ticket]
      /\ ticket'[t].status = status
      /\ ticket'[t].version = ticket[t].version + 1
      /\ ticket'[t].channel = ticket[t].channel
      /\ ticket'[t].payment = payment
      /\ \A u \in Tickets \ {t} : ticket'[u] = ticket[u]
    <2>1. ticket'[t] = [ticket[t] EXCEPT !.status = status, !.version = @ + 1,
                                         !.payment = payment]
        BY <1>2 DEF SalesTypeOK
    <2>2. /\ \A u \in Tickets \ {t} : ticket'[u] = ticket[u]
          /\ ticket' = [u \in Tickets |-> ticket'[u]]
        BY <1>2 DEF SalesTypeOK
    <2>3. /\ ticket'[t] \in Ticket
          /\ ticket'[t].status = status
          /\ ticket'[t].version = ticket[t].version + 1
          /\ ticket'[t].channel = ticket[t].channel
          /\ ticket'[t].payment = payment
        <3>1. ticket[t] = [status |-> ticket[t].status, version |-> ticket[t].version,
                           channel |-> ticket[t].channel, payment |-> ticket[t].payment]
            BY <1>1 DEF Ticket
        <3>2. ticket'[t] = [status |-> status, version |-> ticket[t].version + 1,
                            channel |-> ticket[t].channel, payment |-> payment]
            BY <2>1, <3>1
        <3>3. ticket[t].version \in Nat /\ ticket[t].channel \in Channels \cup {None}
            BY <1>1 DEF Ticket
        <3>4. QED
            BY <3>2, <3>3 DEF Ticket
    <2>4. \A u \in Tickets : ticket'[u] \in Ticket
        BY <2>2, <2>3 DEF SalesTypeOK
    <2>5. QED
        BY <2>2, <2>3, <2>4
<1>4. /\ ticketEvent' \in [Tickets -> Nat]
      /\ OPERATIONS_SSE => ticketEvent'[t] = ticket[t].version + 1
      /\ \A u \in Tickets \ {t} : ticketEvent'[u] = ticketEvent[u]
    BY <1>1 DEF SalesTypeOK, Ticket, UpdateTicket, EmitTicketEvent
<1>5. /\ items' = items
      /\ totalAmount' = totalAmount
      /\ ticket[t].channel \in Channels
    BY DEF UpdateTicket, SalesTypeOK
<1>6. QED
    BY <1>3, <1>4, <1>5 DEF TicketFrame, TicketMoves, SameContent, SalesTypeOK

\* Writing the lines of a ticket is a move within its status that leaves the
\* payment and the other tickets alone (recalculateTicketTotals).
LEMMA LinesWrite ==
    ASSUME SalesTypeOK, NEW t \in Tickets, NEW lines \in [Products -> Item],
           ticket[t].status # "ABSENT", WriteLines(t, lines)
    PROVE  /\ TicketFrame(t)
           /\ TicketMoves(t, ticket[t].status, ticket[t].status)
           /\ ticket'[t].payment = ticket[t].payment
           /\ items'[t] = lines /\ totalAmount'[t] = TotalOf(items'[t])
<1>1. ticket[t] \in Ticket
    BY DEF SalesTypeOK
<1>2. ticket' = [ticket EXCEPT ![t].version = @ + 1]
    BY DEF WriteLines
<1>3. /\ ticket' \in [Tickets -> Ticket]
      /\ ticket'[t].status = ticket[t].status
      /\ ticket'[t].version = ticket[t].version + 1
      /\ ticket'[t].channel = ticket[t].channel
      /\ ticket'[t].payment = ticket[t].payment
      /\ \A u \in Tickets \ {t} : ticket'[u] = ticket[u]
    <2>1. ticket'[t] = [ticket[t] EXCEPT !.version = @ + 1]
        BY <1>2 DEF SalesTypeOK
    <2>2. /\ \A u \in Tickets \ {t} : ticket'[u] = ticket[u]
          /\ ticket' = [u \in Tickets |-> ticket'[u]]
        BY <1>2 DEF SalesTypeOK
    <2>3. /\ ticket'[t] \in Ticket
          /\ ticket'[t].status = ticket[t].status
          /\ ticket'[t].version = ticket[t].version + 1
          /\ ticket'[t].channel = ticket[t].channel
          /\ ticket'[t].payment = ticket[t].payment
        BY <1>1, <2>1 DEF Ticket
    <2>4. \A u \in Tickets : ticket'[u] \in Ticket
        BY <2>2, <2>3 DEF SalesTypeOK
    <2>5. QED
        BY <2>2, <2>3, <2>4
<1>4. /\ ticketEvent' \in [Tickets -> Nat]
      /\ OPERATIONS_SSE => ticketEvent'[t] = ticket[t].version + 1
      /\ \A u \in Tickets \ {t} : ticketEvent'[u] = ticketEvent[u]
    BY <1>1 DEF SalesTypeOK, Ticket, WriteLines, EmitTicketEvent
<1>5. /\ items' \in [Tickets -> [Products -> Item]]
      /\ DOMAIN totalAmount' = Tickets
      /\ \A u \in Tickets \ {t} : SameContent(u)
      /\ ticket[t].channel \in Channels
    BY DEF SalesTypeOK, WriteLines, SameContent
<1>6. items'[t] = lines /\ totalAmount'[t] = TotalOf(items'[t])
    <2>1. items'[t] = lines /\ totalAmount'[t] = TotalOf(lines)
        BY DEF SalesTypeOK, WriteLines
    <2>2. QED
        BY <2>1
<1>7. QED
    BY <1>3, <1>4, <1>5, <1>6 DEF TicketFrame, TicketMoves

\* A line as it is stored is made of natural numbers: its subtotal is one.
LEMMA StoredCentsNat == ASSUME NEW x \in Nat PROVE StoredCents(x) \in Nat
BY DEF StoredCents

\* So are the quantity and the price of the line.
LEMMA LineOfType ==
    ASSUME NEW quantity \in Nat, NEW unitPrice \in Nat
    PROVE  LineOf(quantity, unitPrice) \in Item
<1>1. unitPrice * quantity \in Nat
    OBVIOUS
<1>2. StoredCents(unitPrice * quantity) \in Nat
    BY <1>1, StoredCentsNat
<1>3. QED
    BY <1>2, StoredNat DEF LineOf, Item

\* Writing one stored line of a draft edits the ticket.
LEMMA LineWrite ==
    ASSUME SalesTypeOK, NEW t \in Tickets, NEW p \in Products, NEW line \in Item,
           ticket[t].status = "DRAFT", IsStoredLine(line),
           WriteLines(t, [items[t] EXCEPT ![p] = line])
    PROVE  /\ TicketFrame(t)
           /\ TicketMoves(t, "DRAFT", "DRAFT")
           /\ ticket'[t].payment = ticket[t].payment
           /\ RewritesLine(t)
<1> DEFINE lines == [items[t] EXCEPT ![p] = line]
<1>1. lines \in [Products -> Item]
    BY DEF SalesTypeOK
<1> HIDE DEF lines
<1>2. /\ TicketFrame(t)
      /\ TicketMoves(t, "DRAFT", "DRAFT")
      /\ ticket'[t].payment = ticket[t].payment
      /\ items'[t] = lines /\ totalAmount'[t] = TotalOf(items'[t])
    BY <1>1, LinesWrite DEF lines
<1>3. QED
    BY <1>2 DEF RewritesLine, lines

\* Adding and changing a line edits the ticket.
LEMMA LineWritesEdit ==
    ASSUME TypeOK, NEW t \in Tickets, NEW p \in Products, NEW input \in Inputs,
           PutItem(t, p, input) \/ ChangeItem(t, p, input)
    PROVE  /\ TicketFrame(t)
           /\ TicketMoves(t, "DRAFT", "DRAFT")
           /\ ticket'[t].payment = ticket[t].payment
           /\ RewritesLine(t)
<1>1. items[t] \in [Products -> Item] /\ items[t][p] \in Item /\ input \in Nat /\ input >= 10
    BY InputsAssumption DEF TypeOK, SalesTypeOK
<1>2. SalesTypeOK /\ ticket[t].status = "DRAFT"
    BY DEF TypeOK, PutItem, ChangeItem, IsEditable
<1>3. \E line \in Item : IsStoredLine(line) /\ WriteLines(t, [items[t] EXCEPT ![p] = line])
    <2>1. ASSUME NEW quantity \in Nat, NEW unitPrice \in Nat, quantity >= 10,
                 WriteLine(t, p, quantity, unitPrice)
          PROVE  \E line \in Item :
                    IsStoredLine(line) /\ WriteLines(t, [items[t] EXCEPT ![p] = line])
        <3>1. LineOf(quantity, unitPrice) \in Item /\ IsStoredLine(LineOf(quantity, unitPrice))
            BY <2>1, LineOfType DEF IsStoredLine
        <3>2. QED
            BY <2>1, <3>1 DEF WriteLine
    <2>2. CASE PutItem(t, p, input)
        <3>1. /\ Thousandths(items[t][p].quantity) + input \in Nat
              /\ Thousandths(items[t][p].quantity) + input >= 10
            BY <1>1 DEF Thousandths, Item
        <3>2. (IF p \in Lines(t) THEN items[t][p].unitPrice
                                 ELSE currentPrice[p][ticket[t].channel]) \in Nat
            <4>1. ticket[t].channel \in Channels
                BY <1>2 DEF TypeOK, SalesTypeOK
            <4>2. currentPrice[p][ticket[t].channel] \in Prices
                BY <2>2, <4>1 DEF PutItem, Sellable, TypeOK, CatalogTypeOK
            <4>3. QED
                BY <1>1, <4>2, PricesAssumption DEF Item
        <3>3. QED
            BY <2>1, <2>2, <3>1, <3>2 DEF PutItem
    <2>3. CASE ChangeItem(t, p, input)
        BY <1>1, <2>1, <2>3 DEF ChangeItem, Item
    <2>4. QED
        BY <2>2, <2>3
<1>4. QED
    BY <1>2, <1>3, LineWrite

\* Removing a line too.
LEMMA ItemDropped ==
    ASSUME SalesTypeOK, NEW t \in Tickets, NEW p \in Products, DropItem(t, p)
    PROVE  /\ TicketFrame(t)
           /\ TicketMoves(t, "DRAFT", "DRAFT")
           /\ ticket'[t].payment = ticket[t].payment
           /\ RewritesLine(t)
<1>1. NoItem \in Item /\ IsStoredLine(NoItem)
    BY DEF Item, NoItem, IsStoredLine
<1>2. ticket[t].status = "DRAFT" /\ WriteLines(t, [items[t] EXCEPT ![p] = NoItem])
    BY DEF DropItem, IsEditable
<1>3. QED
    BY <1>1, <1>2, LineWrite

\* The two frames together keep the types and the other sales.
LEMMA FramesCompose ==
    ASSUME SalesTypeOK, NEW t \in Tickets, TicketFrame(t), OrderFrame(t),
           Begins(t) \/ Edits(t) \/ Cancels(t) \/ Confirms(t) \/ Voids(t)
    PROVE  SaleStep(t)
<1>1. SalesTypeOK'
    BY DEF SalesTypeOK, TicketFrame, OrderFrame
<1>2. QED
    BY <1>1 DEF SaleStep, TicketFrame, OrderFrame

\* What resolvePaymentSelection accepts is coherent.
LEMMA PaymentResolved ==
    ASSUME NEW payment \in Payment, NEW requireMethod \in BOOLEAN,
           ResolvesPayment(payment, requireMethod)
    PROVE  CoherentPayment(payment) /\ (requireMethod => payment.method # None)
<1>1. None \notin Banks
    BY NoneAssumption
<1>2. CASE payment = NoPayment /\ ~requireMethod
    BY <1>2, MethodsAssumption DEF CoherentPayment, NoPayment, PaymentMethods
<1>3. CASE payment.method = "CASH" /\ payment.bank = None
    BY <1>3, MethodsAssumption DEF CoherentPayment, PaymentMethods
<1>4. CASE payment.method = "TRANSFER" /\ payment.bank \in Banks
    BY <1>1, <1>4, MethodsAssumption DEF CoherentPayment, PaymentMethods
<1>5. QED
    BY <1>2, <1>3, <1>4 DEF ResolvesPayment

\* What confirm takes from the request and from the ticket is a payment.
LEMMA PaymentOverType ==
    ASSUME NEW given \in Payment, NEW saved \in Payment
    PROVE  PaymentOver(given, saved) \in Payment
BY DEF PaymentOver, Payment

\* createDraftInTransaction.
LEMMA DraftWrite ==
    ASSUME SalesTypeOK, NEW t \in Tickets, NEW ch \in Channels,
           NEW payment \in Payment, CreateDraft(t, ch, payment)
    PROVE  /\ TicketFrame(t)
           /\ ticket[t].status = "ABSENT"
           /\ ticket'[t].status = "DRAFT"
           /\ ticket'[t].version = 1
           /\ CoherentPayment(ticket'[t].payment)
           /\ items'[t] = items[t]
           /\ totalAmount'[t] = 0
<1>1. /\ ticket'[t] = [status |-> "DRAFT", version |-> 1,
                       channel |-> ch, payment |-> payment]
      /\ ticket' = [u \in Tickets |-> ticket'[u]]
      /\ \A u \in Tickets \ {t} : ticket'[u] = ticket[u]
    BY DEF CreateDraft, SalesTypeOK
<1>2. ticket'[t] \in Ticket
    BY <1>1 DEF Ticket, TicketStatuses
<1>3. \A u \in Tickets : ticket'[u] \in Ticket
    BY <1>1, <1>2 DEF SalesTypeOK
<1>4. /\ DOMAIN totalAmount' = Tickets
      /\ \A u \in Tickets \ {t} : SameContent(u)
      /\ items' = items /\ ticketEvent' = ticketEvent /\ totalAmount'[t] = 0
    BY DEF CreateDraft, SalesTypeOK, SameContent
<1>5. CoherentPayment(payment)
    BY PaymentResolved DEF CreateDraft
<1>6. ticket[t].status = "ABSENT"
    BY DEF CreateDraft
<1>7. QED
    BY <1>1, <1>3, <1>4, <1>5, <1>6 DEF TicketFrame, SalesTypeOK

\* cancelDraftInTransaction.
LEMMA DraftCancelled ==
    ASSUME SalesTypeOK, NEW t \in Tickets, CancelDraft(t)
    PROVE  /\ TicketFrame(t)
           /\ TicketMoves(t, "DRAFT", "CANCELLED")
           /\ ticket'[t].payment = ticket[t].payment
           /\ SameContent(t)
<1>1. ticket[t].payment \in Payment /\ "CANCELLED" \in TicketStatuses
    BY DEF SalesTypeOK, Ticket, TicketStatuses
<1>2. QED
    BY <1>1, TicketWrite DEF CancelDraft

\* confirmDraftInTransaction.
LEMMA DraftConfirmed ==
    ASSUME SalesTypeOK, NEW t \in Tickets, NEW given \in Payment,
           ConfirmDraft(t, given)
    PROVE  /\ TicketFrame(t)
           /\ TicketMoves(t, "DRAFT", "CONFIRMED")
           /\ CoherentPayment(ticket'[t].payment)
           /\ ticket'[t].payment.method # None
           /\ Lines(t) # {}
           /\ SameContent(t)
           /\ ApplySaleOut(InventoryItems(t), ItemQuantities(t), t)
<1> DEFINE payment == PaymentOver(given, ticket[t].payment)
<1>1. ticket[t].payment \in Payment /\ "CONFIRMED" \in TicketStatuses
    BY DEF SalesTypeOK, Ticket, TicketStatuses
<1>2. payment \in Payment
    BY <1>1, PaymentOverType
<1>3. /\ ticket[t].status = "DRAFT"
      /\ Lines(t) # {}
      /\ ResolvesPayment(payment, TRUE)
      /\ UpdateTicket(t, "CONFIRMED", payment)
      /\ ApplySaleOut(InventoryItems(t), ItemQuantities(t), t)
    BY DEF ConfirmDraft
<1> HIDE DEF payment
<1>4. CoherentPayment(payment) /\ payment.method # None
    BY <1>2, <1>3, PaymentResolved
<1>5. QED
    BY <1>1, <1>2, <1>3, <1>4, TicketWrite

\* Every endpoint is a step of one sale.
LEMMA EndpointIsSaleStep ==
    ASSUME TypeOK, SalesNext
    PROVE  \E t \in Tickets : SaleStep(t)
<1> SalesTypeOK
    BY DEF TypeOK
<1>1. PICK t \in Tickets :
        \/ \E ch \in Channels, payment \in Payment : Create(t, ch, payment)
        \/ \E s \in Tables, ch \in Channels : Open(t, s, ch)
        \/ UpdateNotes(t)
        \/ \E payment \in Payment : UpdatePayment(t, payment)
        \/ \E p \in Products, input \in Inputs :
            \/ AddItem(t, p, input) \/ OrderAddItem(t, p, input)
            \/ UpdateItem(t, p, input) \/ OrderUpdateItem(t, p, input)
        \/ \E p \in Products : RemoveItem(t, p) \/ OrderRemoveItem(t, p)
        \/ \E given \in Payment : Confirm(t, given) \/ Close(t, given)
        \/ Cancel(t) \/ OrderCancel(t)
        \/ Void(t)
    BY DEF SalesNext
<1>2. ticket[t].payment \in Payment /\ order[t] \in Order
    BY DEF SalesTypeOK, Ticket
<1>3. {"OPEN", "CLOSED", "CANCELLED"} \subseteq OrderStatuses
    BY DEF OrderStatuses
<1>4. {"DRAFT", "VOIDED"} \subseteq TicketStatuses
    BY DEF TicketStatuses
<1>5. SyncRelatedOrder(t, "EDITED") \/ UpdateOpenOrder(t, "OPEN")
      => OrderFrame(t) /\ OrderMoves(t, "OPEN")
    BY <1>3, RelatedOrderMoves, OpenOrderMoves
<1>6. SyncRelatedOrder(t, "CANCELLED") \/ UpdateOpenOrder(t, "CANCELLED")
      => OrderFrame(t) /\ OrderMoves(t, "CANCELLED")
    BY <1>3, RelatedOrderMoves, OpenOrderMoves
<1>7. SyncRelatedOrder(t, "CLOSED") \/ UpdateOpenOrder(t, "CLOSED")
      => OrderFrame(t) /\ OrderMoves(t, "CLOSED")
    BY <1>3, RelatedOrderMoves, OpenOrderMoves
<1>8. ASSUME NEW ch \in Channels, NEW payment \in Payment, Create(t, ch, payment)
      PROVE  SaleStep(t)
    <2>1. OrderFrame(t) /\ order' = order /\ orderEvent' = orderEvent
        BY <1>8 DEF Create, OrderFrame, SalesTypeOK
    <2>2. Begins(t) /\ TicketFrame(t)
        BY <1>8, <2>1, DraftWrite DEF Create, Begins
    <2>3. QED
        BY <2>1, <2>2, FramesCompose
<1>9. ASSUME NEW s \in Tables, NEW ch \in Channels, Open(t, s, ch)
      PROVE  SaleStep(t)
    <2>1. /\ order'[t] = [status |-> "OPEN", version |-> 1, table |-> s]
          /\ order' = [u \in Tickets |-> order'[u]]
          /\ \A u \in Tickets \ {t} : order'[u] = order[u]
        BY <1>9 DEF Open, SalesTypeOK
    <2>2. order'[t] \in Order
        BY <2>1 DEF Order, OrderStatuses
    <2>3. /\ orderEvent' \in [Tickets -> Nat]
          /\ OPERATIONS_SSE => orderEvent'[t] = 1
          /\ \A u \in Tickets \ {t} : orderEvent'[u] = orderEvent[u]
        BY <1>9 DEF Open, EmitOrderEvent, SalesTypeOK
    <2>4. OrderFrame(t)
        BY <2>1, <2>2, <2>3 DEF OrderFrame, SalesTypeOK
    <2>5. NoPayment \in Payment
        BY DEF NoPayment, Payment
    <2>6. TicketFrame(t) /\ TableIsFree(s)
        BY <1>9, <2>5, DraftWrite DEF Open
    <2>7. Begins(t)
        <3>1. /\ order'[t].status = "OPEN"
              /\ order'[t].version = 1
              /\ order'[t].table = s
            BY <2>1
        <3>2. QED
            BY <1>9, <2>3, <2>5, <2>6, <3>1, DraftWrite DEF Open, Begins
    <2>8. QED
        BY <2>4, <2>6, <2>7, FramesCompose
<1>10. ASSUME NEW payment \in Payment,
              UpdateNotes(t) \/ UpdatePayment(t, payment)
       PROVE  SaleStep(t)
    <2>1. PICK saved \in Payment :
            /\ ticket[t].status = "DRAFT"
            /\ UpdateTicket(t, "DRAFT", saved)
            /\ saved = ticket[t].payment \/ CoherentPayment(saved)
        BY <1>2, <1>10, PaymentResolved DEF UpdateNotes, UpdatePayment, IsEditable
    <2>2. /\ TicketFrame(t) /\ TicketMoves(t, "DRAFT", "DRAFT")
          /\ ticket'[t].payment = saved /\ SameContent(t)
        BY <1>4, <2>1, TicketWrite
    <2>3. OrderFrame(t) /\ OrderMoves(t, "OPEN") /\ UNCHANGED inventoryVars
        BY <1>5, <1>10 DEF UpdateNotes, UpdatePayment
    <2>4. QED
        BY <2>1, <2>2, <2>3, FramesCompose DEF Edits
<1>11. ASSUME NEW p \in Products, NEW input \in Inputs,
              \/ AddItem(t, p, input) \/ OrderAddItem(t, p, input)
              \/ UpdateItem(t, p, input) \/ OrderUpdateItem(t, p, input)
       PROVE  SaleStep(t)
    <2>1. /\ TicketFrame(t)
          /\ TicketMoves(t, "DRAFT", "DRAFT")
          /\ ticket'[t].payment = ticket[t].payment
          /\ RewritesLine(t)
        BY <1>11, LineWritesEdit DEF AddItem, OrderAddItem, UpdateItem, OrderUpdateItem
    <2>2. OrderFrame(t) /\ OrderMoves(t, "OPEN") /\ UNCHANGED inventoryVars
        BY <1>5, <1>11 DEF AddItem, OrderAddItem, UpdateItem, OrderUpdateItem
    <2>3. QED
        BY <2>1, <2>2, FramesCompose DEF Edits
<1>12. ASSUME NEW p \in Products, RemoveItem(t, p) \/ OrderRemoveItem(t, p)
       PROVE  SaleStep(t)
    <2>1. /\ TicketFrame(t)
          /\ TicketMoves(t, "DRAFT", "DRAFT")
          /\ ticket'[t].payment = ticket[t].payment
          /\ RewritesLine(t)
        BY <1>12, ItemDropped DEF RemoveItem, OrderRemoveItem
    <2>2. OrderFrame(t) /\ OrderMoves(t, "OPEN") /\ UNCHANGED inventoryVars
        BY <1>5, <1>12 DEF RemoveItem, OrderRemoveItem
    <2>3. QED
        BY <2>1, <2>2, FramesCompose DEF Edits
<1>13. ASSUME NEW given \in Payment, Confirm(t, given) \/ Close(t, given)
       PROVE  SaleStep(t)
    <2>1. /\ TicketFrame(t)
          /\ TicketMoves(t, "DRAFT", "CONFIRMED")
          /\ CoherentPayment(ticket'[t].payment)
          /\ ticket'[t].payment.method # None
          /\ Lines(t) # {}
          /\ SameContent(t)
          /\ ApplySaleOut(InventoryItems(t), ItemQuantities(t), t)
        BY <1>13, DraftConfirmed DEF Confirm, Close
    <2>2. /\ OrderFrame(t) /\ OrderMoves(t, "CLOSED")
          /\ UNCHANGED <<minimumStock, request>>
        BY <1>7, <1>13 DEF Confirm, Close
    <2>3. QED
        BY <2>1, <2>2, FramesCompose DEF Confirms
<1>14. ASSUME Cancel(t) \/ OrderCancel(t)
       PROVE  SaleStep(t)
    <2>1. /\ TicketFrame(t)
          /\ TicketMoves(t, "DRAFT", "CANCELLED")
          /\ ticket'[t].payment = ticket[t].payment
          /\ SameContent(t)
        BY <1>14, DraftCancelled DEF Cancel, OrderCancel
    <2>2. OrderFrame(t) /\ OrderMoves(t, "CANCELLED") /\ UNCHANGED inventoryVars
        BY <1>6, <1>14 DEF Cancel, OrderCancel
    <2>3. QED
        BY <2>1, <2>2, FramesCompose DEF Cancels
<1>15. ASSUME Void(t)
       PROVE  SaleStep(t)
    <2>1. /\ TicketFrame(t)
          /\ TicketMoves(t, "CONFIRMED", "VOIDED")
          /\ ticket'[t].payment = ticket[t].payment
          /\ SameContent(t)
        BY <1>2, <1>4, <1>15, TicketWrite DEF Void
    <2>2. QED
        BY <1>15, <2>1, VoidedOrderMoves, FramesCompose DEF Void, Voids
<1>16. QED
    BY <1>1, <1>2, <1>8, <1>9, <1>10, <1>11, <1>12, <1>13, <1>14, <1>15

-----------------------------------------------------------------------------
(* What the five shapes preserve, for the orders and tickets. *)

\* A sale step keeps every order in agreement with its ticket.
LEMMA OrderFollowsStep ==
    ASSUME OrderFollowsTicket, NEW t \in Tickets, SaleStep(t)
    PROVE  OrderFollowsTicket'
<1> SUFFICES ASSUME NEW u \in Tickets
             PROVE  /\ order'[u].status = "OPEN" => ticket'[u].status = "DRAFT"
                    /\ order'[u].status = "CLOSED" =>
                            ticket'[u].status \in {"CONFIRMED", "VOIDED"}
                    /\ order'[u].status = "CANCELLED" => ticket'[u].status = "CANCELLED"
    BY DEF OrderFollowsTicket
<1>1. CASE u # t
    BY <1>1 DEF OrderFollowsTicket, SaleStep
<1>2. CASE u = t
    <2>1. CASE Begins(t)
        BY <1>2, <2>1 DEF OrderFollowsTicket, Begins
    <2>2. CASE Edits(t)
        BY <1>2, <2>2 DEF OrderFollowsTicket, Edits, TicketMoves, OrderMoves
    <2>3. CASE Cancels(t)
        BY <1>2, <2>3 DEF OrderFollowsTicket, Cancels, TicketMoves, OrderMoves
    <2>4. CASE Confirms(t)
        BY <1>2, <2>4 DEF OrderFollowsTicket, Confirms, TicketMoves, OrderMoves
    <2>5. CASE Voids(t)
        BY <1>2, <2>5 DEF OrderFollowsTicket, Voids, TicketMoves, OrderMoves
    <2>6. QED
        BY <2>1, <2>2, <2>3, <2>4, <2>5 DEF SaleStep
<1>3. QED
    BY <1>1, <1>2

\* A ticket that does not exist has no order.
LEMMA AbsentHasNoOrder ==
    ASSUME SalesTypeOK, OrderFollowsTicket, NEW t \in Tickets,
           ticket[t].status = "ABSENT"
    PROVE  order[t].status = "ABSENT"
BY DEF SalesTypeOK, OrderFollowsTicket, Order, OrderStatuses

\* A sale step keeps the versions of a ticket and its order equal.
LEMMA VersionsStep ==
    ASSUME SalesTypeOK, OrderFollowsTicket, VersionsAdvanceTogether,
           NEW t \in Tickets, SaleStep(t)
    PROVE  VersionsAdvanceTogether'
<1> SUFFICES ASSUME NEW u \in Tickets, order'[u].status # "ABSENT"
             PROVE  order'[u].version = ticket'[u].version
    BY DEF VersionsAdvanceTogether
<1>1. CASE u # t
    BY <1>1 DEF VersionsAdvanceTogether, SaleStep
<1>2. CASE u = t
    <2>1. CASE Begins(t)
        BY <1>2, <2>1, AbsentHasNoOrder DEF Begins
    <2>2. CASE Edits(t)
        BY <1>2, <2>2 DEF VersionsAdvanceTogether, Edits, TicketMoves, OrderMoves
    <2>3. CASE Cancels(t)
        BY <1>2, <2>3 DEF VersionsAdvanceTogether, Cancels, TicketMoves, OrderMoves
    <2>4. CASE Confirms(t)
        BY <1>2, <2>4 DEF VersionsAdvanceTogether, Confirms, TicketMoves, OrderMoves
    <2>5. CASE Voids(t)
        BY <1>2, <2>5 DEF VersionsAdvanceTogether, Voids, TicketMoves, OrderMoves
    <2>6. QED
        BY <2>1, <2>2, <2>3, <2>4, <2>5 DEF SaleStep
<1>3. QED
    BY <1>1, <1>2

\* An order that is OPEN after a step was OPEN at the same table before it, or
\* has just been opened at a table that was free.
LEMMA OpenAfterStep ==
    ASSUME SalesTypeOK, OrderFollowsTicket,
           NEW t \in Tickets, SaleStep(t), order'[t].status = "OPEN"
    PROVE  \/ order[t].status = "OPEN" /\ order'[t].table = order[t].table
           \/ TableIsFree(order'[t].table)
<1>1. CASE Begins(t)
    BY <1>1, AbsentHasNoOrder DEF Begins
<1>2. CASE Edits(t)
    BY <1>2 DEF Edits, OrderMoves
<1>3. CASE Cancels(t)
    BY <1>3 DEF Cancels, OrderMoves
<1>4. CASE Confirms(t)
    BY <1>4 DEF Confirms, OrderMoves
<1>5. CASE Voids(t)
    BY <1>5 DEF Voids, OrderMoves
<1>6. QED
    BY <1>1, <1>2, <1>3, <1>4, <1>5 DEF SaleStep

\* A sale step leaves at most one OPEN order on each table: only opening adds
\* one, and it found the table free.
LEMMA OneOpenStep ==
    ASSUME SalesTypeOK, OrderFollowsTicket, OneOpenOrderPerTable,
           NEW t \in Tickets, SaleStep(t)
    PROVE  OneOpenOrderPerTable'
<1> SUFFICES ASSUME NEW t1 \in Tickets, NEW t2 \in Tickets,
                    order'[t1].status = "OPEN", order'[t2].status = "OPEN",
                    order'[t1].table = order'[t2].table, t1 # t2
             PROVE  FALSE
    BY DEF OneOpenOrderPerTable
<1>1. \A u \in Tickets \ {t} : order'[u] = order[u]
    BY DEF SaleStep
<1>2. CASE t1 # t /\ t2 # t
    BY <1>1, <1>2 DEF OneOpenOrderPerTable
<1>3. CASE t1 = t
    BY <1>1, <1>3, OpenAfterStep DEF OneOpenOrderPerTable, TableIsFree
<1>4. CASE t2 = t
    BY <1>1, <1>4, OpenAfterStep DEF OneOpenOrderPerTable, TableIsFree
<1>5. QED
    BY <1>2, <1>3, <1>4

\* A sale step announces the versions it writes.
LEMMA EventsStep ==
    ASSUME SalesTypeOK, OrderFollowsTicket, EventsAnnounceLatestVersion,
           NEW t \in Tickets, SaleStep(t)
    PROVE  EventsAnnounceLatestVersion'
<1> SUFFICES ASSUME OPERATIONS_SSE, NEW u \in Tickets
             PROVE  /\ ticket'[u].version > 1 => ticketEvent'[u] = ticket'[u].version
                    /\ orderEvent'[u] = order'[u].version
    BY DEF EventsAnnounceLatestVersion
<1>1. CASE u # t
    BY <1>1 DEF EventsAnnounceLatestVersion, SaleStep
<1>2. CASE u = t
    <2>1. CASE Begins(t)
        BY <1>2, <2>1 DEF EventsAnnounceLatestVersion, Begins
    <2>2. CASE Edits(t)
        BY <1>2, <2>2 DEF EventsAnnounceLatestVersion, Edits, TicketMoves, OrderMoves
    <2>3. CASE Cancels(t)
        BY <1>2, <2>3 DEF EventsAnnounceLatestVersion, Cancels, TicketMoves, OrderMoves
    <2>4. CASE Confirms(t)
        BY <1>2, <2>4 DEF EventsAnnounceLatestVersion, Confirms, TicketMoves, OrderMoves
    <2>5. CASE Voids(t)
        BY <1>2, <2>5 DEF EventsAnnounceLatestVersion, Voids, TicketMoves, OrderMoves
    <2>6. QED
        BY <2>1, <2>2, <2>3, <2>4, <2>5 DEF SaleStep
<1>3. QED
    BY <1>1, <1>2

\* A sale step keeps the payments of the tickets accountable.
LEMMA PaymentStep ==
    ASSUME PaymentIsCoherent, NEW t \in Tickets, SaleStep(t)
    PROVE  PaymentIsCoherent'
<1> SUFFICES ASSUME NEW u \in Tickets
             PROVE  /\ ticket'[u].status \in {"CONFIRMED", "VOIDED"}
                            => ticket'[u].payment.method # None
                    /\ CoherentPayment(ticket'[u].payment)
    BY DEF PaymentIsCoherent, CoherentPayment
<1>1. /\ ticket[u].status \in {"CONFIRMED", "VOIDED"} => ticket[u].payment.method # None
      /\ CoherentPayment(ticket[u].payment)
    BY DEF PaymentIsCoherent, CoherentPayment
<1>2. CASE u # t
    BY <1>1, <1>2 DEF SaleStep
<1>3. CASE u = t
    BY <1>1, <1>3 DEF SaleStep, Begins, Edits, Cancels, Confirms, Voids, TicketMoves
<1>4. QED
    BY <1>2, <1>3

-----------------------------------------------------------------------------
(* What they preserve for the lines and the amount. *)

\* Every line was computed by the services.
LinesAreStored == \A t \in Tickets, p \in Products : IsStoredLine(items[t][p])

\* A ticket starts without lines, and is confirmed with some.
LinesFollowTicket ==
    \A t \in Tickets :
        /\ ticket[t].status = "ABSENT" => items[t] = NoItems
        /\ ticket[t].status \in {"CONFIRMED", "VOIDED"} => Lines(t) # {}

\* No lines amount to nothing.
LEMMA TotalOfNoItems == TotalOf(NoItems) = 0
<1> DEFINE f == [p \in Products |-> NoItems[p].subtotal]
<1>1. TotalOf(NoItems) = SumFunctionOnSet(f, Products)
    BY DEF TotalOf, SumFunction
<1>2. \A p \in Products : f[p] = 0
    BY DEF NoItems, NoItem
<1> HIDE DEF f
<1>3. SumFunctionOnSet(f, Products) = 0
    BY <1>2, SumZero, FiniteCatalogAssumption
<1>4. QED
    BY <1>1, <1>3

\* A sale step leaves the lines of a ticket alone, or writes one of them.
LEMMA LinesAfterStep ==
    ASSUME SalesTypeOK, NEW t \in Tickets, SaleStep(t), NEW u \in Tickets
    PROVE  \/ items'[u] = items[u]
           \/ /\ u = t
              /\ ticket[t].status = "DRAFT"
              /\ ticket'[t].status = "DRAFT"
              /\ RewritesLine(t)
BY DEF SaleStep, SameContent, Begins, Edits, Cancels, Confirms, Voids, TicketMoves

\* A sale step writes lines as LineOf computes them.
LEMMA StoredLinesStep ==
    ASSUME SalesTypeOK, LinesAreStored, NEW t \in Tickets, SaleStep(t)
    PROVE  LinesAreStored'
<1> SUFFICES ASSUME NEW u \in Tickets, NEW p \in Products
             PROVE  IsStoredLine(items'[u][p])
    BY DEF LinesAreStored, IsStoredLine
<1>1. IsStoredLine(items[u][p])
    BY DEF LinesAreStored
<1>2. CASE items'[u] = items[u]
    BY <1>1, <1>2
<1>3. CASE u = t /\ RewritesLine(t)
    <2>1. PICK q \in Products, line \in Item :
            IsStoredLine(line) /\ items'[t] = [items[t] EXCEPT ![q] = line]
        BY <1>3 DEF RewritesLine
    <2>2. items[t] \in [Products -> Item]
        BY DEF SalesTypeOK
    <2>3. items'[t][p] = IF p = q THEN line ELSE items[t][p]
        BY <2>1, <2>2
    <2>4. QED
        BY <1>1, <1>3, <2>1, <2>3
<1>4. QED
    BY <1>2, <1>3, LinesAfterStep

\* A ticket begins with no line, and confirming requires one.
LEMMA LinesFollowStep ==
    ASSUME SalesTypeOK, LinesFollowTicket, NEW t \in Tickets, SaleStep(t)
    PROVE  LinesFollowTicket'
<1> SUFFICES ASSUME NEW u \in Tickets
             PROVE  /\ ticket'[u].status = "ABSENT" => items'[u] = NoItems
                    /\ ticket'[u].status \in {"CONFIRMED", "VOIDED"}
                        => \E p \in Products : items'[u][p].quantity > 0
    BY DEF LinesFollowTicket, Lines
<1>1. /\ ticket[u].status = "ABSENT" => items[u] = NoItems
      /\ ticket[u].status \in {"CONFIRMED", "VOIDED"}
            => \E p \in Products : items[u][p].quantity > 0
    BY DEF LinesFollowTicket, Lines
<1>2. CASE u # t
    BY <1>1, <1>2 DEF SaleStep, SameContent
<1>3. CASE u = t
    BY <1>1, <1>3 DEF SaleStep, SameContent, Begins, Edits, Cancels, Confirms, Voids,
                      TicketMoves, Lines
<1>4. QED
    BY <1>2, <1>3

\* A sale step keeps the amount of every ticket the sum of its lines.
LEMMA TotalStep ==
    ASSUME SalesTypeOK, LinesFollowTicket, TotalIsSumOfLines,
           NEW t \in Tickets, SaleStep(t)
    PROVE  TotalIsSumOfLines'
<1> SUFFICES ASSUME NEW u \in Tickets
             PROVE  totalAmount'[u] = TotalOf(items'[u])
    BY DEF TotalIsSumOfLines, TotalOf
<1>1. totalAmount[u] = TotalOf(items[u])
    BY DEF TotalIsSumOfLines
<1>2. CASE SameContent(u)
    BY <1>1, <1>2 DEF SameContent
<1>3. CASE u = t /\ Begins(t)
    BY <1>3, TotalOfNoItems DEF Begins, LinesFollowTicket
<1>4. CASE u = t /\ RewritesLine(t)
    BY <1>4 DEF RewritesLine
<1>5. QED
    BY <1>2, <1>3, <1>4 DEF SaleStep, Edits, Cancels, Confirms, Voids

\* The error of a rounded quantity, at a price.
LEMMA ErrorAtPrice ==
    ASSUME NEW price \in Nat, NEW e \in Int, -5 <= e, e <= 5
    PROVE  -5 * price <= price * e /\ price * e <= 5 * price
OBVIOUS

\* The subtotal and the quantity of a line are rounded apart from one product.
LEMMA LineWithinRounding ==
    ASSUME NEW line, IsStoredLine(line)
    PROVE  2 * AbsDiff(100 * line.subtotal, line.unitPrice * line.quantity)
                <= line.unitPrice + 100
<1>1. CASE line = NoItem
    BY <1>1 DEF NoItem, AbsDiff
<1>2. ASSUME NEW quantity \in Nat, NEW unitPrice \in Nat, line = LineOf(quantity, unitPrice)
      PROVE  2 * AbsDiff(100 * line.subtotal, line.unitPrice * line.quantity)
                <= line.unitPrice + 100
    <2> DEFINE amount == unitPrice * quantity
               q == Stored(quantity)
               s == StoredCents(amount)
               e == 10 * q - quantity
    <2>1. amount \in Nat
        OBVIOUS
    <2>2. q \in Nat /\ e \in Int /\ -5 <= e /\ e <= 5
        BY DEF Stored
    <2>3. s \in Nat /\ -500 <= 1000 * s - amount /\ 1000 * s - amount <= 500
        <3> HIDE DEF amount
        <3>1. QED
            BY <2>1 DEF StoredCents
    <2>4. unitPrice * (10 * q) = unitPrice * quantity + unitPrice * e
        <3>1. 10 * q = quantity + e
            BY <2>2
        <3> HIDE DEF q, e
        <3>2. QED
            BY <2>2, <3>1
    <2>5. -5 * unitPrice <= unitPrice * e /\ unitPrice * e <= 5 * unitPrice
        <3> HIDE DEF e
        <3>1. QED
            BY <2>2, ErrorAtPrice
    <2>6. line.subtotal = s /\ line.unitPrice = unitPrice /\ line.quantity = q
        BY <1>2 DEF LineOf
    <2>7. unitPrice * (10 * q) = 10 * (unitPrice * q) /\ unitPrice * q \in Nat
        BY <2>2
    <2> DEFINE x == unitPrice * e
               y == unitPrice * q
    <2>8. x \in Int /\ y \in Nat /\ 10 * y = amount + x
        BY <2>2, <2>4, <2>7
    <2> HIDE DEF amount, q, s, e, x, y
    <2>9. 2 * AbsDiff(100 * s, y) <= unitPrice + 100
        BY <2>1, <2>3, <2>5, <2>8 DEF AbsDiff, x
    <2>10. QED
        BY <2>6, <2>9 DEF y
<1>3. QED
    BY <1>1, <1>2 DEF IsStoredLine

-----------------------------------------------------------------------------
(* What they preserve for the stock. *)

\* The quantities a ticket moves were stored when its lines were written.
LEMMA QuantitiesOfTicket ==
    ASSUME SalesTypeOK, NEW t \in Tickets
    PROVE  /\ InventoryItems(t) \in SUBSET Products
           /\ \A p \in InventoryItems(t) :
                /\ items[t][p].quantity \in Nat
                /\ ItemQuantities(t)[p] = Thousandths(items[t][p].quantity)
                /\ ItemQuantities(t)[p] \in Nat
BY DEF SalesTypeOK, Item, InventoryItems, Lines, ItemQuantities, Thousandths

\* What a sale step does to the ledgers: nothing, or one movement of its ticket
\* per product taken from or returned to stock.
LEMMA SaleLedger ==
    ASSUME TypeOK, NEW t \in Tickets, SaleStep(t)
    PROVE  InventoryTypeOK' /\ LedgerStep(t)
<1> InventoryTypeOK /\ SalesTypeOK
    BY DEF TypeOK
<1>1. CASE UNCHANGED inventoryVars
    BY <1>1 DEF InventoryTypeOK, LedgerStep, inventoryVars
<1>2. CASE Confirms(t)
    <2>1. SubtractMovements(InventoryItems(t), "SALE_OUT", ItemQuantities(t), t)
        BY <1>2 DEF Confirms, ApplySaleOut
    <2>2. \A p \in InventoryItems(t) : \E x \in Nat : ItemQuantities(t)[p] = Thousandths(x)
        BY QuantitiesOfTicket
    <2>3. LedgerStep(t)
        BY <2>1, <2>2, QuantitiesOfTicket, SubtractIsLedgerStep DEF OutTypes
    <2>4. QED
        BY <1>2, <2>3 DEF Confirms, InventoryTypeOK, LedgerStep
<1>3. CASE Voids(t)
    <2>1. AddMovements(InventoryItems(t), "VOID_REVERSAL", ItemQuantities(t), t)
        BY <1>3 DEF Voids, ApplyVoidReversal
    <2>2. LedgerStep(t)
        BY <2>1, QuantitiesOfTicket, AddIsLedgerStep DEF InTypes
    <2>3. QED
        BY <1>3, <2>2 DEF Voids, InventoryTypeOK, LedgerStep
<1>4. QED
    BY <1>1, <1>2, <1>3 DEF SaleStep, Begins, Edits, Cancels

\* Movements of a type are written for a ticket when it enters one of the
\* statuses, once per product, for the quantity of its line.
MovesOnce(type, statuses) ==
    \A t \in Tickets, p \in Products : \A i, j \in DOMAIN movements[p] :
        /\ IsMovementOf(p, i, type, t) =>
            /\ ticket[t].status \in statuses
            /\ movements[p][i].quantity = items[t][p].quantity
        /\ IsMovementOf(p, i, type, t) /\ IsMovementOf(p, j, type, t) => i = j

\* Movements of the type that are appended are for tickets entering statuses,
\* which no ticket leaves and where no line changes.
EntersOnce(type, statuses) ==
    /\ \A u \in Tickets : ticket[u].status \in statuses
            => ticket'[u].status \in statuses /\ items'[u] = items[u]
    /\ \A p \in Products :
        \/ movements'[p] = movements[p]
        \/ \E m \in Movement :
            /\ movements'[p] = Append(movements[p], m)
            /\ m.movementType = type /\ m.referenceId \in Tickets =>
                /\ ticket[m.referenceId].status \notin statuses
                /\ ticket'[m.referenceId].status \in statuses
                /\ m.quantity = items[m.referenceId][p].quantity
                /\ items'[m.referenceId] = items[m.referenceId]

\* A movement type that a sale step adds only for a ticket that had none stays
\* unique per ticket and product.
LEMMA MovesOnceStep ==
    ASSUME InventoryTypeOK, NEW type, NEW statuses,
           MovesOnce(type, statuses), EntersOnce(type, statuses)
    PROVE  MovesOnce(type, statuses)'
<1> SUFFICES ASSUME NEW t \in Tickets, NEW p \in Products,
                    NEW i \in DOMAIN movements'[p], NEW j \in DOMAIN movements'[p],
                    movements'[p][i].movementType = type,
                    movements'[p][i].referenceId = t
             PROVE  /\ ticket'[t].status \in statuses
                    /\ movements'[p][i].quantity = items'[t][p].quantity
                    /\ /\ movements'[p][j].movementType = type
                       /\ movements'[p][j].referenceId = t
                       => i = j
    BY DEF MovesOnce, IsMovementOf
<1>1. movements[p] \in Seq(Movement)
    BY DEF InventoryTypeOK
<1>2. \A k, l \in DOMAIN movements[p] :
        movements[p][k].movementType = type /\ movements[p][k].referenceId = t =>
            /\ ticket[t].status \in statuses
            /\ movements[p][k].quantity = items[t][p].quantity
            /\ movements[p][l].movementType = type /\ movements[p][l].referenceId = t
                => k = l
    BY DEF MovesOnce, IsMovementOf
<1>3. ticket[t].status \in statuses
        => ticket'[t].status \in statuses /\ items'[t] = items[t]
    BY DEF EntersOnce
<1>4. CASE movements'[p] = movements[p]
    BY <1>2, <1>3, <1>4
<1>5. ASSUME NEW m \in Movement, movements'[p] = Append(movements[p], m),
             m.movementType = type /\ m.referenceId \in Tickets =>
                /\ ticket[m.referenceId].status \notin statuses
                /\ ticket'[m.referenceId].status \in statuses
                /\ m.quantity = items[m.referenceId][p].quantity
                /\ items'[m.referenceId] = items[m.referenceId]
      PROVE  /\ ticket'[t].status \in statuses
             /\ movements'[p][i].quantity = items'[t][p].quantity
             /\ /\ movements'[p][j].movementType = type
                /\ movements'[p][j].referenceId = t
                => i = j
    <2> DEFINE last == Len(movements[p]) + 1
    <2>1. \A k \in DOMAIN movements'[p] :
            /\ k = last \/ k \in DOMAIN movements[p]
            /\ k = last => movements'[p][k] = m
            /\ k # last => movements'[p][k] = movements[p][k]
        BY <1>1, <1>5
    <2> HIDE DEF last
    <2>2. CASE i = last
        <3>1. m.movementType = type /\ m.referenceId = t
            BY <2>1, <2>2
        <3>2. /\ ticket[t].status \notin statuses
              /\ ticket'[t].status \in statuses
              /\ m.quantity = items[t][p].quantity
              /\ items'[t] = items[t]
            BY <1>5, <3>1
        <3>3. QED
            BY <1>2, <2>1, <2>2, <3>2
    <2>3. CASE i # last
        <3>1. /\ i \in DOMAIN movements[p]
              /\ movements[p][i].movementType = type
              /\ movements[p][i].referenceId = t
              /\ movements'[p][i] = movements[p][i]
            BY <2>1, <2>3
        <3>2. ticket[t].status \in statuses
            BY <1>2, <3>1
        <3>3. CASE j = last
            BY <1>2, <1>3, <1>5, <2>1, <3>1, <3>2, <3>3
        <3>4. CASE j # last
            BY <1>2, <1>3, <2>1, <3>1, <3>2, <3>4
        <3>5. QED
            BY <3>3, <3>4
    <2>4. QED
        BY <2>2, <2>3
<1>6. QED
    BY <1>4, <1>5 DEF EntersOnce

\* A step that appends nothing, or nothing of a ticket, enters once trivially.
LEMMA NoSaleMovement ==
    ASSUME NEW type, NEW statuses, LedgerStep(None), UNCHANGED <<ticket, items>>
    PROVE  EntersOnce(type, statuses)
BY TicketsAssumption DEF LedgerStep, EntersOnce

\* The rows a sale appends: their type, ticket and quantity.
LEMMA RowsOfTicket ==
    ASSUME TypeOK, NEW t \in Tickets, NEW type \in MovementTypes, NEW newStock,
           \A p \in InventoryItems(t) : newStock[p] \in Nat,
           PersistMovements(InventoryItems(t), type, ItemQuantities(t), newStock, t)
    PROVE  \A p \in Products :
             \/ movements'[p] = movements[p]
             \/ \E m \in Movement :
                  /\ movements'[p] = Append(movements[p], m)
                  /\ m.movementType = type
                  /\ m.referenceId = t
                  /\ m.quantity = items[t][p].quantity
<1> SUFFICES ASSUME NEW p \in InventoryItems(t)
             PROVE  \E m \in Movement :
                      /\ movements'[p] = Append(movements[p], m)
                      /\ m.movementType = type
                      /\ m.referenceId = t
                      /\ m.quantity = items[t][p].quantity
    BY DEF PersistMovements
<1> DEFINE m == MovementOf(p, type, ItemQuantities(t)[p], newStock[p], t)
<1>1. /\ p \in Products
      /\ items[t][p].quantity \in Nat
      /\ Stored(ItemQuantities(t)[p]) = items[t][p].quantity
    BY QuantitiesOfTicket, StoredExact DEF TypeOK
<1>2. Stored(newStock[p]) \in Nat /\ currentStock[p] \in Nat
    BY <1>1, StoredNat DEF TypeOK, InventoryTypeOK
<1>3. /\ m \in Movement
      /\ m.movementType = type
      /\ m.referenceId = t
      /\ m.quantity = items[t][p].quantity
    BY <1>1, <1>2 DEF MovementOf, Movement
<1>4. movements'[p] = Append(movements[p], m)
    BY <1>1 DEF PersistMovements
<1> HIDE DEF m
<1>5. QED
    BY <1>3, <1>4

\* Sales leave stock on confirmation and come back on a void, once.
LEMMA SaleEntersOnce ==
    ASSUME TypeOK, NEW t \in Tickets, SaleStep(t)
    PROVE  /\ EntersOnce("SALE_OUT", {"CONFIRMED", "VOIDED"})
           /\ EntersOnce("VOID_REVERSAL", {"VOIDED"})
<1> DEFINE Appends(type) ==
        \A p \in Products :
            \/ movements'[p] = movements[p]
            \/ \E m \in Movement :
                /\ movements'[p] = Append(movements[p], m)
                /\ m.movementType = type
                /\ m.referenceId = t
                /\ m.quantity = items[t][p].quantity
<1> InventoryTypeOK /\ SalesTypeOK
    BY DEF TypeOK
<1>1. \A u \in Tickets \ {t} : ticket'[u] = ticket[u] /\ items'[u] = items[u]
    BY DEF SaleStep, SameContent
<1>2. CASE UNCHANGED movements /\ ticket[t].status \in {"ABSENT", "DRAFT"}
    BY <1>1, <1>2 DEF EntersOnce
<1>3. CASE Confirms(t)
    <2> DEFINE newStock == [p \in InventoryItems(t) |->
                              Thousandths(currentStock[p]) - ItemQuantities(t)[p]]
    <2>1. SubtractMovements(InventoryItems(t), "SALE_OUT", ItemQuantities(t), t)
        BY <1>3 DEF Confirms, ApplySaleOut
    <2>2. \A p \in InventoryItems(t) : newStock[p] \in Nat
        BY <2>1, QuantitiesOfTicket DEF SubtractMovements, InventoryTypeOK, Thousandths
    <2>3. PersistMovements(InventoryItems(t), "SALE_OUT", ItemQuantities(t), newStock, t)
        BY <2>1 DEF SubtractMovements
    <2>4. "SALE_OUT" \in MovementTypes
        BY DEF MovementTypes, OutTypes
    <2> HIDE DEF newStock
    <2>5. Appends("SALE_OUT")
        BY <2>2, <2>3, <2>4, RowsOfTicket
    <2>6. /\ ticket[t].status = "DRAFT"
          /\ ticket'[t].status = "CONFIRMED"
          /\ items'[t] = items[t]
        BY <1>3 DEF Confirms, TicketMoves, SameContent
    <2>7. QED
        BY <1>1, <2>5, <2>6 DEF EntersOnce
<1>4. CASE Voids(t)
    <2> DEFINE newStock == [p \in InventoryItems(t) |->
                              Thousandths(currentStock[p]) + ItemQuantities(t)[p]]
    <2>1. AddMovements(InventoryItems(t), "VOID_REVERSAL", ItemQuantities(t), t)
        BY <1>4 DEF Voids, ApplyVoidReversal
    <2>2. \A p \in InventoryItems(t) : newStock[p] \in Nat
        BY QuantitiesOfTicket DEF InventoryTypeOK, Thousandths
    <2>3. PersistMovements(InventoryItems(t), "VOID_REVERSAL", ItemQuantities(t), newStock, t)
        BY <2>1 DEF AddMovements
    <2>4. "VOID_REVERSAL" \in MovementTypes
        BY DEF MovementTypes, InTypes
    <2> HIDE DEF newStock
    <2>5. Appends("VOID_REVERSAL")
        BY <2>2, <2>3, <2>4, RowsOfTicket
    <2>6. /\ ticket[t].status = "CONFIRMED"
          /\ ticket'[t].status = "VOIDED"
          /\ items'[t] = items[t]
        BY <1>4 DEF Voids, TicketMoves, SameContent
    <2>7. QED
        BY <1>1, <2>5, <2>6 DEF EntersOnce
<1>5. QED
    BY <1>2, <1>3, <1>4
    DEF SaleStep, Begins, Edits, Cancels, TicketMoves, inventoryVars

-----------------------------------------------------------------------------
(* The inductive invariant. *)

SalesInv ==
    /\ TypeOK
    /\ LedgerReconstructsStock
    /\ DriftIsBounded
    /\ OrderFollowsTicket
    /\ VersionsAdvanceTogether
    /\ OneOpenOrderPerTable
    /\ EventsAnnounceLatestVersion
    /\ PaymentIsCoherent
    /\ LinesAreStored
    /\ LinesFollowTicket
    /\ TotalIsSumOfLines
    /\ SaleOutOnce
    /\ VoidReversalOnce

\* The two properties of sale movements are instances of one.
LEMMA OnceAsMovesOnce ==
    /\ SaleOutOnce <=> MovesOnce("SALE_OUT", {"CONFIRMED", "VOIDED"})
    /\ VoidReversalOnce <=> MovesOnce("VOID_REVERSAL", {"VOIDED"})
BY DEF SaleOutOnce, VoidReversalOnce, MovesOnce

\* The invariant holds with no tickets.
LEMMA SalesInvInit == Init => SalesInv
<1> SUFFICES ASSUME Init
             PROVE  SalesInv
    OBVIOUS
<1>1. StockTypeOK /\ LedgerReconstructsStock /\ DriftIsBounded
    BY LedgerInvInit DEF Init, LedgerInv
<1>2. SalesTypeOK
    BY DEF Init, SalesInit, SalesTypeOK, Ticket, TicketStatuses, Payment, NoPayment,
           Item, NoItems, NoItem, Order, OrderStatuses
<1>3. \A t \in Tickets : ticket[t].status = "ABSENT" /\ order[t].status = "ABSENT"
        /\ ticket[t].version = 0 /\ order[t].version = 0 /\ orderEvent[t] = 0
        /\ ticket[t].payment = NoPayment
    BY DEF Init, SalesInit
<1>4. OrderFollowsTicket /\ VersionsAdvanceTogether /\ OneOpenOrderPerTable
    BY <1>3 DEF OrderFollowsTicket, VersionsAdvanceTogether, OneOpenOrderPerTable
<1>5. EventsAnnounceLatestVersion
    BY <1>3 DEF EventsAnnounceLatestVersion
<1>6. PaymentIsCoherent
    BY <1>3, MethodsAssumption DEF PaymentIsCoherent, NoPayment, PaymentMethods
<1>7. SaleOutOnce /\ VoidReversalOnce
    BY DEF Init, InventoryInit, SaleOutOnce, VoidReversalOnce
<1>8. LinesAreStored /\ LinesFollowTicket
    BY <1>3 DEF Init, SalesInit, LinesAreStored, LinesFollowTicket, IsStoredLine, NoItems
<1>9. TotalIsSumOfLines
    BY TotalOfNoItems DEF Init, SalesInit, TotalIsSumOfLines
<1>10. QED
    BY <1>1, <1>2, <1>4, <1>5, <1>6, <1>7, <1>8, <1>9 DEF SalesInv, TypeOK, StockTypeOK

\* A step is a sale's, or leaves every sale alone.
LEMMA StepShape ==
    ASSUME SalesInv, [Next]_vars
    PROVE  \/ \E t \in Tickets : SaleStep(t) /\ UNCHANGED catalogVars
           \/ /\ UNCHANGED salesVars
              /\ CatalogTypeOK' /\ InventoryTypeOK' /\ LedgerStep(None)
<1>1. CASE SalesNext /\ UNCHANGED catalogVars
    BY <1>1, EndpointIsSaleStep DEF SalesInv
<1>2. CASE InventoryNext /\ UNCHANGED <<catalogVars, salesVars>>
    <2>1. InventoryTypeOK' /\ LedgerStep(None)
        BY <1>2, ClerkStep DEF SalesInv, TypeOK
    <2>2. CatalogTypeOK' /\ UNCHANGED salesVars
        BY <1>2 DEF SalesInv, TypeOK, CatalogTypeOK, catalogVars
    <2>3. QED
        BY <2>1, <2>2
<1>3. CASE [CatalogNext]_catalogVars /\ UNCHANGED <<inventoryVars, salesVars>>
    <2>1. CatalogTypeOK'
        BY <1>3, CatalogTypeStep DEF SalesInv, TypeOK
    <2>2. InventoryTypeOK' /\ LedgerStep(None) /\ UNCHANGED salesVars
        BY <1>3 DEF SalesInv, TypeOK, InventoryTypeOK, LedgerStep, inventoryVars
    <2>3. QED
        BY <2>1, <2>2
<1>4. QED
    BY <1>1, <1>2, <1>3 DEF Next, vars

\* Every step preserves the invariant: the endpoints through the five shapes, the
\* administration and the clerks because they leave the sales tables alone.
LEMMA SalesInvStep ==
    ASSUME SalesInv, [Next]_vars
    PROVE  SalesInv'
<1> TypeOK /\ InventoryTypeOK /\ SalesTypeOK
    BY DEF SalesInv, TypeOK
<1>1. CASE UNCHANGED salesVars /\ CatalogTypeOK' /\ InventoryTypeOK' /\ LedgerStep(None)
    <2>1. UNCHANGED <<ticket, items, order, ticketEvent, orderEvent, totalAmount>>
        BY <1>1 DEF salesVars
    <2>2. TypeOK'
        BY <1>1, <2>1 DEF TypeOK, SalesTypeOK
    <2>3. LedgerReconstructsStock' /\ DriftIsBounded'
        BY <1>1, ChainStep, DriftStep DEF SalesInv
    <2>4. OrderFollowsTicket' /\ VersionsAdvanceTogether' /\ OneOpenOrderPerTable'
        BY <2>1 DEF SalesInv, OrderFollowsTicket, VersionsAdvanceTogether,
                    OneOpenOrderPerTable
    <2>5. EventsAnnounceLatestVersion' /\ PaymentIsCoherent'
        BY <2>1 DEF SalesInv, EventsAnnounceLatestVersion, PaymentIsCoherent
    <2>6. SaleOutOnce' /\ VoidReversalOnce'
        <3>1. /\ EntersOnce("SALE_OUT", {"CONFIRMED", "VOIDED"})
              /\ EntersOnce("VOID_REVERSAL", {"VOIDED"})
            BY <1>1, <2>1, NoSaleMovement
        <3>2. /\ MovesOnce("SALE_OUT", {"CONFIRMED", "VOIDED"})'
              /\ MovesOnce("VOID_REVERSAL", {"VOIDED"})'
            BY <3>1, OnceAsMovesOnce, MovesOnceStep DEF SalesInv
        <3>3. QED
            BY <3>2 DEF SaleOutOnce, VoidReversalOnce, MovesOnce
    <2>7. LinesAreStored' /\ LinesFollowTicket' /\ TotalIsSumOfLines'
        BY <2>1 DEF SalesInv, LinesAreStored, LinesFollowTicket, Lines, TotalIsSumOfLines
    <2>8. QED
        BY <2>2, <2>3, <2>4, <2>5, <2>6, <2>7 DEF SalesInv
<1>2. ASSUME NEW t \in Tickets, SaleStep(t), UNCHANGED catalogVars
      PROVE  SalesInv'
    <2>1. InventoryTypeOK' /\ LedgerStep(t)
        BY <1>2, SaleLedger
    <2>2. CatalogTypeOK'
        BY <1>2 DEF TypeOK, CatalogTypeOK, catalogVars
    <2>3. SalesTypeOK'
        BY <1>2 DEF SaleStep
    <2>4. LedgerReconstructsStock' /\ DriftIsBounded'
        BY <2>1, ChainStep, DriftStep DEF SalesInv
    <2>5. OrderFollowsTicket' /\ VersionsAdvanceTogether' /\ OneOpenOrderPerTable'
        BY <1>2, OrderFollowsStep, VersionsStep, OneOpenStep DEF SalesInv
    <2>6. EventsAnnounceLatestVersion' /\ PaymentIsCoherent'
        BY <1>2, EventsStep, PaymentStep DEF SalesInv
    <2>7. SaleOutOnce' /\ VoidReversalOnce'
        <3>1. /\ EntersOnce("SALE_OUT", {"CONFIRMED", "VOIDED"})
              /\ EntersOnce("VOID_REVERSAL", {"VOIDED"})
            BY <1>2, SaleEntersOnce
        <3>2. /\ MovesOnce("SALE_OUT", {"CONFIRMED", "VOIDED"})'
              /\ MovesOnce("VOID_REVERSAL", {"VOIDED"})'
            BY <3>1, OnceAsMovesOnce, MovesOnceStep DEF SalesInv
        <3>3. QED
            BY <3>2 DEF SaleOutOnce, VoidReversalOnce, MovesOnce
    <2>8. LinesAreStored' /\ LinesFollowTicket' /\ TotalIsSumOfLines'
        BY <1>2, StoredLinesStep, LinesFollowStep, TotalStep DEF SalesInv
    <2>9. QED
        BY <2>1, <2>2, <2>3, <2>4, <2>5, <2>6, <2>7, <2>8 DEF SalesInv, TypeOK
<1>3. QED
    BY <1>1, <1>2, StepShape

\* The inductive invariant the theorems below are read from.
LEMMA SalesInvariant == Spec => []SalesInv
BY SalesInvInit, SalesInvStep, PTL DEF Spec

-----------------------------------------------------------------------------
(* The theorems. *)

\* Every reachable state is well typed: no stock is negative, no version is lost.
THEOREM TypeCorrect == Spec => []TypeOK
BY SalesInvariant, PTL DEF SalesInv

\* Orders and tickets agree on how far the sale is, whichever endpoints are used
\* (TableOrdersService, SalesService).
THEOREM OrdersCorrect == Spec => []OrderFollowsTicket
BY SalesInvariant, PTL DEF SalesInv

\* The versions of a ticket and of its order are always equal, so either of them
\* detects a concurrent edit (expectedVersion of both services).
THEOREM VersionsCorrect == Spec => []VersionsAdvanceTogether
BY SalesInvariant, PTL DEF SalesInv

\* Two OPEN orders never share a table (TableOrdersService.open).
THEOREM TablesCorrect == Spec => []OneOpenOrderPerTable
BY SalesInvariant, PTL DEF SalesInv

\* With OPERATIONS_SSE on, the last event of a ticket and of an order announces
\* its current version (emitOperationEvent in both services).
THEOREM EventsCorrect == Spec => []EventsAnnounceLatestVersion
BY SalesInvariant, PTL DEF SalesInv

\* resolvePaymentSelection leaves every sale with a coherent payment.
THEOREM PaymentsCorrect == Spec => []PaymentIsCoherent
BY SalesInvariant, PTL DEF SalesInv

\* Confirming takes stock once, by the quantities of the ticket's lines
\* (confirmDraftInTransaction).
THEOREM SaleMovementsCorrect == Spec => []SaleOutOnce
BY SalesInvariant, PTL DEF SalesInv

\* Voiding returns stock once, by the quantities of the ticket's lines (void).
THEOREM VoidMovementsCorrect == Spec => []VoidReversalOnce
BY SalesInvariant, PTL DEF SalesInv

\* The amount of a ticket is the sum of its stored subtotals after every endpoint,
\* those that change no line included (recalculateTicketTotals).
THEOREM TotalsCorrect == Spec => []TotalIsSumOfLines
BY SalesInvariant, PTL DEF SalesInv

\* Adding to a line, changing its quantity and saving it keep its subtotal within
\* the rounding of its price times its quantity (calculateSubtotal).
THEOREM SubtotalsCorrect == Spec => []SubtotalWithinRounding
<1>1. SalesInv => SubtotalWithinRounding
    BY LineWithinRounding DEF SalesInv, LinesAreStored, SubtotalWithinRounding
<1>2. QED
    BY <1>1, SalesInvariant, PTL

\* What a confirmation does to the stock of each product.
LEMMA ConfirmedStock ==
    ASSUME InventoryTypeOK, SalesTypeOK, NEW t \in Tickets, NEW p \in Products,
           ApplySaleOut(InventoryItems(t), ItemQuantities(t), t)
    PROVE  currentStock'[p] = currentStock[p] -
                (IF IsFinished(p) THEN items[t][p].quantity ELSE 0)
<1> DEFINE newStock == [q \in InventoryItems(t) |->
                          Thousandths(currentStock[q]) - ItemQuantities(t)[q]]
           q == items[t][p].quantity
<1>1. q \in Nat /\ currentStock[p] \in Nat
    BY DEF InventoryTypeOK, SalesTypeOK, Item
<1>2. CASE p \in InventoryItems(t)
    <2>1. /\ newStock[p] = Thousandths(currentStock[p]) - ItemQuantities(t)[p]
          /\ newStock[p] >= 0
          /\ currentStock'[p] = Stored(newStock[p])
        BY <1>2 DEF ApplySaleOut, SubtractMovements, PersistMovements
    <2>2. ItemQuantities(t)[p] = Thousandths(q)
        BY DEF ItemQuantities
    <2> HIDE DEF newStock, q
    <2>3. newStock[p] = Thousandths(currentStock[p] - q) /\ currentStock[p] - q \in Nat
        BY <1>1, <2>1, <2>2 DEF Thousandths
    <2>4. currentStock'[p] = currentStock[p] - q
        BY <2>1, <2>3, StoredExact
    <2>5. IsFinished(p)
        BY <1>2 DEF InventoryItems
    <2>6. QED
        BY <2>4, <2>5 DEF q
<1>3. CASE p \notin InventoryItems(t)
    <2>1. currentStock'[p] = currentStock[p]
        BY <1>3 DEF ApplySaleOut, SubtractMovements, PersistMovements
    <2>2. IsFinished(p) => q = 0
        BY <1>1, <1>3 DEF InventoryItems, Lines
    <2>3. QED
        BY <1>1, <2>1, <2>2
<1>4. QED
    BY <1>2, <1>3

\* Confirming takes from stock all the lines managed by stock, and nothing else
\* (confirmDraftInTransaction, applySaleOut).
THEOREM LinesTaken == Spec => ConfirmationTakesTheLines
<1>1. ASSUME SalesInv, [Next]_vars
      PROVE  [LinesAreTaken]_vars
    <2>1. CASE UNCHANGED salesVars
        BY <2>1 DEF salesVars, LinesAreTaken
    <2>2. ASSUME NEW u \in Tickets, SaleStep(u)
          PROVE  LinesAreTaken
        <3> SUFFICES ASSUME NEW t \in Tickets, NEW p \in Products,
                            ticket[t].status = "DRAFT", ticket'[t].status = "CONFIRMED"
                     PROVE  currentStock'[p] = currentStock[p] -
                                (IF IsFinished(p) THEN items[t][p].quantity ELSE 0)
            BY DEF LinesAreTaken
        <3>1. t = u /\ Confirms(t)
            BY <2>2 DEF SaleStep, Begins, Edits, Cancels, Voids, TicketMoves
        <3>2. ApplySaleOut(InventoryItems(t), ItemQuantities(t), t)
            BY <3>1 DEF Confirms
        <3>3. QED
            BY <1>1, <3>2, ConfirmedStock DEF SalesInv, TypeOK
    <2>3. QED
        BY <1>1, <2>1, <2>2, StepShape
<1>2. QED
    BY <1>1, SalesInvariant, PTL DEF Spec, ConfirmationTakesTheLines

\* With clerks and sales together, each ledger is still one chain up to the
\* current stock, and each movement accounts for its change.
THEOREM LedgersCorrect == Spec => [](LedgerReconstructsStock /\ DriftIsBounded)
BY SalesInvariant, PTL DEF SalesInv

\* A change of a sale is a change of its version and of its order's version.
THEOREM ChangesVersioned == Spec => EveryChangeIsVersioned
<1> DEFINE Versioned ==
        \A t \in Tickets :
            (items'[t] # items[t] \/ ticket'[t] # ticket[t]) /\ ticket[t].status # "ABSENT"
            => /\ ticket'[t].version = ticket[t].version + 1
               /\ order[t].status # "ABSENT" => order'[t].version = order[t].version + 1
<1>1. ASSUME SalesInv, [Next]_vars
      PROVE  [Versioned]_vars
    <2>1. CASE UNCHANGED salesVars
        BY <2>1 DEF salesVars
    <2>2. ASSUME NEW u \in Tickets, SaleStep(u)
          PROVE  Versioned
        BY <2>2 DEF SaleStep, SameContent, Begins, Edits, Cancels, Confirms, Voids,
                    TicketMoves, OrderMoves
    <2>3. QED
        BY <1>1, <2>1, <2>2, StepShape
<1>2. QED
    BY <1>1, SalesInvariant, PTL DEF Spec, EveryChangeIsVersioned

\* The content of a ticket that is not a draft never changes.
THEOREM ContentFrozen == Spec => ConfirmedContentIsFrozen
<1> DEFINE Frozen ==
        \A t \in Tickets :
            ticket[t].status \in {"CONFIRMED", "CANCELLED", "VOIDED"} =>
                /\ items'[t] = items[t]
                /\ totalAmount'[t] = totalAmount[t]
                /\ ticket'[t].channel = ticket[t].channel
                /\ ticket'[t].payment = ticket[t].payment
<1>1. ASSUME SalesInv, [Next]_vars
      PROVE  [Frozen]_vars
    <2>1. CASE UNCHANGED salesVars
        BY <2>1 DEF salesVars
    <2>2. ASSUME NEW u \in Tickets, SaleStep(u)
          PROVE  Frozen
        BY <2>2 DEF SaleStep, SameContent, Begins, Edits, Cancels, Confirms, Voids,
                    TicketMoves
    <2>3. QED
        BY <1>1, <2>1, <2>2, StepShape
<1>2. QED
    BY <1>1, SalesInvariant, PTL DEF Spec, ConfirmedContentIsFrozen

-----------------------------------------------------------------------------
(* Refinement of TableService. *)

Sale == [t \in Tickets |-> ticket[t].status]
Seat == [t \in Tickets |-> IF order[t].status = "OPEN" THEN order[t].table ELSE None]

\* A step of a sale is a step of the service, or leaves sales and seats alone.
LEMMA SaleStepImplements ==
    ASSUME SalesInv, NEW t \in Tickets, SaleStep(t)
    PROVE  [Service!ServiceNext]_(Service!serviceVars)
<1>1. \A u \in Tickets \ {t} : Sale'[u] = Sale[u] /\ Seat'[u] = Seat[u]
    BY DEF SaleStep, Sale, Seat
<1>2. None \notin Tables
    BY NoneAssumption
<1>3. OrderFollowsTicket /\ SalesTypeOK
    BY DEF SalesInv, TypeOK
<1>4. ASSUME NEW to, NEW place, Sale'[t] = to, Seat'[t] = place
      PROVE  /\ Sale' = [Sale EXCEPT ![t] = to]
             /\ Seat' = [Seat EXCEPT ![t] = place]
    BY <1>1, <1>4 DEF Sale, Seat
<1>5. CASE Begins(t)
    <2>1. order[t].status = "ABSENT"
        BY <1>3, <1>5, AbsentHasNoOrder DEF Begins
    <2>2. Sale[t] = "ABSENT" /\ Sale'[t] = "DRAFT"
        BY <1>5 DEF Begins, Sale
    <2>3. CASE order'[t] = order[t]
        <3>1. Seat'[t] = None
            BY <2>1, <2>3 DEF Seat
        <3>2. Service!Begin(t, None)
            BY <1>4, <2>2, <3>1 DEF Service!Begin, Sale, Seat
        <3>3. QED
            BY <3>2 DEF Service!ServiceNext
    <2>4. CASE /\ order'[t].status = "OPEN"
               /\ order'[t].table \in Tables
               /\ TableIsFree(order'[t].table)
        <3>1. PICK s \in Tables : s = order'[t].table
            BY <2>4
        <3>2. Seat'[t] = s
            BY <2>4, <3>1 DEF Seat
        <3>3. \A u \in Tickets : Seat[u] # s
            BY <1>2, <2>4, <3>1 DEF Seat, TableIsFree
        <3>4. Service!Begin(t, s)
            BY <1>4, <2>2, <3>2, <3>3 DEF Service!Begin, Sale, Seat
        <3>5. QED
            BY <3>4 DEF Service!ServiceNext
    <2>5. QED
        BY <1>5, <2>3, <2>4 DEF Begins
<1>6. CASE Edits(t)
    <2>1. Sale'[t] = Sale[t] /\ Seat'[t] = Seat[t]
        BY <1>6 DEF Edits, TicketMoves, OrderMoves, Sale, Seat
    <2>2. Sale' = Sale /\ Seat' = Seat
        BY <1>1, <2>1 DEF Sale, Seat
    <2>3. QED
        BY <2>2 DEF Service!serviceVars, Sale, Seat
<1>7. CASE Cancels(t)
    <2>1. Sale[t] = "DRAFT" /\ Sale'[t] = "CANCELLED" /\ Seat'[t] = None
        BY <1>7 DEF Cancels, TicketMoves, OrderMoves, Sale, Seat
    <2>2. Service!End(t, "CANCELLED")
        BY <1>4, <2>1 DEF Service!End, Sale, Seat
    <2>3. QED
        BY <2>2 DEF Service!ServiceNext
<1>8. CASE Confirms(t)
    <2>1. Sale[t] = "DRAFT" /\ Sale'[t] = "CONFIRMED" /\ Seat'[t] = None
        BY <1>8 DEF Confirms, TicketMoves, OrderMoves, Sale, Seat
    <2>2. Service!End(t, "CONFIRMED")
        BY <1>4, <2>1 DEF Service!End, Sale, Seat
    <2>3. QED
        BY <2>2 DEF Service!ServiceNext
<1>9. CASE Voids(t)
    <2>1. Sale[t] = "CONFIRMED" /\ Sale'[t] = "VOIDED"
        BY <1>9 DEF Voids, TicketMoves, Sale
    <2>2. order[t].status # "OPEN" /\ order'[t].status # "OPEN"
        BY <1>3, <1>9 DEF Voids, TicketMoves, OrderMoves, OrderFollowsTicket
    <2>3. Seat'[t] = None /\ Seat[t] = None
        BY <2>2 DEF Seat
    <2>4. Sale' = [Sale EXCEPT ![t] = "VOIDED"] /\ Seat' = Seat
        <3>1. Sale' = [Sale EXCEPT ![t] = "VOIDED"]
            BY <1>4, <2>1
        <3>2. \A u \in Tickets : Seat'[u] = Seat[u]
            BY <1>1, <2>3
        <3>3. QED
            BY <3>1, <3>2 DEF Seat
    <2>5. Service!Reverse(t)
        BY <2>1, <2>4 DEF Service!Reverse, Sale, Seat
    <2>6. QED
        BY <2>5 DEF Service!ServiceNext
<1>10. QED
    BY <1>5, <1>6, <1>7, <1>8, <1>9 DEF SaleStep

\* The endpoints of tickets and of orders together implement the service of the
\* floor, for every number of tables and tickets.
THEOREM TableServiceImplemented == Spec => ImplementsTableService
<1>1. Init => Service!ServiceInit
    BY DEF Init, SalesInit, Service!ServiceInit
<1>2. ASSUME SalesInv, [Next]_vars
      PROVE  [Service!ServiceNext]_(Service!serviceVars)
    <2>1. CASE UNCHANGED salesVars
        BY <2>1 DEF salesVars, Service!serviceVars
    <2>2. QED
        BY <1>2, <2>1, StepShape, SaleStepImplements
<1>3. QED
    BY <1>1, <1>2, SalesInvariant, PTL
    DEF Spec, ImplementsTableService, Service!ServiceSpec
==============================================================================
