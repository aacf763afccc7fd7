------------------------------- MODULE Queries -------------------------------
(***************************************************************************)
(* What the read-only endpoints answer over the state of Sales: the sales  *)
(* reports, the stock status that three services compute on their own, and *)
(* the catalogue of the point of sale.  Filters by date, text, category or *)
(* user, ordering and pages are left out.                                  *)
(***************************************************************************)
EXTENDS Sales

\* buildConfirmedSalesSqlConditions: voided sales are not reported.
ConfirmedTickets == {t \in Tickets : ticket[t].status = "CONFIRMED"}

\* getSalesByChannelReport: the tickets of a channel joined with their items.
SalesByChannel(ch) ==
    LET sold == {t \in ConfirmedTickets : ticket[t].channel = ch /\ Lines(t) # {}}
    IN  [ticketsCount |-> Cardinality(sold),
         itemsCount   |-> SumFunction([t \in sold |-> Cardinality(Lines(t))]),
         quantitySold |-> SumFunction([t \in sold |->
                              SumFunction([p \in Lines(t) |-> items[t][p].quantity])]),
         grossSales   |-> SumFunction([t \in sold |->
                              SumFunction([p \in Lines(t) |-> items[t][p].subtotal])])]

\* Faulty: gross sales from the price and the quantity, rounded again.
SalesByProductRecomputed(p) ==
    LET sold == {t \in ConfirmedTickets : p \in Lines(t)}
    IN  [ticketsCount |-> Cardinality(sold),
         quantitySold |-> SumFunction([t \in sold |-> items[t][p].quantity]),
         grossSales   |-> SumFunction([t \in sold |->
                              StoredCents(10 * items[t][p].unitPrice * items[t][p].quantity)])]

\* getSalesByProductReport: the confirmed items of a product.
SalesByProduct(p) ==
    LET sold == {t \in ConfirmedTickets : p \in Lines(t)}
    IN  [ticketsCount |-> Cardinality(sold),
         quantitySold |-> SumFunction([t \in sold |-> items[t][p].quantity]),
         grossSales   |-> SumFunction([t \in sold |-> items[t][p].subtotal])]

-----------------------------------------------------------------------------
\* resolveStockStatus of the inventory, whose list is of finished products.
InventoryStatus(p) ==
    CASE currentStock[p] = 0 -> "OUT_OF_STOCK"
      [] currentStock[p] > 0 /\ currentStock[p] <= minimumStock[p] -> "LOW_STOCK"
      [] OTHER -> "AVAILABLE"

\* resolveStockStatus of the stock report, and the SQL of its pages.
ReportStatus(p) ==
    CASE ~IsFinished(p) -> "NOT_TRACKED"
      [] IsFinished(p) /\ currentStock[p] = 0 -> "OUT_OF_STOCK"
      [] IsFinished(p) /\ currentStock[p] \in 1..minimumStock[p] -> "LOW_STOCK"
      [] OTHER -> "AVAILABLE"

\* The paged report's summary: products by status.
StockSummary(status) == Cardinality({p \in Products : ReportStatus(p) = status})

\* Faulty: the minimum itself is not low.
PosStatusAboveMinimum(p) ==
    IF ~IsFinished(p) THEN "NOT_TRACKED"
    ELSE IF currentStock[p] = 0 THEN "OUT_OF_STOCK"
    ELSE IF currentStock[p] < minimumStock[p] THEN "LOW_STOCK" ELSE "AVAILABLE"

\* PosService.getCatalog: a stock or minimum that is missing is 0 here.
PosStatus(p) ==
    IF ~IsFinished(p) THEN "NOT_TRACKED"
    ELSE IF currentStock[p] = 0 THEN "OUT_OF_STOCK"
    ELSE IF minimumStock[p] > 0 /\ currentStock[p] <= minimumStock[p] THEN "LOW_STOCK"
    ELSE "AVAILABLE"

\* PosService.getCatalog: the products it offers on a channel, active or not.
PosOffers(ch) ==
    {p \in Products : productActive[p] /\ ~IsRecipeBased(p) /\ currentPrice[p][ch] # None}

-----------------------------------------------------------------------------
\* The reports and the till agree: whichever way the confirmed sales are
\* grouped, they add up to the tickets, quantities and amounts that were
\* charged; nothing is counted twice, left out, or rounded again.
ReportsBalance ==
    /\ SumFunction([ch \in Channels |-> SalesByChannel(ch).grossSales])
        = SumFunction([t \in ConfirmedTickets |-> totalAmount[t]])
    /\ SumFunction([p \in Products |-> SalesByProduct(p).grossSales])
        = SumFunction([t \in ConfirmedTickets |-> totalAmount[t]])
    /\ SumFunction([ch \in Channels |-> SalesByChannel(ch).quantitySold])
        = SumFunction([p \in Products |-> SalesByProduct(p).quantitySold])
    /\ SumFunction([ch \in Channels |-> SalesByChannel(ch).itemsCount])
        = SumFunction([p \in Products |-> SalesByProduct(p).ticketsCount])
    /\ SumFunction([ch \in Channels |-> SalesByChannel(ch).ticketsCount])
        = Cardinality(ConfirmedTickets)

\* The till, the stock list and the report tell one status of a product, and
\* the till offers what can be sold but for a missing cost: a product with
\* stock, price and cost that the till offers is accepted on a ticket.
TillAgreesWithOffice ==
    /\ \A p \in Products :
        /\ PosStatus(p) = ReportStatus(p)
        /\ IsFinished(p) => PosStatus(p) = InventoryStatus(p)
    /\ \A ch \in Channels : \A p \in PosOffers(ch) : p \in costed => Sellable(p, ch)
    /\ StockSummary("AVAILABLE") + StockSummary("LOW_STOCK")
        = Cardinality({p \in Products : IsFinished(p) /\ currentStock[p] # 0})
==============================================================================
