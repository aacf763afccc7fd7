---------------------------- MODULE QueriesProofs -----------------------------
(***************************************************************************)
(* What the reports and the till answer, for every set of products,        *)
(* channels and tickets.  The confirmed sales are one table of numbers, a  *)
(* row per ticket and a column per product; a report by channel groups its *)
(* rows and a report by product adds its columns (SumProofs), and the      *)
(* tickets hold the sums of the rows (SalesProofs).                        *)
(***************************************************************************)
EXTENDS Queries, SalesProofs

-----------------------------------------------------------------------------
(* The status of a product. *)

\* The three services compute the same status from the same stock row.
LEMMA StatusesAgree ==
    ASSUME InventoryTypeOK, NEW p \in Products
    PROVE  /\ PosStatus(p) = ReportStatus(p)
           /\ IsFinished(p) => PosStatus(p) = InventoryStatus(p)
<1>1. currentStock[p] \in Nat /\ minimumStock[p] \in Nat
    BY DEF InventoryTypeOK
<1>2. CASE ~IsFinished(p)
    BY <1>2 DEF PosStatus, ReportStatus
<1>3. CASE IsFinished(p) /\ currentStock[p] = 0
    BY <1>3 DEF PosStatus, ReportStatus, InventoryStatus
<1>4. CASE IsFinished(p) /\ currentStock[p] # 0 /\ currentStock[p] <= minimumStock[p]
    BY <1>1, <1>4 DEF PosStatus, ReportStatus, InventoryStatus
<1>5. CASE IsFinished(p) /\ currentStock[p] # 0 /\ ~(currentStock[p] <= minimumStock[p])
    BY <1>1, <1>5 DEF PosStatus, ReportStatus, InventoryStatus
<1>6. QED
    BY <1>2, <1>3, <1>4, <1>5

\* The summary of the stock report counts each stocked product once.
LEMMA SummaryCounts ==
    ASSUME InventoryTypeOK
    PROVE  StockSummary("AVAILABLE") + StockSummary("LOW_STOCK")
             = Cardinality({p \in Products : IsFinished(p) /\ currentStock[p] # 0})
<1> DEFINE A == {p \in Products : ReportStatus(p) = "AVAILABLE"}
           L == {p \in Products : ReportStatus(p) = "LOW_STOCK"}
           B == {p \in Products : IsFinished(p) /\ currentStock[p] # 0}
<1>1. ASSUME NEW p \in Products
      PROVE  /\ p \in B <=> p \in A \/ p \in L
             /\ ~(p \in A /\ p \in L)
    <2>1. currentStock[p] \in Nat /\ minimumStock[p] \in Nat
        BY DEF InventoryTypeOK
    <2>2. CASE ~IsFinished(p)
        BY <2>2 DEF ReportStatus
    <2>3. CASE IsFinished(p) /\ currentStock[p] = 0
        BY <2>3 DEF ReportStatus
    <2>4. CASE IsFinished(p) /\ currentStock[p] # 0 /\ currentStock[p] <= minimumStock[p]
        BY <2>1, <2>4 DEF ReportStatus
    <2>5. CASE IsFinished(p) /\ currentStock[p] # 0 /\ ~(currentStock[p] <= minimumStock[p])
        BY <2>1, <2>5 DEF ReportStatus
    <2>6. QED
        BY <2>2, <2>3, <2>4, <2>5
<1>2. A \cap L = {} /\ A \cup L = B /\ A \in SUBSET Products /\ L \in SUBSET Products
    BY <1>1
<1>3. StockSummary("AVAILABLE") = Cardinality(A) /\ StockSummary("LOW_STOCK") = Cardinality(L)
    BY DEF StockSummary
<1> HIDE DEF A, L, B
<1>4. IsFiniteSet(A) /\ IsFiniteSet(L)
    BY <1>2, FS_Subset, FiniteCatalogAssumption
<1>5. Cardinality(B) = Cardinality(A) + Cardinality(L) - Cardinality(A \cap L)
    BY <1>2, <1>4, FS_Union
<1>6. Cardinality(A \cap L) = 0 /\ Cardinality(A) \in Nat /\ Cardinality(L) \in Nat
    BY <1>2, <1>4, FS_EmptySet, FS_CardinalityType
<1>7. QED
    BY <1>3, <1>5, <1>6 DEF B

\* The till tells what the stock list and the report tell of a product, and
\* offers what AddItem accepts but for its cost (PosService.getCatalog).
THEOREM TillCorrect == Spec => []TillAgreesWithOffice
<1>1. SalesInv => TillAgreesWithOffice
    BY StatusesAgree, SummaryCounts
    DEF SalesInv, TypeOK, TillAgreesWithOffice, PosOffers, Sellable
<1>2. QED
    BY <1>1, SalesInvariant, PTL

-----------------------------------------------------------------------------
(* The reports of sales. *)

\* The tickets each report counts.
SoldOn(ch) == {t \in ConfirmedTickets : ticket[t].channel = ch /\ Lines(t) # {}}
SoldWith(p) == {t \in ConfirmedTickets : p \in Lines(t)}

\* A table of the confirmed sales: a number per ticket and product, 0 where the
\* ticket has no line of the product.
SalesTable(F) ==
    \A t \in ConfirmedTickets, p \in Products :
        F[t][p] \in Int /\ (p \notin Lines(t) => F[t][p] = 0)

\* There are finitely many tickets and lines.
LEMMA SalesAreFinite ==
    /\ IsFiniteSet(ConfirmedTickets)
    /\ \A t \in Tickets : Lines(t) \in SUBSET Products /\ IsFiniteSet(Lines(t))
    /\ \A ch \in Channels : IsFiniteSet(SoldOn(ch)) /\ SoldOn(ch) \in SUBSET ConfirmedTickets
    /\ \A p \in Products : IsFiniteSet(SoldWith(p)) /\ SoldWith(p) \in SUBSET ConfirmedTickets
<1>1. ConfirmedTickets \in SUBSET Tickets
    BY DEF ConfirmedTickets
<1>2. IsFiniteSet(ConfirmedTickets)
    BY <1>1, TicketsAssumption, FS_Subset
<1>3. \A t \in Tickets : Lines(t) \in SUBSET Products
    BY DEF Lines
<1>4. /\ \A ch \in Channels : SoldOn(ch) \in SUBSET ConfirmedTickets
      /\ \A p \in Products : SoldWith(p) \in SUBSET ConfirmedTickets
    BY DEF SoldOn, SoldWith
<1>5. QED
    BY <1>2, <1>3, <1>4, FiniteCatalogAssumption, FS_Subset

\* Grouping confirmed tickets by channel leaves none out and counts none twice.
LEMMA ByChannel ==
    ASSUME SalesInv, NEW total, \A t \in ConfirmedTickets : total[t] \in Int,
           NEW report, \A ch \in Channels :
                report[ch] = SumFunctionOnSet(total, SoldOn(ch))
    PROVE  SumFunctionOnSet(report, Channels) = SumFunctionOnSet(total, ConfirmedTickets)
<1> DEFINE k == [t \in ConfirmedTickets |-> ticket[t].channel]
<1>1. k \in [ConfirmedTickets -> Channels]
    BY DEF SalesInv, TypeOK, SalesTypeOK, ConfirmedTickets
<1>2. \A ch \in Channels : {t \in ConfirmedTickets : k[t] = ch} = SoldOn(ch)
    BY DEF SalesInv, LinesFollowTicket, ConfirmedTickets, SoldOn
<1> HIDE DEF k
<1>3. \A ch \in Channels :
        report[ch] = SumFunctionOnSet(total, {t \in ConfirmedTickets : k[t] = ch})
    BY <1>2
<1>4. QED
    BY <1>1, <1>3, SalesAreFinite, FiniteCatalogAssumption, SumByClass

\* Adding the lines of each product adds the lines of each ticket.
LEMMA ByProduct ==
    ASSUME NEW F, SalesTable(F),
           NEW total, Totals(total, F, ConfirmedTickets, Products),
           NEW report, \A p \in Products :
                report[p] = SumFunction([t \in SoldWith(p) |-> F[t][p]])
    PROVE  SumFunctionOnSet(report, Products) = SumFunctionOnSet(total, ConfirmedTickets)
<1> DEFINE G == [p \in Products |-> [t \in ConfirmedTickets |-> F[t][p]]]
<1>1. Transposed(F, G, ConfirmedTickets, Products)
    BY DEF SalesTable, Transposed
<1>2. ASSUME NEW p \in Products
      PROVE  report[p] = SumFunctionOnSet(G[p], ConfirmedTickets)
    <2> DEFINE S == SoldWith(p)
               f == [t \in S |-> F[t][p]]
    <2>1. /\ IsFiniteSet(S) /\ S \in SUBSET ConfirmedTickets
          /\ IsFiniteSet(ConfirmedTickets)
        BY SalesAreFinite
    <2>2. /\ \A t \in ConfirmedTickets : G[p][t] \in Int
          /\ \A t \in ConfirmedTickets \ S : G[p][t] = 0
        BY DEF SalesTable, SoldWith
    <2>3. \A t \in S : f[t] = G[p][t]
        BY <2>1
    <2>4. report[p] = SumFunctionOnSet(f, S)
        BY DEF SumFunction
    <2> HIDE DEF f, S, G
    <2>5. SumFunctionOnSet(f, S) = SumFunctionOnSet(G[p], S)
        BY <2>1, <2>3, SumSame
    <2>6. SumFunctionOnSet(G[p], ConfirmedTickets) = SumFunctionOnSet(G[p], S)
        BY <2>1, <2>2, SumSupport
    <2>7. QED
        BY <2>4, <2>5, <2>6
<1> HIDE DEF G
<1>3. Totals(report, G, Products, ConfirmedTickets)
    BY <1>2 DEF Totals
<1>4. QED
    BY <1>1, <1>3, SalesAreFinite, FiniteCatalogAssumption, SumExchange

\* The row of a ticket adds up over its lines alone.
LEMMA RowOfLines ==
    ASSUME NEW F, SalesTable(F), NEW t \in ConfirmedTickets
    PROVE  /\ SumFunctionOnSet(F[t], Products) \in Int
           /\ SumFunctionOnSet(F[t], Products) = SumFunctionOnSet(F[t], Lines(t))
<1>1. t \in Tickets
    BY DEF ConfirmedTickets
<1>2. /\ \A p \in Products : F[t][p] \in Int
      /\ \A p \in Products \ Lines(t) : F[t][p] = 0
      /\ Lines(t) \in SUBSET Products
    BY <1>1, SalesAreFinite DEF SalesTable
<1> DEFINE f == F[t]
<1>3. /\ \A p \in Products : f[p] \in Int
      /\ \A p \in Products \ Lines(t) : f[p] = 0
    BY <1>2
<1> HIDE DEF f
<1>4. /\ SumFunctionOnSet(f, Products) \in Int
      /\ SumFunctionOnSet(f, Products) = SumFunctionOnSet(f, Lines(t))
    BY <1>2, <1>3, FiniteCatalogAssumption, SumType, SumSupport
<1>5. QED
    BY <1>4 DEF f

\* A column that adds, for each ticket sold on a channel, its lines.
LEMMA ChannelJoin ==
    ASSUME NEW F, SalesTable(F),
           NEW total, Totals(total, F, ConfirmedTickets, Products),
           NEW ch \in Channels
    PROVE  SumFunction([t \in SoldOn(ch) |-> SumFunction([p \in Lines(t) |-> F[t][p]])])
             = SumFunctionOnSet(total, SoldOn(ch))
<1> DEFINE S == SoldOn(ch)
           g == [t \in S |-> SumFunction([p \in Lines(t) |-> F[t][p]])]
<1>1. IsFiniteSet(S) /\ S \in SUBSET ConfirmedTickets
    BY SalesAreFinite
<1>2. ASSUME NEW t \in S
      PROVE  g[t] = total[t]
    <2> DEFINE f == [p \in Lines(t) |-> F[t][p]]
               r == F[t]
    <2>1. t \in ConfirmedTickets /\ t \in Tickets
        BY <1>1 DEF ConfirmedTickets
    <2>2. g[t] = SumFunctionOnSet(f, Lines(t))
        BY DEF SumFunction
    <2>3. \A p \in Lines(t) : f[p] = r[p]
        OBVIOUS
    <2>4. total[t] = SumFunctionOnSet(r, Products)
        BY <2>1 DEF Totals
    <2>5. SumFunctionOnSet(r, Products) = SumFunctionOnSet(r, Lines(t))
        BY <2>1, RowOfLines
    <2> HIDE DEF f, r, g
    <2>6. SumFunctionOnSet(f, Lines(t)) = SumFunctionOnSet(r, Lines(t))
        BY <2>1, <2>3, SalesAreFinite, SumSame
    <2>7. QED
        BY <2>2, <2>4, <2>5, <2>6
<1>3. SumFunction(g) = SumFunctionOnSet(g, S)
    BY DEF SumFunction
<1>4. SumFunction([t \in SoldOn(ch) |-> SumFunction([p \in Lines(t) |-> F[t][p]])])
        = SumFunction(g)
    OBVIOUS
<1> HIDE DEF g, S
<1>5. SumFunctionOnSet(g, S) = SumFunctionOnSet(total, S)
    BY <1>1, <1>2, SumSame
<1>6. QED
    BY <1>3, <1>4, <1>5 DEF S

\* The total of each row of a table.
RowTotals(F) == [t \in ConfirmedTickets |-> SumFunctionOnSet(F[t], Products)]

\* A table of the confirmed sales adds up by channel, by product and by ticket.
LEMMA AllWays ==
    ASSUME SalesInv, NEW F, SalesTable(F)
    PROVE  /\ SumFunction([ch \in Channels |->
                    SumFunction([t \in SoldOn(ch) |->
                        SumFunction([p \in Lines(t) |-> F[t][p]])])])
                = SumFunctionOnSet(RowTotals(F), ConfirmedTickets)
           /\ SumFunction([p \in Products |->
                    SumFunction([t \in SoldWith(p) |-> F[t][p]])])
                = SumFunctionOnSet(RowTotals(F), ConfirmedTickets)
<1> DEFINE total == RowTotals(F)
           byChannel == [ch \in Channels |->
                            SumFunction([t \in SoldOn(ch) |->
                                SumFunction([p \in Lines(t) |-> F[t][p]])])]
           byProduct == [p \in Products |->
                            SumFunction([t \in SoldWith(p) |-> F[t][p]])]
<1>1. Totals(total, F, ConfirmedTickets, Products)
    BY DEF Totals, RowTotals
<1>2. \A t \in ConfirmedTickets : total[t] \in Int
    BY RowOfLines DEF RowTotals
<1>3. /\ SumFunction(byChannel) = SumFunctionOnSet(byChannel, Channels)
      /\ SumFunction(byProduct) = SumFunctionOnSet(byProduct, Products)
    BY DEF SumFunction
<1>4. \A p \in Products :
        byProduct[p] = SumFunction([t \in SoldWith(p) |-> F[t][p]])
    OBVIOUS
<1> HIDE DEF total
<1>5. ASSUME NEW ch \in Channels
      PROVE  byChannel[ch] = SumFunctionOnSet(total, SoldOn(ch))
    BY <1>1, ChannelJoin
<1> HIDE DEF byChannel, byProduct
<1>6. SumFunctionOnSet(byChannel, Channels) = SumFunctionOnSet(total, ConfirmedTickets)
    BY <1>2, <1>5, ByChannel
<1>7. SumFunctionOnSet(byProduct, Products) = SumFunctionOnSet(total, ConfirmedTickets)
    BY <1>1, <1>4, ByProduct
<1>8. QED
    BY <1>3, <1>6, <1>7 DEF total, byChannel, byProduct

\* A product that a ticket has no line of has neither quantity nor amount there.
LEMMA NoLineNoAmount ==
    ASSUME SalesInv, NEW t \in Tickets, NEW p \in Products
    PROVE  /\ items[t][p].subtotal \in Int /\ items[t][p].quantity \in Int
           /\ p \notin Lines(t) => /\ items[t][p].subtotal = 0
                                   /\ items[t][p].quantity = 0
<1>1. items[t][p] \in Item
    BY DEF SalesInv, TypeOK, SalesTypeOK
<1>2. /\ items[t][p].quantity \in Nat /\ items[t][p].subtotal \in Nat
    BY <1>1 DEF Item
<1>3. IsStoredLine(items[t][p])
    BY DEF SalesInv, LinesAreStored
<1>4. CASE items[t][p] = NoItem
    BY <1>2, <1>4 DEF NoItem
<1>5. CASE items[t][p] # NoItem
    <2>1. PICK quantity \in Nat, unitPrice \in Nat :
            quantity >= 10 /\ items[t][p] = LineOf(quantity, unitPrice)
        BY <1>3, <1>5 DEF IsStoredLine
    <2>2. items[t][p].quantity = Stored(quantity)
        BY <2>1 DEF LineOf
    <2>3. Stored(quantity) >= 1
        BY <2>1 DEF Stored
    <2>4. p \in Lines(t)
        BY <1>2, <2>2, <2>3 DEF Lines
    <2>5. QED
        BY <1>2, <2>4
<1>6. QED
    BY <1>4, <1>5

\* The amounts, quantities and presence of lines of the confirmed sales.
Amounts == [t \in ConfirmedTickets |-> [p \in Products |-> items[t][p].subtotal]]
Quantities == [t \in ConfirmedTickets |-> [p \in Products |-> items[t][p].quantity]]
Presence == [t \in ConfirmedTickets |->
                [p \in Products |-> IF p \in Lines(t) THEN 1 ELSE 0]]

\* The three are tables of the confirmed sales.
LEMMA TablesOfSales ==
    ASSUME SalesInv
    PROVE  SalesTable(Amounts) /\ SalesTable(Quantities) /\ SalesTable(Presence)
<1>1. ConfirmedTickets \in SUBSET Tickets
    BY DEF ConfirmedTickets
<1>2. QED
    BY <1>1, NoLineNoAmount DEF SalesTable, Amounts, Quantities, Presence

\* The gross sales by channel and by product are the amounts charged.
LEMMA AmountsBalance ==
    ASSUME SalesInv
    PROVE  /\ SumFunction([ch \in Channels |-> SalesByChannel(ch).grossSales])
                = SumFunction([t \in ConfirmedTickets |-> totalAmount[t]])
           /\ SumFunction([p \in Products |-> SalesByProduct(p).grossSales])
                = SumFunction([t \in ConfirmedTickets |-> totalAmount[t]])
<1> DEFINE F == Amounts
           charged == [t \in ConfirmedTickets |-> totalAmount[t]]
           total == RowTotals(F)
<1>1. SalesTable(F)
    BY TablesOfSales
<1>2. /\ \A ch \in Channels : SalesByChannel(ch).grossSales =
                SumFunction([t \in SoldOn(ch) |->
                    SumFunction([p \in Lines(t) |-> F[t][p]])])
      /\ \A p \in Products : SalesByProduct(p).grossSales =
                SumFunction([t \in SoldWith(p) |-> F[t][p]])
    <2>1. \A t \in ConfirmedTickets, p \in Products : F[t][p] = items[t][p].subtotal
        BY DEF Amounts
    <2>2. ASSUME NEW ch \in Channels
          PROVE  [t \in SoldOn(ch) |-> SumFunction([p \in Lines(t) |-> F[t][p]])]
                   = [t \in SoldOn(ch) |->
                        SumFunction([p \in Lines(t) |-> items[t][p].subtotal])]
        <3>1. ASSUME NEW t \in SoldOn(ch)
              PROVE  [p \in Lines(t) |-> F[t][p]] = [p \in Lines(t) |-> items[t][p].subtotal]
            BY <2>1 DEF SoldOn, Lines
        <3>2. QED
            BY <3>1
    <2>3. ASSUME NEW p \in Products
          PROVE  [t \in SoldWith(p) |-> F[t][p]]
                   = [t \in SoldWith(p) |-> items[t][p].subtotal]
        BY <2>1 DEF SoldWith
    <2>4. QED
        BY <2>2, <2>3 DEF SalesByChannel, SalesByProduct, SoldOn, SoldWith
<1>3. ASSUME NEW t \in ConfirmedTickets
      PROVE  total[t] = charged[t]
    <2>1. totalAmount[t] = TotalOf(items[t])
        BY DEF SalesInv, TotalIsSumOfLines, ConfirmedTickets
    <2> DEFINE f == [p \in Products |-> items[t][p].subtotal]
    <2>2. TotalOf(items[t]) = SumFunctionOnSet(f, Products)
        BY DEF TotalOf, SumFunction
    <2>3. F[t] = f
        BY DEF Amounts
    <2>4. QED
        BY <2>1, <2>2, <2>3 DEF RowTotals
<1>4. SumFunction(charged) = SumFunctionOnSet(charged, ConfirmedTickets)
    BY DEF SumFunction
<1> HIDE DEF F, total, charged
<1>5. SumFunctionOnSet(total, ConfirmedTickets) = SumFunctionOnSet(charged, ConfirmedTickets)
    BY <1>3, SalesAreFinite, SumSame
<1>6. /\ SumFunction([ch \in Channels |-> SumFunction([t \in SoldOn(ch) |->
                    SumFunction([p \in Lines(t) |-> F[t][p]])])])
            = SumFunctionOnSet(total, ConfirmedTickets)
      /\ SumFunction([p \in Products |-> SumFunction([t \in SoldWith(p) |-> F[t][p]])])
            = SumFunctionOnSet(total, ConfirmedTickets)
    BY <1>1, AllWays DEF total
<1>7. /\ [ch \in Channels |-> SalesByChannel(ch).grossSales]
            = [ch \in Channels |-> SumFunction([t \in SoldOn(ch) |->
                    SumFunction([p \in Lines(t) |-> F[t][p]])])]
      /\ [p \in Products |-> SalesByProduct(p).grossSales]
            = [p \in Products |-> SumFunction([t \in SoldWith(p) |-> F[t][p]])]
    BY <1>2
<1>8. QED
    BY <1>4, <1>5, <1>6, <1>7 DEF charged

\* The quantities by channel and by product are the same.
LEMMA QuantitiesBalance ==
    ASSUME SalesInv
    PROVE  SumFunction([ch \in Channels |-> SalesByChannel(ch).quantitySold])
             = SumFunction([p \in Products |-> SalesByProduct(p).quantitySold])
<1> DEFINE F == Quantities
<1>1. SalesTable(F)
    BY TablesOfSales
<1>2. \A t \in ConfirmedTickets, p \in Products : F[t][p] = items[t][p].quantity
    BY DEF Quantities
<1>3. [ch \in Channels |-> SalesByChannel(ch).quantitySold]
        = [ch \in Channels |-> SumFunction([t \in SoldOn(ch) |->
                SumFunction([p \in Lines(t) |-> F[t][p]])])]
    <2>1. ASSUME NEW ch \in Channels
          PROVE  [t \in SoldOn(ch) |-> SumFunction([p \in Lines(t) |-> F[t][p]])]
                   = [t \in SoldOn(ch) |->
                        SumFunction([p \in Lines(t) |-> items[t][p].quantity])]
        <3>1. ASSUME NEW t \in SoldOn(ch)
              PROVE  [p \in Lines(t) |-> F[t][p]] = [p \in Lines(t) |-> items[t][p].quantity]
            BY <1>2 DEF SoldOn, Lines
        <3>2. QED
            BY <3>1
    <2>2. QED
        BY <2>1 DEF SalesByChannel, SoldOn
<1>4. [p \in Products |-> SalesByProduct(p).quantitySold]
        = [p \in Products |-> SumFunction([t \in SoldWith(p) |-> F[t][p]])]
    <2>1. ASSUME NEW p \in Products
          PROVE  [t \in SoldWith(p) |-> F[t][p]]
                   = [t \in SoldWith(p) |-> items[t][p].quantity]
        BY <1>2 DEF SoldWith
    <2>2. QED
        BY <2>1 DEF SalesByProduct, SoldWith
<1> HIDE DEF F
<1>5. SumFunction([ch \in Channels |-> SumFunction([t \in SoldOn(ch) |->
            SumFunction([p \in Lines(t) |-> F[t][p]])])])
        = SumFunction([p \in Products |-> SumFunction([t \in SoldWith(p) |-> F[t][p]])])
    BY <1>1, AllWays
<1>6. QED
    BY <1>3, <1>4, <1>5

\* Adding one for each element counts them.
LEMMA CountOnes ==
    ASSUME NEW S, IsFiniteSet(S), NEW f, \A x \in S : f[x] = 1, DOMAIN f = S
    PROVE  SumFunction(f) = Cardinality(S)
BY SumOfOnes DEF SumFunction

\* The lines by channel are the tickets of each product.
LEMMA CountsBalance ==
    ASSUME SalesInv
    PROVE  SumFunction([ch \in Channels |-> SalesByChannel(ch).itemsCount])
             = SumFunction([p \in Products |-> SalesByProduct(p).ticketsCount])
<1> DEFINE F == Presence
<1>1. SalesTable(F)
    BY TablesOfSales
<1>2. \A t \in ConfirmedTickets, p \in Products : p \in Lines(t) => F[t][p] = 1
    BY DEF Presence
<1> HIDE DEF F
<1>3. [ch \in Channels |-> SalesByChannel(ch).itemsCount]
        = [ch \in Channels |-> SumFunction([t \in SoldOn(ch) |->
                SumFunction([p \in Lines(t) |-> F[t][p]])])]
    <2>1. ASSUME NEW ch \in Channels
          PROVE  [t \in SoldOn(ch) |-> SumFunction([p \in Lines(t) |-> F[t][p]])]
                   = [t \in SoldOn(ch) |-> Cardinality(Lines(t))]
        <3>1. ASSUME NEW t \in SoldOn(ch)
              PROVE  SumFunction([p \in Lines(t) |-> F[t][p]]) = Cardinality(Lines(t))
            <4> DEFINE f == [p \in Lines(t) |-> F[t][p]]
            <4>1. t \in ConfirmedTickets /\ t \in Tickets
                BY DEF SoldOn, ConfirmedTickets
            <4>2. IsFiniteSet(Lines(t)) /\ Lines(t) \in SUBSET Products
                BY <4>1, SalesAreFinite
            <4>3. DOMAIN f = Lines(t) /\ \A p \in Lines(t) : f[p] = 1
                BY <1>2, <4>1, <4>2
            <4> HIDE DEF f
            <4>4. SumFunction(f) = Cardinality(Lines(t))
                BY <4>2, <4>3, CountOnes
            <4>5. QED
                BY <4>4 DEF f
        <3>2. QED
            BY <3>1
    <2>2. QED
        BY <2>1 DEF SalesByChannel, SoldOn
<1>4. [p \in Products |-> SalesByProduct(p).ticketsCount]
        = [p \in Products |-> SumFunction([t \in SoldWith(p) |-> F[t][p]])]
    <2>1. ASSUME NEW p \in Products
          PROVE  SumFunction([t \in SoldWith(p) |-> F[t][p]]) = Cardinality(SoldWith(p))
        <3> DEFINE f == [t \in SoldWith(p) |-> F[t][p]]
        <3>1. DOMAIN f = SoldWith(p) /\ \A t \in SoldWith(p) : f[t] = 1
            BY <1>2 DEF SoldWith
        <3> HIDE DEF f
        <3>2. SumFunction(f) = Cardinality(SoldWith(p))
            BY <3>1, SalesAreFinite, CountOnes
        <3>3. QED
            BY <3>2 DEF f
    <2>2. QED
        BY <2>1 DEF SalesByProduct, SoldWith
<1>5. SumFunction([ch \in Channels |-> SumFunction([t \in SoldOn(ch) |->
            SumFunction([p \in Lines(t) |-> F[t][p]])])])
        = SumFunction([p \in Products |-> SumFunction([t \in SoldWith(p) |-> F[t][p]])])
    BY <1>1, AllWays
<1>6. QED
    BY <1>3, <1>4, <1>5

\* The tickets by channel are the confirmed tickets.
LEMMA TicketsBalance ==
    ASSUME SalesInv
    PROVE  SumFunction([ch \in Channels |-> SalesByChannel(ch).ticketsCount])
             = Cardinality(ConfirmedTickets)
<1> DEFINE one == [t \in ConfirmedTickets |-> 1]
           report == [ch \in Channels |-> SalesByChannel(ch).ticketsCount]
<1>1. \A t \in ConfirmedTickets : one[t] = 1
    OBVIOUS
<1>2. \A ch \in Channels : report[ch] = Cardinality(SoldOn(ch))
    BY DEF SalesByChannel, SoldOn
<1>3. SumFunction(report) = SumFunctionOnSet(report, Channels)
    BY DEF SumFunction
<1> HIDE DEF one, report
<1>4. ASSUME NEW ch \in Channels
      PROVE  report[ch] = SumFunctionOnSet(one, SoldOn(ch))
    <2>1. IsFiniteSet(SoldOn(ch)) /\ \A t \in SoldOn(ch) : one[t] = 1
        BY <1>1, SalesAreFinite
    <2>2. QED
        BY <1>2, <2>1, SumOfOnes
<1>5. SumFunctionOnSet(report, Channels) = SumFunctionOnSet(one, ConfirmedTickets)
    BY <1>1, <1>4, ByChannel
<1>6. SumFunctionOnSet(one, ConfirmedTickets) = Cardinality(ConfirmedTickets)
    BY <1>1, SalesAreFinite, SumOfOnes
<1>7. QED
    BY <1>3, <1>5, <1>6 DEF report

\* The sales by channel, by product and by ticket add up to the same amounts,
\* quantities and counts (ReportsService.getSalesByChannelReport and
\* getSalesByProductReport against the tickets).
THEOREM ReportsCorrect == Spec => []ReportsBalance
<1>1. SalesInv => ReportsBalance
    BY AmountsBalance, QuantitiesBalance, CountsBalance, TicketsBalance DEF ReportsBalance
<1>2. QED
    BY <1>1, SalesInvariant, PTL
==============================================================================
