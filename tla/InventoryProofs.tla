--------------------------- MODULE InventoryProofs ---------------------------
(***************************************************************************)
(* What the ledger guarantees for every set of products, requests and      *)
(* inputs: the type invariant, the chain of movements, their bounded drift *)
(* and that the ledger only grows.  The lemmas speak of PersistMovements   *)
(* once, and are used again for the movements of sales in SalesProofs.     *)
(***************************************************************************)
EXTENDS Inventory, TLAPS

-----------------------------------------------------------------------------
(* Rounding. *)

\* The column holds a natural number when the input is one.
LEMMA StoredNat == ASSUME NEW x \in Nat PROVE Stored(x) \in Nat
BY DEF Stored

\* A quantity that was already stored is not rounded again.
LEMMA StoredExact == ASSUME NEW x \in Nat PROVE Stored(Thousandths(x)) = x
BY DEF Stored, Thousandths

\* Adding to a stored stock rounds as the addend does.
LEMMA StoredSum ==
    ASSUME NEW x \in Nat, NEW q \in Nat
    PROVE  Stored(Thousandths(x) + q) = x + Stored(q)
BY DEF Stored, Thousandths

\* Subtracting from a stored stock may round the two results apart by one.
LEMMA StoredDifference ==
    ASSUME NEW x \in Nat, NEW q \in Nat, Thousandths(x) - q >= 0
    PROVE  AbsDiff(x, Stored(Thousandths(x) - q) + Stored(q)) <= 1
BY DEF Stored, Thousandths, AbsDiff

\* The rounded distance to a count is within one of the distance to the rounded count.
LEMMA StoredDistance ==
    ASSUME NEW x \in Nat, NEW q \in Nat
    PROVE  AbsDiff(Stored(AbsDiff(Thousandths(x), q)), AbsDiff(x, Stored(q))) <= 1
BY DEF Stored, Thousandths, AbsDiff

-----------------------------------------------------------------------------
(* Types. *)

\* Administrative changes keep the catalogue well typed.
LEMMA CatalogTypeStep == CatalogTypeOK /\ [CatalogNext]_catalogVars => CatalogTypeOK'
<1> SUFFICES ASSUME CatalogTypeOK, [CatalogNext]_catalogVars
             PROVE  CatalogTypeOK'
    OBVIOUS
<1>1. CASE UNCHANGED catalogVars
    BY <1>1 DEF CatalogTypeOK, catalogVars
<1>2. CASE CatalogNext
    <2> adminSteps' \in 0..MaxAdminSteps
        BY <1>2, MaxAdminStepsAssumption
        DEF CatalogTypeOK, CatalogNext, AdminStep, SetProductActive,
            UpdateStockManagementType, CreateCost, CreatePrice, SetChannelActive,
            SetBankActive, SetTableActive
    <2>1. ASSUME NEW p \in Products, NEW active \in BOOLEAN, SetProductActive(p, active)
          PROVE  CatalogTypeOK'
        BY <2>1 DEF CatalogTypeOK, SetProductActive
    <2>2. ASSUME NEW p \in Products, NEW type \in StockTypes,
                 UpdateStockManagementType(p, type)
          PROVE  CatalogTypeOK'
        BY <2>2 DEF CatalogTypeOK, UpdateStockManagementType
    <2>3. ASSUME NEW p \in Products, CreateCost(p)
          PROVE  CatalogTypeOK'
        BY <2>3 DEF CatalogTypeOK, CreateCost
    <2>4. ASSUME NEW p \in Products, NEW ch \in Channels, NEW price \in Prices,
                 CreatePrice(p, ch, price)
          PROVE  CatalogTypeOK'
        BY <2>4 DEF CatalogTypeOK, CreatePrice
    <2>5. ASSUME NEW ch \in Channels, NEW active \in BOOLEAN, SetChannelActive(ch, active)
          PROVE  CatalogTypeOK'
        BY <2>5 DEF CatalogTypeOK, SetChannelActive
    <2>6. ASSUME NEW b \in Banks, NEW active \in BOOLEAN, SetBankActive(b, active)
          PROVE  CatalogTypeOK'
        BY <2>6 DEF CatalogTypeOK, SetBankActive
    <2>7. ASSUME NEW s \in Tables, NEW active \in BOOLEAN, SetTableActive(s, active)
          PROVE  CatalogTypeOK'
        BY <2>7 DEF CatalogTypeOK, SetTableActive
    <2>8. QED
        BY <1>2, <2>1, <2>2, <2>3, <2>4, <2>5, <2>6, <2>7 DEF CatalogNext
<1>3. QED
    BY <1>1, <1>2

-----------------------------------------------------------------------------
(* One step of the ledger. *)

\* A product is left alone, or one movement is appended that starts from its
\* stock, leaves its new stock, names the reference and accounts for the change.
LedgerStep(reference) ==
    /\ currentStock' \in [Products -> Nat]
    /\ movements' \in [Products -> Seq(Movement)]
    /\ \A p \in Products :
        \/ movements'[p] = movements[p] /\ currentStock'[p] = currentStock[p]
        \/ \E m \in Movement :
            /\ movements'[p] = Append(movements[p], m)
            /\ m.previousStock = currentStock[p]
            /\ m.newStock = currentStock'[p]
            /\ m.referenceId = reference
            /\ ExplainsWithinOneHundredth(m)

\* persistMovement makes a step of the ledger when what it is given accounts
\* for the change of stock.
LEMMA PersistIsLedgerStep ==
    ASSUME InventoryTypeOK,
           NEW moved \in SUBSET Products, NEW type \in MovementTypes,
           NEW quantity, NEW newStock, NEW reference \in Tickets \cup {None},
           \A p \in moved : quantity[p] \in Nat /\ newStock[p] \in Nat,
           \A p \in moved : ExplainsWithinOneHundredth(
               MovementOf(p, type, quantity[p], newStock[p], reference)),
           PersistMovements(moved, type, quantity, newStock, reference)
    PROVE  LedgerStep(reference)
<1> DEFINE row(p) == MovementOf(p, type, quantity[p], newStock[p], reference)
<1>1. ASSUME NEW p \in moved
      PROVE  /\ row(p) \in Movement
             /\ row(p).previousStock = currentStock[p]
             /\ row(p).newStock = Stored(newStock[p])
             /\ row(p).referenceId = reference
    BY <1>1, StoredNat DEF InventoryTypeOK, Movement, MovementOf
<1>2. \A p \in moved : ExplainsWithinOneHundredth(row(p))
    OBVIOUS
<1>3. ASSUME NEW p \in Products
      PROVE  /\ currentStock'[p] = IF p \in moved THEN Stored(newStock[p])
                                                 ELSE currentStock[p]
             /\ movements'[p] = IF p \in moved THEN Append(movements[p], row(p))
                                              ELSE movements[p]
    BY <1>3 DEF PersistMovements
<1> HIDE DEF row
<1>4. currentStock' \in [Products -> Nat]
    BY StoredNat DEF InventoryTypeOK, PersistMovements
<1>5. movements' \in [Products -> Seq(Movement)]
    <2>1. ASSUME NEW p \in Products
          PROVE  movements'[p] \in Seq(Movement)
        <3>1. movements[p] \in Seq(Movement)
            BY <2>1 DEF InventoryTypeOK
        <3>2. CASE p \in moved
            <4>1. PICK m \in Movement : m = row(p)
                BY <1>1, <3>2
            <4>2. movements'[p] = Append(movements[p], m)
                BY <1>3, <2>1, <3>2, <4>1
            <4>3. QED
                BY <3>1, <4>2
        <3>3. CASE p \notin moved
            BY <1>3, <2>1, <3>1, <3>3
        <3>4. QED
            BY <3>2, <3>3
    <2>2. movements' = [p \in Products |-> movements'[p]]
        BY DEF PersistMovements
    <2>3. QED
        BY <2>1, <2>2
<1>6. QED
    BY <1>1, <1>2, <1>3, <1>4, <1>5 DEF LedgerStep

\* applyMovement with 'add' is a step of the ledger.
LEMMA AddIsLedgerStep ==
    ASSUME InventoryTypeOK,
           NEW moved \in SUBSET Products, NEW type \in InTypes,
           NEW quantity, NEW reference \in Tickets \cup {None},
           \A p \in moved : quantity[p] \in Nat,
           AddMovements(moved, type, quantity, reference)
    PROVE  LedgerStep(reference)
<1> DEFINE newStock == [p \in moved |-> Thousandths(currentStock[p]) + quantity[p]]
<1>1. \A p \in moved : newStock[p] \in Nat
    BY DEF InventoryTypeOK, Thousandths
<1>2. ASSUME NEW p \in moved
      PROVE  ExplainsWithinOneHundredth(
                 MovementOf(p, type, quantity[p], newStock[p], reference))
    <2>1. Stored(newStock[p]) = currentStock[p] + Stored(quantity[p])
        BY <1>2, StoredSum DEF InventoryTypeOK
    <2>2. QED
        BY <2>1 DEF ExplainsWithinOneHundredth, MovementOf, InTypes
<1>3. PersistMovements(moved, type, quantity, newStock, reference)
    BY DEF AddMovements
<1>4. type \in MovementTypes
    BY DEF MovementTypes
<1> HIDE DEF newStock
<1>5. QED
    BY <1>1, <1>2, <1>3, <1>4, PersistIsLedgerStep

\* applyMovement with 'subtract' is one too: within one hundredth for waste,
\* exactly for sales, whose quantities were already stored.
LEMMA SubtractIsLedgerStep ==
    ASSUME InventoryTypeOK,
           NEW moved \in SUBSET Products, NEW type \in OutTypes,
           NEW quantity, NEW reference \in Tickets \cup {None},
           \A p \in moved : quantity[p] \in Nat,
           type = "SALE_OUT" => \A p \in moved : \E x \in Nat : quantity[p] = Thousandths(x),
           SubtractMovements(moved, type, quantity, reference)
    PROVE  LedgerStep(reference)
<1> DEFINE newStock == [p \in moved |-> Thousandths(currentStock[p]) - quantity[p]]
<1>1. \A p \in moved : newStock[p] \in Nat
    BY DEF InventoryTypeOK, Thousandths, SubtractMovements
<1>2. ASSUME NEW p \in moved
      PROVE  ExplainsWithinOneHundredth(
                 MovementOf(p, type, quantity[p], newStock[p], reference))
    <2>1. newStock[p] = Thousandths(currentStock[p]) - quantity[p]
        BY <1>2
    <2>2. currentStock[p] \in Nat
        BY <1>2 DEF InventoryTypeOK
    <2> HIDE DEF newStock
    <2>3. CASE type = "WASTE"
        <3>1. AbsDiff(currentStock[p], Stored(newStock[p]) + Stored(quantity[p])) <= 1
            BY <1>1, <1>2, <2>1, <2>2, StoredDifference
        <3>2. QED
            BY <2>3, <3>1 DEF ExplainsWithinOneHundredth, MovementOf, InTypes
    <2>4. CASE type = "SALE_OUT"
        <3>1. PICK x \in Nat : quantity[p] = Thousandths(x)
            BY <1>2, <2>4
        <3>2. newStock[p] = Thousandths(currentStock[p] - x) /\ x <= currentStock[p]
            BY <1>1, <1>2, <2>1, <2>2, <3>1 DEF Thousandths
        <3>3. Stored(newStock[p]) = currentStock[p] - x /\ Stored(quantity[p]) = x
            BY <2>2, <3>1, <3>2, StoredExact
        <3>4. QED
            BY <2>2, <2>4, <3>2, <3>3
            DEF ExplainsWithinOneHundredth, MovementOf, InTypes
    <2>5. QED
        BY <2>3, <2>4 DEF OutTypes
<1>3. PersistMovements(moved, type, quantity, newStock, reference)
    BY DEF SubtractMovements
<1>4. type \in MovementTypes
    BY DEF MovementTypes
<1> HIDE DEF newStock
<1>5. QED
    BY <1>1, <1>2, <1>3, <1>4, PersistIsLedgerStep

\* The rounding of a count is what manualAdjust accounts for.
LEMMA AdjustIsLedgerStep ==
    ASSUME InventoryTypeOK, NEW p \in Products, NEW target \in Nat,
           PersistMovements({p}, "MANUAL_ADJUSTMENT",
               [q \in {p} |-> AbsDiff(Thousandths(currentStock[p]), target)],
               [q \in {p} |-> target], None)
    PROVE  LedgerStep(None)
<1> DEFINE quantity == [q \in {p} |-> AbsDiff(Thousandths(currentStock[p]), target)]
           newStock == [q \in {p} |-> target]
<1>1. /\ quantity[p] = AbsDiff(Thousandths(currentStock[p]), target)
      /\ newStock[p] = target
      /\ currentStock[p] \in Nat
    BY DEF InventoryTypeOK
<1> HIDE DEF quantity, newStock
<1>2. quantity[p] \in Nat /\ newStock[p] \in Nat
    BY <1>1 DEF AbsDiff, Thousandths
<1>3. ExplainsWithinOneHundredth(
          MovementOf(p, "MANUAL_ADJUSTMENT", quantity[p], newStock[p], None))
    <2>1. AbsDiff(Stored(quantity[p]), AbsDiff(currentStock[p], Stored(newStock[p]))) <= 1
        BY <1>1, StoredDistance
    <2>2. QED
        BY <2>1 DEF ExplainsWithinOneHundredth, MovementOf, InTypes
<1>4. PersistMovements({p}, "MANUAL_ADJUSTMENT", quantity, newStock, None)
    BY DEF quantity, newStock
<1>5. "MANUAL_ADJUSTMENT" \in MovementTypes
    BY DEF MovementTypes
<1>6. QED
    BY <1>2, <1>3, <1>4, <1>5, PersistIsLedgerStep

\* So every step of a clerk is a step of the ledger, and keeps the types.
LEMMA ClerkStep ==
    ASSUME InventoryTypeOK, InventoryNext
    PROVE  InventoryTypeOK' /\ LedgerStep(None)
<1> DEFINE Same == UNCHANGED <<currentStock, movements>>
<1>1. Same => LedgerStep(None)
    BY DEF InventoryTypeOK, LedgerStep
<1>2. PICK c \in Clerks :
        \/ \E p \in Products : FindProductForMovement(c, p) \/ FindProductForRead(c, p)
        \/ \E input \in Inputs :
            StockIn(c, input) \/ ReturnIn(c, input) \/ RegisterWaste(c, input)
        \/ \E target \in Inputs \cup {0} : ManualAdjust(c, target)
        \/ \E minimum \in Inputs \cup {0} : UpdateMinimumStock(c, minimum)
        \/ RequestFails(c)
    BY DEF InventoryNext
<1>3. request[c].kind # "idle" => request[c].product \in Products
    BY DEF InventoryTypeOK, Request, Idle
<1>4. EndRequest(c) => request' \in [Clerks -> Request]
    BY DEF InventoryTypeOK, EndRequest, Request
<1>5. Inputs \subseteq Nat
    BY InputsAssumption
<1>6. LedgerStep(None) /\ minimumStock' \in [Products -> Nat]
        /\ request' \in [Clerks -> Request] => InventoryTypeOK'
    BY DEF LedgerStep, InventoryTypeOK
<1>7. ASSUME NEW p \in Products, FindProductForMovement(c, p) \/ FindProductForRead(c, p)
      PROVE  InventoryTypeOK' /\ LedgerStep(None)
    <2>1. Same /\ minimumStock' = minimumStock /\ request' \in [Clerks -> Request]
        BY <1>7 DEF InventoryTypeOK, FindProductForMovement, FindProductForRead, Request
    <2>2. QED
        BY <1>1, <1>6, <2>1 DEF InventoryTypeOK
<1>8. ASSUME NEW input \in Inputs,
             StockIn(c, input) \/ ReturnIn(c, input) \/ RegisterWaste(c, input)
      PROVE  InventoryTypeOK' /\ LedgerStep(None)
    <2> DEFINE moved == {request[c].product}
               quantity == [p \in Products |-> input]
    <2>1. moved \in SUBSET Products /\ \A p \in moved : quantity[p] \in Nat
        BY <1>3, <1>5, <1>8 DEF StockIn, ReturnIn, RegisterWaste
    <2>2. \/ AddMovements(moved, "STOCK_IN", quantity, None)
          \/ AddMovements(moved, "RETURN_IN", quantity, None)
          \/ SubtractMovements(moved, "WASTE", quantity, None)
        BY <1>8 DEF StockIn, ReturnIn, RegisterWaste
    <2> HIDE DEF moved, quantity
    <2>3. LedgerStep(None)
        BY <2>1, <2>2, AddIsLedgerStep, SubtractIsLedgerStep DEF InTypes, OutTypes
    <2>4. minimumStock' = minimumStock /\ request' \in [Clerks -> Request]
        BY <1>4, <1>8 DEF StockIn, ReturnIn, RegisterWaste
    <2>5. QED
        BY <1>6, <2>3, <2>4 DEF InventoryTypeOK
<1>9. ASSUME NEW target \in Inputs \cup {0}, ManualAdjust(c, target)
      PROVE  InventoryTypeOK' /\ LedgerStep(None)
    <2>1. request[c].product \in Products /\ target \in Nat
        BY <1>3, <1>5, <1>9 DEF ManualAdjust
    <2>2. LedgerStep(None)
        BY <1>9, <2>1, AdjustIsLedgerStep DEF ManualAdjust
    <2>3. minimumStock' = minimumStock /\ request' \in [Clerks -> Request]
        BY <1>4, <1>9 DEF ManualAdjust
    <2>4. QED
        BY <1>6, <2>2, <2>3 DEF InventoryTypeOK
<1>10. ASSUME NEW minimum \in Inputs \cup {0}, UpdateMinimumStock(c, minimum)
      PROVE  InventoryTypeOK' /\ LedgerStep(None)
    <2>1. minimumStock' \in [Products -> Nat]
        BY <1>5, <1>10, StoredNat DEF InventoryTypeOK, UpdateMinimumStock
    <2>2. Same /\ request' \in [Clerks -> Request]
        BY <1>4, <1>10 DEF UpdateMinimumStock
    <2>3. QED
        BY <1>1, <1>6, <2>1, <2>2
<1>11. ASSUME RequestFails(c)
      PROVE  InventoryTypeOK' /\ LedgerStep(None)
    <2>1. Same /\ minimumStock' = minimumStock /\ request' \in [Clerks -> Request]
        BY <1>4, <1>11 DEF RequestFails
    <2>2. QED
        BY <1>1, <1>6, <2>1 DEF InventoryTypeOK
<1>12. QED
    BY <1>2, <1>7, <1>8, <1>9, <1>10, <1>11

-----------------------------------------------------------------------------
(* What a step of the ledger preserves. *)

\* The chain of movements is extended at its end.
LEMMA ChainStep ==
    ASSUME InventoryTypeOK, LedgerReconstructsStock,
           NEW reference, LedgerStep(reference)
    PROVE  LedgerReconstructsStock'
<1> SUFFICES ASSUME NEW p \in Products
             PROVE  ChainFrom(movements'[p], currentStock'[p])
    BY DEF LedgerReconstructsStock
<1>1. ChainFrom(movements[p], currentStock[p]) /\ movements[p] \in Seq(Movement)
    BY DEF LedgerReconstructsStock, InventoryTypeOK
<1>2. CASE movements'[p] = movements[p] /\ currentStock'[p] = currentStock[p]
    BY <1>1, <1>2
<1>3. ASSUME NEW m \in Movement,
             movements'[p] = Append(movements[p], m),
             m.previousStock = currentStock[p], m.newStock = currentStock'[p]
      PROVE  ChainFrom(movements'[p], currentStock'[p])
    <2> DEFINE old == movements[p]
               new == movements'[p]
    <2>1. /\ Len(new) = Len(old) + 1
          /\ new # <<>>
          /\ new[Len(new)] = m
          /\ \A i \in DOMAIN old : new[i] = old[i]
          /\ \A i \in DOMAIN new : i \in DOMAIN old \/ i = Len(old) + 1
          /\ \A i \in DOMAIN old : i \in 1..Len(old)
          /\ Len(old) \in Nat
          /\ old = <<>> <=> Len(old) = 0
          /\ DOMAIN old = 1..Len(old)
        BY <1>1, <1>3
    <2>2. /\ currentStock[p] = IF old = <<>> THEN 0 ELSE old[Len(old)].newStock
          /\ \A i \in DOMAIN old :
                old[i].previousStock = IF i = 1 THEN 0 ELSE old[i - 1].newStock
        BY <1>1 DEF ChainFrom
    <2> HIDE DEF old, new
    <2>3. currentStock'[p] = new[Len(new)].newStock
        BY <1>3, <2>1
    <2>4. ASSUME NEW i \in DOMAIN new
          PROVE  new[i].previousStock = IF i = 1 THEN 0 ELSE new[i - 1].newStock
        <3>1. CASE i \in DOMAIN old
            <4>1. i # 1 => i - 1 \in DOMAIN old
                BY <2>1, <3>1
            <4>2. QED
                BY <2>1, <2>2, <3>1, <4>1
        <3>2. CASE i = Len(old) + 1
            <4>1. new[i] = m
                BY <2>1, <3>2
            <4>2. CASE Len(old) = 0
                BY <1>3, <2>1, <2>2, <3>2, <4>1, <4>2
            <4>3. CASE Len(old) > 0
                <5>1. Len(old) \in DOMAIN old /\ i - 1 = Len(old) /\ i # 1
                    BY <2>1, <3>2, <4>3
                <5>2. QED
                    BY <1>3, <2>1, <2>2, <4>1, <4>3, <5>1
            <4>4. QED
                BY <2>1, <4>2, <4>3
        <3>3. QED
            BY <2>1, <2>4, <3>1, <3>2
    <2>5. QED
        BY <2>1, <2>3, <2>4 DEF ChainFrom, old, new
<1>4. QED
    BY <1>2, <1>3 DEF LedgerStep

\* A new movement accounts for its change; the others are not rewritten.
LEMMA DriftStep ==
    ASSUME InventoryTypeOK, DriftIsBounded,
           NEW reference, LedgerStep(reference)
    PROVE  DriftIsBounded'
<1> SUFFICES ASSUME NEW p \in Products, NEW i \in DOMAIN movements'[p]
             PROVE  ExplainsWithinOneHundredth(movements'[p][i])
    BY DEF DriftIsBounded
<1>1. movements[p] \in Seq(Movement)
    BY DEF InventoryTypeOK
<1>2. \A j \in DOMAIN movements[p] : ExplainsWithinOneHundredth(movements[p][j])
    BY DEF DriftIsBounded
<1>3. CASE movements'[p] = movements[p]
    BY <1>2, <1>3
<1>4. ASSUME NEW m \in Movement,
             movements'[p] = Append(movements[p], m), ExplainsWithinOneHundredth(m)
      PROVE  ExplainsWithinOneHundredth(movements'[p][i])
    <2>1. i = Len(movements[p]) + 1 \/ i \in DOMAIN movements[p]
        BY <1>1, <1>4
    <2>2. movements'[p][i] = IF i = Len(movements[p]) + 1 THEN m ELSE movements[p][i]
        BY <1>1, <1>4
    <2>3. QED
        BY <1>2, <1>4, <2>1, <2>2
<1>5. QED
    BY <1>3, <1>4 DEF LedgerStep

\* A product's ledger is left alone or one movement longer.
LEMMA GrowthStep ==
    ASSUME InventoryTypeOK, NEW reference, LedgerStep(reference), NEW p \in Products
    PROVE  \/ movements'[p] = movements[p] /\ currentStock'[p] = currentStock[p]
           \/ /\ Len(movements'[p]) = Len(movements[p]) + 1
              /\ \A i \in DOMAIN movements[p] : movements'[p][i] = movements[p][i]
<1>1. movements[p] \in Seq(Movement)
    BY DEF InventoryTypeOK
<1>2. CASE movements'[p] = movements[p] /\ currentStock'[p] = currentStock[p]
    BY <1>2
<1>3. ASSUME NEW m \in Movement, movements'[p] = Append(movements[p], m)
      PROVE  /\ Len(movements'[p]) = Len(movements[p]) + 1
             /\ \A i \in DOMAIN movements[p] : movements'[p][i] = movements[p][i]
    BY <1>1, <1>3
<1>4. QED
    BY <1>2, <1>3 DEF LedgerStep

-----------------------------------------------------------------------------
(* The theorems of the component. *)

LedgerInv == StockTypeOK /\ LedgerReconstructsStock /\ DriftIsBounded

\* An empty stock satisfies the invariant.
LEMMA LedgerInvInit == CatalogInit /\ InventoryInit => LedgerInv
<1> SUFFICES ASSUME CatalogInit, InventoryInit
             PROVE  LedgerInv
    OBVIOUS
<1>1. CatalogTypeOK
    BY MaxAdminStepsAssumption, FirstPricesAssumption DEF CatalogInit, CatalogTypeOK
<1>2. InventoryTypeOK
    BY DEF InventoryInit, InventoryTypeOK, Request
<1>3. LedgerReconstructsStock /\ DriftIsBounded
    BY DEF InventoryInit, LedgerReconstructsStock, ChainFrom, DriftIsBounded
<1>4. QED
    BY <1>1, <1>2, <1>3 DEF LedgerInv, StockTypeOK

\* Every step preserves it and is a step of the ledger.
LEMMA LedgerInvStep ==
    ASSUME LedgerInv,
           [StockNext]_stockVars
    PROVE  LedgerInv' /\ LedgerStep(None)
<1>1. CASE InventoryNext /\ UNCHANGED catalogVars
    <2>1. CatalogTypeOK'
        BY <1>1 DEF LedgerInv, StockTypeOK, CatalogTypeOK, catalogVars
    <2>2. QED
        BY <1>1, <2>1, ClerkStep, ChainStep, DriftStep DEF LedgerInv, StockTypeOK
<1>2. CASE [CatalogNext]_catalogVars /\ UNCHANGED inventoryVars
    <2>1. CatalogTypeOK'
        BY <1>2, CatalogTypeStep DEF LedgerInv, StockTypeOK
    <2>2. InventoryTypeOK' /\ LedgerStep(None)
        BY <1>2 DEF LedgerInv, StockTypeOK, InventoryTypeOK, LedgerStep, inventoryVars
    <2>3. QED
        BY <2>1, <2>2, ChainStep, DriftStep DEF LedgerInv, StockTypeOK
<1>3. QED
    BY <1>1, <1>2 DEF stockVars, StockNext

\* The invariant holds always.
LEMMA LedgerInvariant == InventorySpec => []LedgerInv
<1>1. StockInit => LedgerInv
    BY LedgerInvInit DEF StockInit
<1>2. LedgerInv /\ [StockNext]_stockVars => LedgerInv'
    BY LedgerInvStep
<1>3. QED
    BY <1>1, <1>2, PTL DEF InventorySpec

\* Whatever the requests and the administration do, a stock is never negative
\* and a movement is of a known type (InventoryService).
THEOREM StockTypeCorrect == InventorySpec => []StockTypeOK
BY LedgerInvariant, PTL DEF LedgerInv

\* The movements of a product are one chain from an empty stock to the current
\* one, although the requests run at the same time (persistMovement).
THEOREM LedgerCorrect == InventorySpec => []LedgerReconstructsStock
BY LedgerInvariant, PTL DEF LedgerInv

\* A movement accounts for its change of stock to within the rounding of its
\* inputs (persistMovement, manualAdjust).
THEOREM DriftCorrect == InventorySpec => []DriftIsBounded
BY LedgerInvariant, PTL DEF LedgerInv

\* Stock never changes without a movement, and the ledger is append-only.
THEOREM LedgerAppendOnly == InventorySpec => LedgerOnlyGrows
<1>1. StockInit => LedgerInv
    BY LedgerInvInit DEF StockInit
<1>2. LedgerInv /\ [StockNext]_stockVars => LedgerInv'
    BY LedgerInvStep
<1>3. LedgerInv /\ [StockNext]_stockVars
      => [\A p \in Products :
            \/ movements'[p] = movements[p] /\ currentStock'[p] = currentStock[p]
            \/ /\ Len(movements'[p]) = Len(movements[p]) + 1
               /\ \A i \in DOMAIN movements[p] : movements'[p][i] = movements[p][i]
         ]_stockVars
    BY LedgerInvStep, GrowthStep DEF LedgerInv, StockTypeOK
<1>4. QED
    BY <1>1, <1>2, <1>3, PTL DEF InventorySpec, LedgerOnlyGrows
==============================================================================
