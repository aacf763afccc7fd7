------------------------------ MODULE Directory ------------------------------
(***************************************************************************)
(* The rows administrators keep: users, categories, sales channels,        *)
(* payment banks, restaurant tables and products, the history of a         *)
(* product's costs and prices, and the audit row that each write leaves;   *)
(* and prisma/seed.ts, which fills the tables, and is run again on tables  *)
(* that are in use.                                                        *)
(*                                                                         *)
(* A row is its unique field (email, name, code or SKU: `name`), its       *)
(* active flag and its `detail`: the role of a user, the category of a     *)
(* product, the commission type of a channel.  No row is ever deleted.     *)
(*                                                                         *)
(* Here are the committed effects of the services; Administration has the  *)
(* requests that lead to them.                                             *)
(***************************************************************************)
EXTENDS Naturals, Sequences, Permissions

CONSTANTS
    Users, Categories, Channels, Banks, Tables, Products,   \* ids of rows, by table
    Names,          \* values of the unique fields
    Empty,          \* the empty string, which the DTOs accept as a SKU
    SeedNames,      \* those the seed gives to rows other than users
    DemoRoles,      \* bound: roles of the seed's demo user
    SeedCommissions,\* commission types of the seed's channels
    None,           \* null, or a row that does not exist
    Undefined,      \* a field that a request does not give
    MaxInstant      \* bound: readings of the clock that differ

Ids == Users \cup Categories \cup Channels \cup Banks \cup Tables \cup Products
TableNames == {Users, Categories, Channels, Banks, Tables, Products}
TableOf(id) == CHOOSE T \in TableNames : id \in T

ASSUME IdsAreDisjoint ==
    /\ Users \cap (Categories \cup Channels \cup Banks \cup Tables \cup Products) = {}
    /\ Categories \cap (Channels \cup Banks \cup Tables \cup Products) = {}
    /\ Channels \cap (Banks \cup Tables \cup Products) = {}
    /\ Banks \cap (Tables \cup Products) = {}
    /\ Tables \cap Products = {}
CommissionTypes == {"NONE", "PERCENTAGE"}

ASSUME SeedNamesAssumption == SeedNames \subseteq Names
ASSUME SeedCommissionsAssumption == SeedCommissions \subseteq CommissionTypes
ASSUME EmptyIsAName == Empty \in Names
ASSUME DemoRolesAssumption == DemoRoles \subseteq Roles \ {"ADMIN"}
ASSUME NoneIsNoValue == None \notin Names \cup Ids \cup Roles \cup CommissionTypes \cup Nat
ASSUME UndefinedIsNoValue == Undefined \notin Names \cup Ids \cup Roles \cup CommissionTypes \cup {None}
ASSUME MaxInstantAssumption == MaxInstant \in Nat

VARIABLES
    row,          \* the rows, by id
    audit,        \* afterData of the last audit row of an id, None before the first
    history,      \* a product's costs (None) and its prices by channel, oldest first
    instant,      \* the last reading of the clock
    opening,      \* opening stocks booked for a product by the seed
    seed,         \* what the seed does next, and the product it does it for
    synchronised, \* history: users the seed has written since their last audit row
    appointed     \* history: since the seed last wrote its administrator, nothing
                  \* has taken the role of an active one

directoryVars ==
    <<row, audit, history, instant, opening, seed, synchronised, appointed>>

Row == [name: Names \cup {None}, active: BOOLEAN,
        detail: Roles \cup Categories \cup CommissionTypes \cup {None}]
ASSUME NoneIsNoRow == None \notin Row

Lists == Products \X (Channels \cup {None})
Validity == [from: Nat, to: Nat \cup {None}]
SeedSteps == {"admin", "demo users", "categories", "channels", "banks", "tables",
              "product", "cost", "prices", "stock", "done", "off"}

DirectoryTypeOK ==
    /\ row \in [Ids -> Row \cup {None}]
    /\ \A u \in Users : row[u] # None => row[u].name \in Names /\ row[u].detail \in Roles
    /\ audit \in [Ids -> Row \cup {None}]
    /\ history \in [Lists -> Seq(Validity)]
    /\ instant \in Nat
    /\ opening \in [Products -> Nat]
    /\ seed \in [step: SeedSteps, product: Products \cup {None}]
    /\ synchronised \in SUBSET Users
    /\ appointed \in BOOLEAN

DirectoryInit ==
    /\ row = [id \in Ids |-> None]
    /\ audit = [id \in Ids |-> None]
    /\ history = [l \in Lists |-> <<>>]
    /\ instant = 0
    /\ opening = [p \in Products |-> 0]
    /\ seed = [step |-> "off", product |-> None]
    /\ synchronised = {}
    /\ appointed = FALSE

Exists(id) == row[id] # None
IsActive(id) == Exists(id) /\ row[id].active
ActiveAdmins == {u \in Users : IsActive(u) /\ row[u].detail = "ADMIN"}

\* findUnique of a table by its unique field: the other rows that have it.
Holders(T, name) == {id \in T : Exists(id) /\ row[id].name = name}

\* Faulty: no unique index on the field.
UniqueIndexMissing(id, name) == TRUE

\* The @unique fields of schema.prisma, at the write; nulls do not collide.
UniqueIndexAllows(id, name) ==
    name \in Names => Holders(TableOf(id), name) \subseteq {id}

-----------------------------------------------------------------------------
(* The transactions of the services: the row and its audit row together. *)

\* AuditService.log in the caller's transaction: the audit row tells the row
\* as it was written.
Write(id, new) ==
    /\ row' = [row EXCEPT ![id] = new]
    /\ audit' = [audit EXCEPT ![id] = new]
    /\ synchronised' = synchronised \ {id}
    /\ UNCHANGED <<history, instant, opening, seed>>

\* value ?? null
OrNull(value) == IF value = Undefined THEN None ELSE value

\* A create; the commission of a channel is not taken from the request.
NewRow(id, given) ==
    [name   |-> OrNull(given.name),
     active |-> TRUE,
     detail |-> IF id \in Channels THEN "NONE" ELSE OrNull(given.detail)]

\* A patch: the fields it does not give stay as they are, a null clears its
\* field, and the commission of a channel is reset by every patch.
Patch(id, old, given) ==
    [name   |-> IF given.name = Undefined THEN old.name ELSE given.name,
     active |-> old.active,
     detail |-> IF id \in Channels THEN "NONE"
                ELSE IF given.detail = Undefined THEN old.detail ELSE given.detail]

Insert(id, given) ==
    /\ row[id] = None
    /\ UniqueIndexAllows(id, given.name)
    /\ Write(id, NewRow(id, given))
    /\ UNCHANGED appointed

\* No active administrator loses the role, or the flag.
AdministratorsStay == ActiveAdmins \subseteq ActiveAdmins'

\* Faulty: the row read before is saved back with the patch.
ModifySavingBack(id, given, before) ==
    /\ UniqueIndexAllows(id, given.name)
    /\ Write(id, Patch(id, before, given))
    /\ appointed' = (appointed /\ AdministratorsStay)

\* Faulty: the audit row is made of the row read before and the patch.
ModifyAuditingRequest(id, given, before) ==
    /\ UniqueIndexAllows(id, given.name)
    /\ row' = [row EXCEPT ![id] = Patch(id, @, given)]
    /\ audit' = [audit EXCEPT ![id] = Patch(id, before, given)]
    /\ synchronised' = synchronised \ {id}
    /\ appointed' = (appointed /\ AdministratorsStay)
    /\ UNCHANGED <<history, instant, opening, seed>>

\* The update of a row by the given fields; the row read before the
\* transaction only goes to the audit row's beforeData.
Modify(id, given, before) ==
    /\ UniqueIndexAllows(id, given.name)
    /\ Write(id, Patch(id, row[id], given))
    /\ appointed' = (appointed /\ AdministratorsStay)

SetActive(id, active) ==
    /\ Write(id, [row[id] EXCEPT !.active = active])
    /\ UNCHANGED appointed

IsCurrent(validity) == validity.to = None

\* The current row is closed at `to`, if there is one.
CloseCurrent(list, to) ==
    [i \in DOMAIN history[list] |->
        IF IsCurrent(history[list][i]) THEN [history[list][i] EXCEPT !.to = to]
                                       ELSE history[list][i]]

\* Faulty: the new row takes an instant of its own.
ReplaceCurrentLater(list, now) ==
    /\ history' = [history EXCEPT ![list] =
            Append(CloseCurrent(list, now), [from |-> instant, to |-> None])]
    /\ UNCHANGED <<row, audit, instant, opening, seed, synchronised, appointed>>

\* A new price or cost: the instant that closes the old one opens the new one.
ReplaceCurrent(list, now) ==
    /\ history' = [history EXCEPT ![list] =
            Append(CloseCurrent(list, now), [from |-> now, to |-> None])]
    /\ UNCHANGED <<row, audit, instant, opening, seed, synchronised, appointed>>

\* new Date(): time may pass, or not.
ReadClock ==
    /\ instant' \in {instant, instant + 1}
    /\ instant' <= MaxInstant   \* bound

-----------------------------------------------------------------------------
(* prisma/seed.ts, one ensure at a time: no transactions, no audit rows.     *)

SeedIsRunning == seed.step \notin {"off", "done"}

SeedGoesTo(step) == seed' = [seed EXCEPT !.step = step]

SeedWrites(id, new) == row' = [row EXCEPT ![id] = new]
SeedRow(name, detail) == [name |-> name, active |-> TRUE, detail |-> detail]

\* The id of a new row: none is better than another, so one is tried.
IsNextId(id, T) == row[id] = None /\ id = CHOOSE free \in T : row[free] = None

\* ensureUser: found by email and synchronised, or created.
EnsureUser(email, role) ==
    /\ \/ \E u \in Holders(Users, email) :
            /\ SeedWrites(u, SeedRow(email, role))
            /\ synchronised' = synchronised \cup {v \in {u} : audit[v] # None}
       \/ \E u \in Users :
            /\ Holders(Users, email) = {}
            /\ row[u] = None
            /\ SeedWrites(u, SeedRow(email, role))
            /\ UNCHANGED synchronised
    /\ UNCHANGED <<audit, history, instant, opening>>

SeedAdmin(email) ==
    /\ seed.step = "admin"
    /\ EnsureUser(email, "ADMIN")
    /\ SeedGoesTo("demo users")
    /\ appointed' = TRUE

\* The demo user of a role is optional; its email may be anybody's.
SeedDemoUser(email, role) ==
    /\ seed.step = "demo users"
    /\ EnsureUser(email, role)
    /\ appointed' = (appointed /\ AdministratorsStay)
    /\ UNCHANGED seed

\* The roles that are left are not configured.
EndDemoUsers ==
    /\ seed.step = "demo users"
    /\ SeedGoesTo("categories")
    /\ UNCHANGED <<row, audit, history, instant, opening, synchronised, appointed>>

\* findFirst by either of two fields, of which a row has one here: a row that
\* the seed did not name may have the other.
FoundByEither(T, name) ==
    Holders(T, name) \cup {id \in T : Exists(id) /\ row[id].name \notin SeedNames}

\* The names of the list for which the lookup finds a row.
Found(T) == {name \in SeedNames : Holders(T, name) # {}}
FoundChannels == {name \in SeedNames : FoundByEither(Channels, name) # {}}

\* One missing row of the list at a time; then the next list.
EnsureRows(T, step, next, found, details) ==
    /\ seed.step = step
    /\ \/ \E name \in SeedNames, id \in T, detail \in details :
            /\ Holders(T, name) = {}
            /\ IsNextId(id, T)
            /\ SeedWrites(id, SeedRow(name, detail))
            /\ UNCHANGED seed
       \/ /\ SeedNames \subseteq found
          /\ SeedGoesTo(next)
          /\ UNCHANGED row
    /\ UNCHANGED <<audit, history, instant, opening, synchronised, appointed>>

EnsureCategories ==
    EnsureRows(Categories, "categories", "channels", Found(Categories), {None})
EnsureSalesChannels ==
    EnsureRows(Channels, "channels", "banks", FoundChannels, SeedCommissions)
EnsurePaymentBanks ==
    EnsureRows(Banks, "banks", "tables", Found(Banks), {None})
EnsureRestaurantTables ==
    EnsureRows(Tables, "tables", "product", Found(Tables), {None})

\* ensureDemoProduct, in a category of the list; one demo product.
EnsureDemoProduct ==
    /\ seed.step = "product"
    /\ \E name \in SeedNames, p \in Products :
        /\ \/ /\ p \in FoundByEither(Products, name)
              /\ UNCHANGED row
           \/ \E category \in SeedNames : \E cat \in Holders(Categories, category) :
              /\ Holders(Products, name) = {}
              /\ IsNextId(p, Products)
              /\ SeedWrites(p, SeedRow(name, cat))
        /\ seed' = [step |-> "cost", product |-> p]
    /\ UNCHANGED <<audit, history, instant, opening, synchronised, appointed>>

HasCurrent(list) == \E i \in DOMAIN history[list] : IsCurrent(history[list][i])

\* A new current row of a list that has none.
SeedAppends(list) ==
    history' = [history EXCEPT ![list] = Append(@, [from |-> instant, to |-> None])]

\* ensureCurrentCost: nothing if there is a current one.
EnsureCurrentCost ==
    /\ seed.step = "cost"
    /\ IF HasCurrent(<<seed.product, None>>)
       THEN UNCHANGED history
       ELSE SeedAppends(<<seed.product, None>>)
    /\ SeedGoesTo("prices")
    /\ UNCHANGED <<row, audit, instant, opening, synchronised, appointed>>

\* The channels of the list, by code; a code that is not found has no price.
SeedChannels == {ch \in Channels : Exists(ch) /\ row[ch].name \in SeedNames}

\* ensureCurrentPrice: one missing price at a time; then the stock.
EnsureCurrentPrice ==
    /\ seed.step = "prices"
    /\ \/ \E ch \in SeedChannels :
            /\ ~HasCurrent(<<seed.product, ch>>)
            /\ SeedAppends(<<seed.product, ch>>)
            /\ UNCHANGED seed
       \/ /\ \A ch \in SeedChannels : HasCurrent(<<seed.product, ch>>)
          /\ SeedGoesTo("stock")
          /\ UNCHANGED history
    /\ UNCHANGED <<row, audit, instant, opening, synchronised, appointed>>

\* Faulty: the opening stock is booked on every run.
EnsureInitialStockAgain ==
    /\ seed.step = "stock"
    /\ SeedGoesTo("done")
    /\ opening' = [opening EXCEPT ![seed.product] = @ + 1]
    /\ UNCHANGED <<row, audit, history, instant, synchronised, appointed>>

\* ensureInitialStock: the stock row and its movement in one batch, unless
\* the product has either.
EnsureInitialStock ==
    /\ seed.step = "stock"
    /\ SeedGoesTo("done")
    /\ opening' = [opening EXCEPT ![seed.product] = IF @ = 0 THEN 1 ELSE @]
    /\ UNCHANGED <<row, audit, history, instant, synchronised, appointed>>

\* The script is started, again or for the first time, or dies anywhere.
StartSeed ==
    /\ ~SeedIsRunning
    /\ seed' = [step |-> "admin", product |-> None]
    /\ UNCHANGED <<row, audit, history, instant, opening, synchronised, appointed>>

SeedDies ==
    /\ SeedIsRunning
    /\ seed' = [step |-> "off", product |-> None]
    /\ UNCHANGED <<row, audit, history, instant, opening, synchronised, appointed>>

SeedNext ==
    \/ StartSeed
    \/ \E email \in Names \ {Empty} : SeedAdmin(email)
    \/ \E email \in Names \ {Empty}, role \in DemoRoles : SeedDemoUser(email, role)
    \/ EndDemoUsers
    \/ EnsureCategories \/ EnsureSalesChannels
    \/ EnsurePaymentBanks \/ EnsureRestaurantTables
    \/ EnsureDemoProduct \/ EnsureCurrentCost \/ EnsureCurrentPrice
    \/ EnsureInitialStock
    \/ SeedDies

-----------------------------------------------------------------------------
\* Two rows of a table never share their email, name, code or SKU, although
\* the services look for a duplicate outside of the transaction.
KeysAreUnique ==
    \A T \in TableNames : \A id1, id2 \in T :
        /\ Exists(id1) /\ Exists(id2) /\ id1 # id2
        => row[id1].name # row[id2].name \/ row[id1].name = None

\* The last audit row of an id tells the row as it is: no committed change of a
\* request, however it interleaves with others, is missing from the trail or
\* told wrong.  Only what the seed writes is not in the trail: the role and the
\* active flag of a user that it finds, never anything else.
AuditTellsCurrentRow ==
    \A id \in Ids : audit[id] # None =>
        /\ row[id].name = audit[id].name
        /\ id \notin synchronised => row[id] = audit[id]

\* A product's costs, and its prices on a channel, follow one another with no
\* gap: each row ends where the next begins, and the last one has no end.
HistoryIsContiguous ==
    \A l \in Lists : \A i \in DOMAIN history[l] :
        history[l][i].to = IF i = Len(history[l]) THEN None ELSE history[l][i + 1].from
==============================================================================
