------------------------------ MODULE SumProofs -------------------------------
(***************************************************************************)
(* Sums over a finite set of indices, as SumFunction of the community      *)
(* modules defines them: by a recursion that takes a chosen index out of   *)
(* the set.  The facts the sales need are proved by taking a smallest      *)
(* subset for which they fail: the total of a ticket is of a fixed set of  *)
(* products, a report groups tickets by channel, and a table of tickets    *)
(* and products is added by rows or by columns.                            *)
(***************************************************************************)
EXTENDS Functions, FiniteSets, FiniteSetTheorems, WellFoundedInduction, TLAPS

\* The index that the recursion takes out of a set.
Chosen(s) == CHOOSE x \in s : TRUE

\* g is the recursive function of a sum of f over subsets of S.
Adds(g, f, S) ==
    g = [s \in SUBSET S |-> IF s = {} THEN 0
                            ELSE f[Chosen(s)] + g[s \ {Chosen(s)}]]

\* The sum is the value of that recursive function at the whole set.
LEMMA SumUnfolded ==
    ASSUME NEW f, NEW S
    PROVE  SumFunctionOnSet(f, S) = (CHOOSE g : Adds(g, f, S))[S]
BY Zenon DEF SumFunctionOnSet, FoldFunctionOnSet, MapThenFoldSet, Adds, Chosen

\* A set of subsets of a finite set has one with no other of them inside it.
LEMMA LeastSubset ==
    ASSUME NEW S, IsFiniteSet(S), NEW B \in SUBSET (SUBSET S), B # {}
    PROVE  \E T \in B : \A U \in B : U \subseteq T => U = T
<1>1. B \subseteq FiniteSubsetsOf(S)
    BY FS_FiniteSubsetsOfFinite
<1>2. IsWellFoundedOn(StrictSubsetOrdering(S), FiniteSubsetsOf(S))
    BY FS_StrictSubsetOrderingWellFounded
<1>3. PICK T \in B : \A U \in B : ~(<<U, T>> \in StrictSubsetOrdering(S))
    BY <1>1, <1>2, WFMin
<1>4. QED
    BY <1>3 DEF StrictSubsetOrdering

\* The chosen index is in the set.
LEMMA ChosenIn == ASSUME NEW s, s # {} PROVE Chosen(s) \in s
BY DEF Chosen

-----------------------------------------------------------------------------
(* The recursion defines one function. *)

\* A step of the recursion.
LEMMA AddsStep ==
    ASSUME NEW g, NEW f, NEW S, Adds(g, f, S), NEW s \in SUBSET S
    PROVE  g[s] = IF s = {} THEN 0 ELSE f[Chosen(s)] + g[s \ {Chosen(s)}]
<1> DEFINE h == [t \in SUBSET S |-> IF t = {} THEN 0
                                    ELSE f[Chosen(t)] + g[t \ {Chosen(t)}]]
<1>1. h[s] = IF s = {} THEN 0 ELSE f[Chosen(s)] + g[s \ {Chosen(s)}]
    OBVIOUS
<1>2. g = h
    BY Zenon DEF Adds
<1> HIDE DEF h
<1>3. QED
    BY <1>1, <1>2

\* Two recursive sums agree where both are defined.
LEMMA AddsUnique ==
    ASSUME NEW f, NEW S, NEW T, IsFiniteSet(S), NEW U \in SUBSET S, U \subseteq T,
           NEW g, NEW h, Adds(g, f, S), Adds(h, f, T)
    PROVE  g[U] = h[U]
<1> DEFINE Bad == {s \in SUBSET U : g[s] # h[s]}
<1> SUFFICES ASSUME Bad # {} PROVE FALSE
    OBVIOUS
<1>1. PICK s \in Bad : \A u \in Bad : u \subseteq s => u = s
    <2>1. Bad \in SUBSET (SUBSET U) /\ IsFiniteSet(U)
        BY FS_Subset
    <2> HIDE DEF Bad
    <2>2. QED
        BY <2>1, LeastSubset
<1>2. /\ g[s] = IF s = {} THEN 0 ELSE f[Chosen(s)] + g[s \ {Chosen(s)}]
      /\ h[s] = IF s = {} THEN 0 ELSE f[Chosen(s)] + h[s \ {Chosen(s)}]
    <2>1. s \in SUBSET S /\ s \in SUBSET T
        OBVIOUS
    <2> HIDE DEF Bad
    <2>2. QED
        BY <2>1, AddsStep
<1>3. s # {} /\ g[s] # h[s]
    BY <1>2
<1>4. s \ {Chosen(s)} \notin Bad
    BY <1>1, <1>3, ChosenIn
<1>5. g[s \ {Chosen(s)}] = h[s \ {Chosen(s)}]
    BY <1>4
<1>6. QED
    BY <1>2, <1>3, <1>5

\* The recursion defines a function.
LEMMA AddsExists ==
    ASSUME NEW f, NEW S, IsFiniteSet(S)
    PROVE  \E g : Adds(g, f, S)
<1> DEFINE Bad == {T \in SUBSET S : ~\E g : Adds(g, f, T)}
<1> SUFFICES ASSUME Bad # {} PROVE FALSE
    OBVIOUS
<1>1. PICK T \in Bad : \A U \in Bad : U \subseteq T => U = T
    <2>1. Bad \in SUBSET (SUBSET S)
        OBVIOUS
    <2> HIDE DEF Bad
    <2>2. QED
        BY <2>1, LeastSubset
<1> DEFINE V(u) == (CHOOSE g : Adds(g, f, u))
           h == [s \in SUBSET T |-> IF s = {} THEN 0
                    ELSE f[Chosen(s)] + V(s \ {Chosen(s)})[s \ {Chosen(s)}]]
<1>2. ASSUME NEW u \in SUBSET T, u # T
      PROVE  Adds(V(u), f, u)
    <2>1. u \notin Bad
        BY <1>1, <1>2
    <2>2. \E g : Adds(g, f, u)
        BY <2>1
    <2>3. QED
        BY <2>2, Zenon
<1>3. ASSUME NEW u \in SUBSET T, u # T
      PROVE  V(u)[u] = h[u]
    <2> DEFINE w == u \ {Chosen(u)}
    <2>1. V(u)[u] = IF u = {} THEN 0 ELSE f[Chosen(u)] + V(u)[w]
        BY <1>2, <1>3, AddsStep
    <2>2. h[u] = IF u = {} THEN 0 ELSE f[Chosen(u)] + V(w)[w]
        OBVIOUS
    <2>3. w \in SUBSET T /\ w \in SUBSET u /\ w # T /\ w \subseteq w
        BY <1>3
    <2>4. Adds(V(w), f, w) /\ Adds(V(u), f, u)
        BY <1>2, <1>3, <2>3
    <2>5. IsFiniteSet(u)
        BY <1>1, FS_Subset
    <2> HIDE DEF V, h, w
    <2>6. V(u)[w] = V(w)[w]
        BY <2>3, <2>4, <2>5, AddsUnique
    <2>7. QED
        BY <2>1, <2>2, <2>6
<1>4. ASSUME NEW s \in SUBSET T
      PROVE  h[s] = IF s = {} THEN 0 ELSE f[Chosen(s)] + h[s \ {Chosen(s)}]
    <2> DEFINE w == s \ {Chosen(s)}
    <2>1. h[s] = IF s = {} THEN 0 ELSE f[Chosen(s)] + V(w)[w]
        OBVIOUS
    <2>2. s # {} => w \in SUBSET T /\ w # T
        BY ChosenIn
    <2> HIDE DEF V, h, w
    <2>3. s # {} => V(w)[w] = h[w]
        BY <1>3, <2>2
    <2>4. QED
        BY <2>1, <2>3 DEF w
<1>5. Adds(h, f, T)
    <2>1. h = [s \in SUBSET T |-> h[s]]
        OBVIOUS
    <2> HIDE DEF h
    <2>2. QED
        BY <1>4, <2>1, Zenon DEF Adds
<1>6. QED
    BY <1>1, <1>5

-----------------------------------------------------------------------------
(* Sums of numbers. *)

\* The sum over no index is 0, and otherwise the chosen index is added to the rest.
LEMMA SumStep ==
    ASSUME NEW f, NEW S, IsFiniteSet(S)
    PROVE  SumFunctionOnSet(f, S) =
             IF S = {} THEN 0
             ELSE f[Chosen(S)] + SumFunctionOnSet(f, S \ {Chosen(S)})
<1> DEFINE g == CHOOSE k : Adds(k, f, S)
           R == S \ {Chosen(S)}
           h == CHOOSE k : Adds(k, f, R)
<1>1. IsFiniteSet(R) /\ R \in SUBSET R /\ R \in SUBSET S /\ S \in SUBSET S
    BY FS_Subset
<1>2. Adds(g, f, S)
    BY AddsExists
<1>3. Adds(h, f, R)
    BY <1>1, AddsExists
<1>4. SumFunctionOnSet(f, S) = g[S] /\ SumFunctionOnSet(f, R) = h[R]
    BY SumUnfolded
<1> HIDE DEF g, h
<1>5. g[S] = IF S = {} THEN 0 ELSE f[Chosen(S)] + g[R]
    BY <1>1, <1>2, AddsStep
<1>6. h[R] = g[R]
    BY <1>1, <1>2, <1>3, AddsUnique
<1>7. QED
    BY <1>4, <1>5, <1>6

\* Sums of integers are integers, of naturals naturals.
LEMMA SumType ==
    ASSUME NEW f, NEW S, IsFiniteSet(S), NEW N \in {Nat, Int},
           \A x \in S : f[x] \in N
    PROVE  SumFunctionOnSet(f, S) \in N
<1> DEFINE Bad == {T \in SUBSET S : SumFunctionOnSet(f, T) \notin N}
<1> SUFFICES ASSUME Bad # {} PROVE FALSE
    OBVIOUS
<1>1. PICK T \in Bad : \A U \in Bad : U \subseteq T => U = T
    <2>1. Bad \in SUBSET (SUBSET S)
        OBVIOUS
    <2> HIDE DEF Bad
    <2>2. QED
        BY <2>1, LeastSubset
<1>2. SumFunctionOnSet(f, T) = IF T = {} THEN 0
        ELSE f[Chosen(T)] + SumFunctionOnSet(f, T \ {Chosen(T)})
    BY <1>1, FS_Subset, SumStep
<1>3. T # {}
    BY <1>1, <1>2
<1>4. Chosen(T) \in T /\ Chosen(T) \in S
    BY <1>3, ChosenIn
<1>5. SumFunctionOnSet(f, T \ {Chosen(T)}) \in N /\ f[Chosen(T)] \in N
    BY <1>1, <1>4
<1>6. SumFunctionOnSet(f, T) \in N
    BY <1>2, <1>3, <1>5
<1>7. QED
    BY <1>1, <1>6

\* Any index can be taken first.
LEMMA SumRemove ==
    ASSUME NEW f, NEW S, IsFiniteSet(S), \A x \in S : f[x] \in Int, NEW x \in S
    PROVE  SumFunctionOnSet(f, S) = f[x] + SumFunctionOnSet(f, S \ {x})
<1> DEFINE Sum(T) == SumFunctionOnSet(f, T)
           Bad == {T \in SUBSET S : \E y \in T : Sum(T) # f[y] + Sum(T \ {y})}
<1> SUFFICES ASSUME Bad # {} PROVE FALSE
    OBVIOUS
<1>1. PICK T \in Bad : \A U \in Bad : U \subseteq T => U = T
    <2>1. Bad \in SUBSET (SUBSET S)
        OBVIOUS
    <2> HIDE DEF Bad
    <2>2. QED
        BY <2>1, LeastSubset
<1>2. PICK y \in T : Sum(T) # f[y] + Sum(T \ {y})
    BY <1>1
<1> DEFINE c == Chosen(T)
<1>3. c \in T /\ Sum(T) = f[c] + Sum(T \ {c})
    BY <1>1, <1>2, ChosenIn, FS_Subset, SumStep
<1>4. y # c
    BY <1>2, <1>3
<1> HIDE DEF c
<1>5. T \ {c} \notin Bad /\ T \ {y} \notin Bad
    BY <1>1, <1>3
<1>6. Sum(T \ {c}) = f[y] + Sum((T \ {c}) \ {y})
    BY <1>1, <1>2, <1>4, <1>5
<1>7. Sum(T \ {y}) = f[c] + Sum((T \ {y}) \ {c})
    BY <1>1, <1>3, <1>4, <1>5
<1>8. (T \ {c}) \ {y} = (T \ {y}) \ {c}
    OBVIOUS
<1>9. Sum((T \ {c}) \ {y}) \in Int /\ f[c] \in Int /\ f[y] \in Int
    <2>1. (T \ {c}) \ {y} \in SUBSET S
        BY <1>1
    <2>2. Sum((T \ {c}) \ {y}) \in Int
        BY <2>1, FS_Subset, SumType
    <2>3. QED
        BY <1>1, <1>2, <1>3, <2>2
<1> HIDE DEF Sum
<1>10. QED
    BY <1>2, <1>3, <1>6, <1>7, <1>8, <1>9

\* A sum depends on the values at its indices only.
LEMMA SumSame ==
    ASSUME NEW f, NEW g, NEW S, IsFiniteSet(S), \A x \in S : f[x] = g[x]
    PROVE  SumFunctionOnSet(f, S) = SumFunctionOnSet(g, S)
<1> DEFINE Bad == {T \in SUBSET S : SumFunctionOnSet(f, T) # SumFunctionOnSet(g, T)}
<1> SUFFICES ASSUME Bad # {} PROVE FALSE
    OBVIOUS
<1>1. PICK T \in Bad : \A U \in Bad : U \subseteq T => U = T
    <2>1. Bad \in SUBSET (SUBSET S)
        OBVIOUS
    <2> HIDE DEF Bad
    <2>2. QED
        BY <2>1, LeastSubset
<1> DEFINE c == Chosen(T)
           R == T \ {c}
<1>2. /\ SumFunctionOnSet(f, T) = IF T = {} THEN 0 ELSE f[c] + SumFunctionOnSet(f, R)
      /\ SumFunctionOnSet(g, T) = IF T = {} THEN 0 ELSE g[c] + SumFunctionOnSet(g, R)
    BY <1>1, FS_Subset, SumStep
<1>3. T # {}
    BY <1>1, <1>2
<1>4. c \in T
    BY <1>3, ChosenIn
<1> HIDE DEF c
<1>5. SumFunctionOnSet(f, R) = SumFunctionOnSet(g, R)
    BY <1>1, <1>4
<1>6. f[c] = g[c]
    BY <1>1, <1>4
<1>7. QED
    BY <1>1, <1>2, <1>5, <1>6

\* The sum of the sums is the sum.
LEMMA SumPlus ==
    ASSUME NEW f, NEW g, NEW h, NEW S, IsFiniteSet(S),
           \A x \in S : f[x] \in Int /\ g[x] \in Int /\ h[x] = f[x] + g[x]
    PROVE  SumFunctionOnSet(h, S) = SumFunctionOnSet(f, S) + SumFunctionOnSet(g, S)
<1> DEFINE F(T) == SumFunctionOnSet(f, T)
           G(T) == SumFunctionOnSet(g, T)
           H(T) == SumFunctionOnSet(h, T)
           Bad == {T \in SUBSET S : H(T) # F(T) + G(T)}
<1> SUFFICES ASSUME Bad # {} PROVE FALSE
    OBVIOUS
<1>1. PICK T \in Bad : \A U \in Bad : U \subseteq T => U = T
    <2>1. Bad \in SUBSET (SUBSET S)
        OBVIOUS
    <2> HIDE DEF Bad
    <2>2. QED
        BY <2>1, LeastSubset
<1> DEFINE c == Chosen(T)
           R == T \ {c}
<1>2. /\ F(T) = IF T = {} THEN 0 ELSE f[c] + F(R)
      /\ G(T) = IF T = {} THEN 0 ELSE g[c] + G(R)
      /\ H(T) = IF T = {} THEN 0 ELSE h[c] + H(R)
    BY <1>1, FS_Subset, SumStep
<1>3. T # {}
    BY <1>1, <1>2
<1>4. c \in T
    BY <1>3, ChosenIn
<1> HIDE DEF c
<1>5. H(R) = F(R) + G(R)
    BY <1>1, <1>4
<1>6. f[c] \in Int /\ g[c] \in Int /\ h[c] = f[c] + g[c]
    BY <1>1, <1>4
<1>7. F(R) \in Int /\ G(R) \in Int
    <2>1. R \in SUBSET S
        BY <1>1
    <2> HIDE DEF R
    <2>2. QED
        BY <2>1, FS_Subset, SumType
<1>8. H(T) # F(T) + G(T)
    BY <1>1
<1> HIDE DEF F, G, H, R
<1>9. QED
    BY <1>2, <1>3, <1>5, <1>6, <1>7, <1>8

\* The indices where the value is 0 can be left out.
LEMMA SumSupport ==
    ASSUME NEW f, NEW S, IsFiniteSet(S), \A x \in S : f[x] \in Int,
           NEW T \in SUBSET S, \A x \in S \ T : f[x] = 0
    PROVE  SumFunctionOnSet(f, S) = SumFunctionOnSet(f, T)
<1> DEFINE F(U) == SumFunctionOnSet(f, U)
           Bad == {U \in SUBSET S : F(U) # F(U \cap T)}
<1>a. CASE Bad # {}
    <2>1. PICK U \in Bad : \A W \in Bad : W \subseteq U => W = U
        <3>1. Bad \in SUBSET (SUBSET S)
            OBVIOUS
        <3> HIDE DEF Bad
        <3>2. QED
            BY <1>a, <3>1, LeastSubset
    <2>2. U # U \cap T
        BY <2>1
    <2>3. PICK x \in U : x \notin T
        BY <2>2
    <2>4. U \ {x} \notin Bad /\ (U \ {x}) \cap T = U \cap T
        BY <2>1, <2>3
    <2>5. F(U \ {x}) = F(U \cap T)
        <3>1. U \ {x} \in SUBSET S
            BY <2>1
        <3>2. QED
            BY <2>4, <3>1
    <2>6. U \in SUBSET S /\ IsFiniteSet(U) /\ U \cap T \in SUBSET S
        BY <2>1, FS_Subset
    <2>7. F(U) = f[x] + F(U \ {x})
        BY <2>3, <2>6, SumRemove
    <2>8. F(U \cap T) \in Int
        BY <2>6, FS_Subset, SumType
    <2>9. f[x] = 0
        BY <2>3, <2>6
    <2>10. F(U) # F(U \cap T)
        BY <2>1
    <2> HIDE DEF F, Bad
    <2>11. QED
        BY <2>5, <2>7, <2>8, <2>9, <2>10
<1>b. CASE Bad = {}
    <2>1. F(S) = F(S \cap T)
        BY <1>b
    <2>2. S \cap T = T
        OBVIOUS
    <2>3. QED
        BY <2>1, <2>2
<1>c. QED
    BY <1>a, <1>b

\* Values that are all 0 add up to 0.
LEMMA SumZero ==
    ASSUME NEW f, NEW S, IsFiniteSet(S), \A x \in S : f[x] = 0
    PROVE  SumFunctionOnSet(f, S) = 0
<1>1. SumFunctionOnSet(f, S) = SumFunctionOnSet(f, {})
    BY SumSupport
<1>2. SumFunctionOnSet(f, {}) = 0
    BY FS_EmptySet, SumStep
<1>3. QED
    BY <1>1, <1>2

\* One index.
LEMMA SumOne ==
    ASSUME NEW f, NEW x, f[x] \in Int
    PROVE  SumFunctionOnSet(f, {x}) = f[x]
<1>1. IsFiniteSet({x}) /\ IsFiniteSet({}) /\ {x} \ {x} = {}
    BY FS_Singleton, FS_EmptySet
<1>2. SumFunctionOnSet(f, {x}) = f[x] + SumFunctionOnSet(f, {x} \ {x})
    BY <1>1, SumRemove
<1>3. SumFunctionOnSet(f, {}) = 0
    BY <1>1, SumStep
<1>4. SumFunctionOnSet(f, {x}) = f[x] + 0
    BY <1>1, <1>2, <1>3
<1>5. QED
    BY <1>4

-----------------------------------------------------------------------------
(* Sums of tables, of classes and of ones. *)

\* F is a table of numbers by row and column, G the same by column and row.
Transposed(F, G, S, T) ==
    \A x \in S, y \in T : F[x][y] \in Int /\ G[y][x] = F[x][y]

\* The total of each row.
Totals(rows, F, S, T) == \A x \in S : rows[x] = SumFunctionOnSet(F[x], T)

\* A table of numbers is added by rows or by columns.
LEMMA SumExchange ==
    ASSUME NEW F, NEW G, NEW S, NEW T, IsFiniteSet(S), IsFiniteSet(T),
           Transposed(F, G, S, T),
           NEW rows, Totals(rows, F, S, T),
           NEW cols, Totals(cols, G, T, S)
    PROVE  SumFunctionOnSet(rows, S) = SumFunctionOnSet(cols, T)
<1> USE DEF Transposed, Totals
<1> DEFINE part(U) == [y \in T |-> SumFunctionOnSet(G[y], U)]
           Rows(U) == SumFunctionOnSet(rows, U)
           Cols(U) == SumFunctionOnSet(part(U), T)
           Bad == {U \in SUBSET S : Rows(U) # Cols(U)}
<1>1. ASSUME NEW U \in SUBSET S, NEW y \in T
      PROVE  /\ SumFunctionOnSet(G[y], U) \in Int
             /\ \A x \in U : SumFunctionOnSet(G[y], U)
                    = F[x][y] + SumFunctionOnSet(G[y], U \ {x})
    <2>1. IsFiniteSet(U) /\ \A x \in U : G[y][x] = F[x][y] /\ G[y][x] \in Int
        BY FS_Subset
    <2>2. QED
        BY <2>1, SumType, SumRemove
<1>a. CASE Bad # {}
    <2>1. PICK U \in Bad : \A W \in Bad : W \subseteq U => W = U
        <3>1. Bad \in SUBSET (SUBSET S)
            OBVIOUS
        <3> HIDE DEF Bad
        <3>2. QED
            BY <1>a, <3>1, LeastSubset
    <2>2. U \in SUBSET S /\ Rows(U) # Cols(U) /\ IsFiniteSet(U)
        BY <2>1, FS_Subset
    <2>3. CASE U = {}
        <3>1. Rows(U) = 0
            BY <2>2, <2>3, SumStep
        <3>2. \A y \in T : SumFunctionOnSet(G[y], U) = 0
            BY <2>2, <2>3, SumStep
        <3> DEFINE p == part(U)
        <3>3. \A y \in T : p[y] = 0
            BY <3>2
        <3> HIDE DEF p
        <3>4. SumFunctionOnSet(p, T) = SumFunctionOnSet(p, {})
            BY <3>3, SumSupport
        <3>5. SumFunctionOnSet(p, {}) = 0
            BY FS_EmptySet, SumStep
        <3>6. QED
            BY <2>2, <3>1, <3>4, <3>5 DEF p
    <2>4. ASSUME NEW x \in U
          PROVE  FALSE
        <3> DEFINE R == U \ {x}
        <3>1. R \in SUBSET S /\ Rows(R) = Cols(R) /\ IsFiniteSet(R)
            BY <2>1, <2>2, FS_Subset
        <3>2. \A z \in S : rows[z] \in Int
            BY SumType
        <3>3. Rows(U) = rows[x] + Rows(R)
            BY <2>2, <3>2, SumRemove
        <3> DEFINE p == part(U)
                   q == part(R)
        <3>4. \A y \in T : F[x][y] \in Int /\ q[y] \in Int /\ p[y] = F[x][y] + q[y]
            BY <1>1, <2>2, <2>4, <3>1
        <3>5. Cols(U) = SumFunctionOnSet(p, T) /\ Cols(R) = SumFunctionOnSet(q, T)
            OBVIOUS
        <3> HIDE DEF p, q, Cols
        <3>6. SumFunctionOnSet(p, T) = SumFunctionOnSet(F[x], T) + SumFunctionOnSet(q, T)
            BY <3>4, SumPlus
        <3>7. rows[x] = SumFunctionOnSet(F[x], T)
            BY <2>2, <2>4
        <3>8. QED
            BY <2>2, <3>1, <3>3, <3>5, <3>6, <3>7
    <2>5. QED
        BY <2>3, <2>4
<1>b. CASE Bad = {}
    <2>1. Rows(S) = Cols(S)
        BY <1>b
    <2> DEFINE p == part(S)
    <2>2. \A y \in T : p[y] = cols[y]
        OBVIOUS
    <2>3. Cols(S) = SumFunctionOnSet(p, T)
        OBVIOUS
    <2> HIDE DEF p, Cols
    <2>4. SumFunctionOnSet(p, T) = SumFunctionOnSet(cols, T)
        BY <2>2, SumSame
    <2>5. QED
        BY <2>1, <2>3, <2>4
<1>c. QED
    BY <1>a, <1>b

\* Grouping the indices by a key changes no sum.
LEMMA SumByClass ==
    ASSUME NEW f, NEW S, NEW C, IsFiniteSet(S), IsFiniteSet(C),
           \A x \in S : f[x] \in Int,
           NEW k \in [S -> C],
           NEW g, \A c \in C : g[c] = SumFunctionOnSet(f, {x \in S : k[x] = c})
    PROVE  SumFunctionOnSet(g, C) = SumFunctionOnSet(f, S)
<1> DEFINE F == [x \in S |-> [c \in C |-> IF k[x] = c THEN f[x] ELSE 0]]
<1>1. \A x \in S, c \in C : F[x][c] \in Int /\ F[x][c] = IF k[x] = c THEN f[x] ELSE 0
    OBVIOUS
<1> HIDE DEF F
<1>2. ASSUME NEW x \in S
      PROVE  f[x] = SumFunctionOnSet(F[x], C)
    <2>1. k[x] \in C
        OBVIOUS
    <2>2. /\ \A c \in C \ {k[x]} : F[x][c] = 0
          /\ F[x][k[x]] = f[x]
          /\ F[x][k[x]] \in Int
        BY <1>1, <2>1
    <2>3. SumFunctionOnSet(F[x], C) = SumFunctionOnSet(F[x], {k[x]})
        BY <1>1, <2>1, <2>2, SumSupport
    <2>4. QED
        BY <2>2, <2>3, SumOne
<1> DEFINE G == [c \in C |-> [x \in S |-> F[x][c]]]
<1>3. \A x \in S, c \in C : F[x][c] \in Int /\ G[c][x] = F[x][c]
    BY <1>1
<1> HIDE DEF G
<1>4. ASSUME NEW c \in C
      PROVE  g[c] = SumFunctionOnSet(G[c], S)
    <2> DEFINE K == {x \in S : k[x] = c}
    <2>1. /\ K \in SUBSET S
          /\ \A x \in S : G[c][x] \in Int
          /\ \A x \in S \ K : G[c][x] = 0
          /\ \A x \in K : G[c][x] = f[x]
        BY <1>1, <1>3
    <2>2. g[c] = SumFunctionOnSet(f, K)
        OBVIOUS
    <2> HIDE DEF K
    <2>3. SumFunctionOnSet(G[c], S) = SumFunctionOnSet(G[c], K)
        BY <2>1, SumSupport
    <2>4. SumFunctionOnSet(G[c], K) = SumFunctionOnSet(f, K)
        BY <2>1, FS_Subset, SumSame
    <2>5. QED
        BY <2>2, <2>3, <2>4
<1>5. Transposed(F, G, S, C) /\ Totals(f, F, S, C) /\ Totals(g, G, C, S)
    BY <1>2, <1>3, <1>4 DEF Transposed, Totals
<1>6. QED
    BY <1>5, SumExchange

\* Counting is adding ones.
LEMMA SumOfOnes ==
    ASSUME NEW f, NEW S, IsFiniteSet(S), \A x \in S : f[x] = 1
    PROVE  SumFunctionOnSet(f, S) = Cardinality(S)
<1> DEFINE F(U) == SumFunctionOnSet(f, U)
           Bad == {U \in SUBSET S : F(U) # Cardinality(U)}
<1> SUFFICES ASSUME Bad # {} PROVE FALSE
    OBVIOUS
<1>1. PICK U \in Bad : \A W \in Bad : W \subseteq U => W = U
    <2>1. Bad \in SUBSET (SUBSET S)
        OBVIOUS
    <2> HIDE DEF Bad
    <2>2. QED
        BY <2>1, LeastSubset
<1>2. U \in SUBSET S /\ IsFiniteSet(U) /\ F(U) # Cardinality(U)
    BY <1>1, FS_Subset
<1>3. U # {}
    BY <1>2, SumStep, FS_EmptySet
<1>4. PICK x \in U : TRUE
    BY <1>3
<1>5. F(U) = f[x] + F(U \ {x}) /\ f[x] = 1
    BY <1>2, <1>4, SumRemove
<1>6. Cardinality(U \ {x}) = Cardinality(U) - 1 /\ Cardinality(U) \in Nat
    BY <1>2, <1>4, FS_RemoveElement, FS_CardinalityType
<1>7. F(U \ {x}) = Cardinality(U \ {x})
    BY <1>1, <1>4
<1> HIDE DEF F
<1>8. QED
    BY <1>2, <1>5, <1>6, <1>7
==============================================================================
