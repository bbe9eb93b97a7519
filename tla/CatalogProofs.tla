---------------------------- MODULE CatalogProofs ----------------------------
(***************************************************************************)
(* Proofs about the catalogue under the orders.  What is reserved of a     *)
(* unit is a sum over orders, so the module starts with sums over finite   *)
(* sets: SumFunctionOnSet is a CHOOSE among the functions that satisfy a   *)
(* recursive equation, and every fact about it comes from the subset on    *)
(* which it would fail first.                                              *)
(***************************************************************************)
EXTENDS Catalog, FiniteSetTheorems, WellFoundedInduction, TLAPS

-----------------------------------------------------------------------------
(* Sums over a finite set.                                                 *)

\* Among the subsets of a finite set that are no good, if any, there is one all whose parts are good.
LEMMA LeastSubset ==
    ASSUME NEW S, IsFiniteSet(S), NEW Bad, Bad \subseteq SUBSET S, Bad # {}
    PROVE  \E T \in Bad : \A U \in Bad : U \subseteq T => U = T
<1>1. IsWellFoundedOn(StrictSubsetOrdering(S), SUBSET S)
    BY FS_StrictSubsetOrderingWellFounded, FS_FiniteSubsetsOfFinite
<1>2. PICK T \in Bad : \A U \in Bad : <<U, T>> \notin StrictSubsetOrdering(S)
    <2> HIDE DEF StrictSubsetOrdering
    <2>1. QED
        BY <1>1, WFMin
<1>3. ASSUME NEW U \in Bad, U \subseteq T, U # T PROVE FALSE
    <2>1. <<U, T>> \in (SUBSET S) \X (SUBSET S)
        OBVIOUS
    <2>2. <<U, T>> \in StrictSubsetOrdering(S)
        BY <1>3, <2>1 DEF StrictSubsetOrdering
    <2>3. QED
        BY <1>2, <2>2
<1>4. QED
    BY <1>3

\* The equation of the sums of f over the subsets of S.
SumsTo(f, S, g) ==
    g = [s \in SUBSET S |-> IF s = {} THEN 0 ELSE LET x == CHOOSE x \in s : TRUE IN f[x] + g[s \ {x}]]

\* One summand of a set that is not empty: the one the sum takes first.
First(s) == CHOOSE x \in s : TRUE

LEMMA FirstIsThere == ASSUME NEW s, s # {} PROVE First(s) \in s
BY DEF First

LEMMA SumsStep ==
    ASSUME NEW f, NEW S, NEW g, SumsTo(f, S, g), NEW s \in SUBSET S
    PROVE  /\ s = {} => g[s] = 0
           /\ s # {} => g[s] = f[First(s)] + g[s \ {First(s)}]
BY DEF SumsTo, First

LEMMA SumChosen ==
    ASSUME NEW f, NEW S, \E g : SumsTo(f, S, g)
    PROVE  \E g : SumsTo(f, S, g) /\ SumFunctionOnSet(f, S) = g[S]
<1> DEFINE chosen == CHOOSE g : SumsTo(f, S, g)
<1>1. SumsTo(f, S, chosen)
    OBVIOUS
<1>2. SumFunctionOnSet(f, S) = chosen[S]
    BY DEF SumsTo, SumFunctionOnSet, FoldFunctionOnSet, MapThenFoldSet
<1>3. QED
    BY <1>1, <1>2

\* The equation has one solution: two solutions agree wherever both are defined.
LEMMA SumsAgree ==
    ASSUME NEW f, NEW A, NEW B, NEW g, NEW h, SumsTo(f, A, g), SumsTo(f, B, h),
           NEW S, IsFiniteSet(S), S \subseteq A, S \subseteq B
    PROVE  g[S] = h[S]
<1> DEFINE Bad == {s \in SUBSET S : g[s] # h[s]}
<1>1. SUFFICES ASSUME S \in Bad PROVE FALSE
    OBVIOUS
<1>2. PICK s \in Bad : \A u \in Bad : u \subseteq s => u = s
    <2>1. Bad \subseteq SUBSET S /\ Bad # {}
        BY <1>1
    <2> HIDE DEF Bad
    <2>2. QED
        BY <2>1, LeastSubset
<1>3. s \in SUBSET A /\ s \in SUBSET B
    OBVIOUS
<1>4. s # {}
    BY <1>2, <1>3, SumsStep
<1>5. First(s) \in s
    BY <1>4, FirstIsThere
<1>6. g[s \ {First(s)}] = h[s \ {First(s)}]
    <2>1. s \ {First(s)} \in SUBSET S /\ s \ {First(s)} # s /\ s \ {First(s)} \subseteq s
        BY <1>5
    <2>2. QED
        BY <1>2, <2>1
<1>7. g[s] = f[First(s)] + g[s \ {First(s)}]
    BY <1>3, <1>4, SumsStep
<1>8. h[s] = f[First(s)] + h[s \ {First(s)}]
    BY <1>3, <1>4, SumsStep
<1>9. QED
    BY <1>2, <1>6, <1>7, <1>8

\* It has a solution over every finite set.
LEMMA SumsExist ==
    ASSUME NEW f, NEW D, IsFiniteSet(D)
    PROVE  \A S \in SUBSET D : \E g : SumsTo(f, S, g)
<1> DEFINE Bad == {S \in SUBSET D : ~ \E g : SumsTo(f, S, g)}
<1>1. SUFFICES ASSUME Bad # {} PROVE FALSE
    OBVIOUS
<1>2. PICK S \in Bad : \A U \in Bad : U \subseteq S => U = S
    <2>1. Bad \subseteq SUBSET D /\ Bad # {}
        BY <1>1
    <2> HIDE DEF Bad
    <2>2. QED
        BY <2>1, LeastSubset
<1> DEFINE sum(s) == SumFunctionOnSet(f, s)
           g == [s \in SUBSET S |-> IF s = {} THEN 0 ELSE f[First(s)] + sum(s \ {First(s)})]
<1>3. ASSUME NEW s \in SUBSET S, s # S
      PROVE  \E h : SumsTo(f, s, h) /\ sum(s) = h[s]
    BY <1>2, <1>3, SumChosen
<1>4. ASSUME NEW s \in SUBSET S, s # S PROVE g[s] = sum(s)
    <2>1. PICK h : SumsTo(f, s, h) /\ sum(s) = h[s]
        BY <1>3, <1>4
    <2>2. CASE s = {}
        <3> HIDE DEF sum
        <3>1. h[s] = 0
            BY <2>1, <2>2, SumsStep
        <3>2. QED
            BY <2>1, <2>2, <3>1
    <2>3. CASE s # {}
        <3> DEFINE t == s \ {First(s)}
        <3>1. First(s) \in s
            BY <2>3, FirstIsThere
        <3>2. t \in SUBSET S /\ t # S /\ t \in SUBSET s /\ IsFiniteSet(t)
            BY <3>1, FS_Subset
        <3>3. PICK k : SumsTo(f, t, k) /\ sum(t) = k[t]
            BY <1>3, <3>2
        <3> HIDE DEF t, sum
        <3>4. h[t] = k[t]
            BY <2>1, <3>2, <3>3, SumsAgree
        <3>5. h[s] = f[First(s)] + h[t]
            BY <2>1, <2>3, SumsStep DEF t
        <3>6. QED
            BY <2>1, <2>3, <3>3, <3>4, <3>5 DEF t
    <2>4. QED
        BY <2>2, <2>3
<1>5. ASSUME NEW s \in SUBSET S
      PROVE  g[s] = IF s = {} THEN 0 ELSE f[First(s)] + g[s \ {First(s)}]
    <2>1. CASE s = {}
        BY <2>1
    <2>2. CASE s # {}
        <3> DEFINE t == s \ {First(s)}
        <3>1. t \in SUBSET S /\ t # S
            BY <2>2, FirstIsThere
        <3>2. g[t] = sum(t)
            BY <1>4, <3>1
        <3>3. g[s] = f[First(s)] + sum(t)
            BY <2>2
        <3>4. QED
            BY <2>2, <3>2, <3>3
    <2>3. QED
        BY <2>1, <2>2
<1>6. g = [s \in SUBSET S |-> IF s = {} THEN 0 ELSE f[First(s)] + g[s \ {First(s)}]]
    <2> DEFINE k == [s \in SUBSET S |-> IF s = {} THEN 0 ELSE f[First(s)] + g[s \ {First(s)}]]
    <2>1. DOMAIN g = SUBSET S /\ DOMAIN k = SUBSET S
        OBVIOUS
    <2>2. \A s \in SUBSET S : g[s] = k[s]
        BY <1>5
    <2>3. QED
        BY <2>1, <2>2
<1>7. SumsTo(f, S, g)
    <2> HIDE DEF g
    <2>1. QED
        BY <1>6 DEF SumsTo, First
<1>8. QED
    BY <1>2, <1>7

\* A sum takes its first summand and goes on with the others.
LEMMA SumUnfold ==
    ASSUME NEW f, NEW S, IsFiniteSet(S)
    PROVE  /\ S = {} => SumFunctionOnSet(f, S) = 0
           /\ S # {} => SumFunctionOnSet(f, S) = f[First(S)] + SumFunctionOnSet(f, S \ {First(S)})
<1>1. PICK g : SumsTo(f, S, g) /\ SumFunctionOnSet(f, S) = g[S]
    BY SumsExist, SumChosen
<1>2. S = {} => g[S] = 0
    BY <1>1, SumsStep
<1>3. ASSUME S # {} PROVE SumFunctionOnSet(f, S) = f[First(S)] + SumFunctionOnSet(f, S \ {First(S)})
    <2> DEFINE T == S \ {First(S)}
    <2>1. T \in SUBSET S /\ IsFiniteSet(T)
        BY FS_Subset
    <2>2. PICK h : SumsTo(f, T, h) /\ SumFunctionOnSet(f, T) = h[T]
        BY <2>1, SumsExist, SumChosen
    <2>3. g[S] = f[First(S)] + g[T]
        BY <1>1, <1>3, SumsStep
    <2> HIDE DEF T
    <2>4. g[T] = h[T]
        BY <1>1, <2>1, <2>2, SumsAgree
    <2>5. QED
        BY <1>1, <2>2, <2>3, <2>4 DEF T
<1>4. QED
    BY <1>1, <1>2, <1>3

LEMMA SumNat ==
    ASSUME NEW f, NEW S, IsFiniteSet(S), \A x \in S : f[x] \in Nat
    PROVE  SumFunctionOnSet(f, S) \in Nat
<1> DEFINE Bad == {s \in SUBSET S : SumFunctionOnSet(f, s) \notin Nat}
<1>1. SUFFICES ASSUME Bad # {} PROVE FALSE
    OBVIOUS
<1>2. PICK s \in Bad : \A u \in Bad : u \subseteq s => u = s
    <2>1. Bad \subseteq SUBSET S /\ Bad # {}
        BY <1>1
    <2> HIDE DEF Bad
    <2>2. QED
        BY <2>1, LeastSubset
<1>3. IsFiniteSet(s) /\ s \in SUBSET S
    BY FS_Subset
<1>4. s # {}
    <2>1. SumFunctionOnSet(f, {}) = 0
        BY FS_EmptySet, SumUnfold
    <2>2. QED
        BY <2>1
<1>5. First(s) \in s
    BY <1>4, FirstIsThere
<1>6. SumFunctionOnSet(f, s \ {First(s)}) \in Nat
    <2>1. s \ {First(s)} \in SUBSET S /\ s \ {First(s)} # s /\ s \ {First(s)} \subseteq s
        BY <1>5
    <2>2. QED
        BY <1>2, <2>1
<1>7. f[First(s)] \in Nat
    BY <1>3, <1>5
<1>8. SumFunctionOnSet(f, s) = f[First(s)] + SumFunctionOnSet(f, s \ {First(s)})
    BY <1>3, <1>4, SumUnfold
<1>9. QED
    BY <1>6, <1>7, <1>8

\* It may take any summand first.
LEMMA SumTake ==
    ASSUME NEW f, NEW D, IsFiniteSet(D), \A x \in D : f[x] \in Nat
    PROVE  \A S \in SUBSET D : \A y \in S : SumFunctionOnSet(f, S) = f[y] + SumFunctionOnSet(f, S \ {y})
<1> DEFINE sum(s) == SumFunctionOnSet(f, s)
           Bad == {s \in SUBSET D : ~ \A y \in s : sum(s) = f[y] + sum(s \ {y})}
<1>1. SUFFICES ASSUME Bad # {} PROVE FALSE
    OBVIOUS
<1>2. PICK s \in Bad : \A u \in Bad : u \subseteq s => u = s
    <2>1. Bad \subseteq SUBSET D /\ Bad # {}
        BY <1>1
    <2> HIDE DEF Bad
    <2>2. QED
        BY <2>1, LeastSubset
<1>3. PICK y \in s : sum(s) # f[y] + sum(s \ {y})
    OBVIOUS
<1> DEFINE x == First(s)
           both == s \ {x, y}
<1>4. x \in s /\ IsFiniteSet(s)
    BY <1>3, FirstIsThere, FS_Subset
<1>5. sum(s) = f[x] + sum(s \ {x})
    BY <1>3, <1>4, SumUnfold
<1>6. x # y
    BY <1>3, <1>5
<1>7. ASSUME NEW v \in s, NEW w \in s, v # w
      PROVE  sum(s \ {v}) = f[w] + sum(s \ {v, w})
    <2>1. s \ {v} \in SUBSET D /\ s \ {v} # s /\ s \ {v} \subseteq s
        OBVIOUS
    <2>2. s \ {v} \notin Bad
        BY <1>2, <2>1
    <2>3. w \in s \ {v} /\ (s \ {v}) \ {w} = s \ {v, w}
        BY <1>7
    <2> HIDE DEF sum
    <2>4. \A z \in s \ {v} : sum(s \ {v}) = f[z] + sum((s \ {v}) \ {z})
        BY <2>1, <2>2
    <2>5. QED
        BY <2>3, <2>4
<1>8. sum(s \ {x}) = f[y] + sum(both) /\ sum(s \ {y}) = f[x] + sum(both)
    <2>1. s \ {y, x} = both
        OBVIOUS
    <2> HIDE DEF sum, x
    <2>2. QED
        BY <1>4, <1>6, <1>7, <2>1
<1>9. sum(both) \in Nat
    <2>1. IsFiniteSet(both) /\ \A z \in both : f[z] \in Nat
        BY <1>4, FS_Subset
    <2> HIDE DEF both
    <2>2. QED
        BY <2>1, SumNat
<1>10. f[x] \in Nat /\ f[y] \in Nat
    BY <1>4
<1>11. QED
    <2> HIDE DEF sum, x, both
    <2>1. QED
        BY <1>3, <1>5, <1>8, <1>9, <1>10

LEMMA SumSame ==
    ASSUME NEW f, NEW g, NEW S, IsFiniteSet(S), \A x \in S : f[x] = g[x]
    PROVE  SumFunctionOnSet(f, S) = SumFunctionOnSet(g, S)
<1> DEFINE Bad == {s \in SUBSET S : SumFunctionOnSet(f, s) # SumFunctionOnSet(g, s)}
<1>1. SUFFICES ASSUME Bad # {} PROVE FALSE
    OBVIOUS
<1>2. PICK s \in Bad : \A u \in Bad : u \subseteq s => u = s
    <2>1. Bad \subseteq SUBSET S /\ Bad # {}
        BY <1>1
    <2> HIDE DEF Bad
    <2>2. QED
        BY <2>1, LeastSubset
<1>3. IsFiniteSet(s)
    BY FS_Subset
<1>4. SumFunctionOnSet(f, {}) = 0 /\ SumFunctionOnSet(g, {}) = 0
    BY FS_EmptySet, SumUnfold
<1>5. s # {}
    BY <1>4
<1>6. First(s) \in s
    BY <1>5, FirstIsThere
<1>7. SumFunctionOnSet(f, s \ {First(s)}) = SumFunctionOnSet(g, s \ {First(s)})
    <2>1. s \ {First(s)} \in SUBSET S /\ s \ {First(s)} # s /\ s \ {First(s)} \subseteq s
        BY <1>6
    <2>2. QED
        BY <1>2, <2>1
<1>8. SumFunctionOnSet(f, s) = f[First(s)] + SumFunctionOnSet(f, s \ {First(s)})
    BY <1>3, <1>5, SumUnfold
<1>9. SumFunctionOnSet(g, s) = g[First(s)] + SumFunctionOnSet(g, s \ {First(s)})
    BY <1>3, <1>5, SumUnfold
<1>10. f[First(s)] = g[First(s)]
    BY <1>6
<1>11. QED
    BY <1>7, <1>8, <1>9, <1>10

\* What is left of a sum without a part of its summands.
LEMMA SumPart ==
    ASSUME NEW f, NEW B, IsFiniteSet(B), \A x \in B : f[x] \in Nat, NEW A \in SUBSET B
    PROVE  SumFunctionOnSet(f, B) = SumFunctionOnSet(f, A) + SumFunctionOnSet(f, B \ A)
<1> DEFINE sum(s) == SumFunctionOnSet(f, s)
           Bad == {s \in SUBSET B : sum(B) # sum(s) + sum(B \ s)}
<1>0. \A s \in SUBSET B : sum(s) \in Nat
    <2>1. ASSUME NEW s \in SUBSET B PROVE IsFiniteSet(s) /\ \A x \in s : f[x] \in Nat
        BY FS_Subset
    <2>2. QED
        BY <2>1, SumNat
<1>1. SUFFICES ASSUME A \in Bad PROVE FALSE
    OBVIOUS
<1>2. PICK s \in Bad : \A u \in Bad : u \subseteq s => u = s
    <2>1. Bad \subseteq SUBSET B /\ Bad # {}
        BY <1>1
    <2> HIDE DEF Bad
    <2>2. QED
        BY <2>1, LeastSubset
<1>3. sum({}) = 0
    BY FS_EmptySet, SumUnfold
<1>4. s # {}
    <2>1. B \ {} = B /\ sum(B) \in Nat
        BY <1>0
    <2> HIDE DEF sum
    <2>2. QED
        BY <1>3, <2>1
<1>5. PICK y \in s : TRUE
    BY <1>4
<1> DEFINE t == s \ {y}
<1>6. t \in SUBSET B /\ t # s /\ t \subseteq s
    OBVIOUS
<1>7. sum(B) = sum(t) + sum(B \ t)
    BY <1>2, <1>6
<1>8. sum(s) = f[y] + sum(t)
    <2>1. s \in SUBSET B
        OBVIOUS
    <2>2. QED
        BY <2>1, SumTake
<1>9. sum(B \ t) = f[y] + sum(B \ s)
    <2>1. B \ t \in SUBSET B /\ y \in B \ t /\ (B \ t) \ {y} = B \ s
        OBVIOUS
    <2>2. \A z \in B \ t : sum(B \ t) = f[z] + sum((B \ t) \ {z})
        BY <2>1, SumTake
    <2> HIDE DEF t, sum
    <2>3. QED
        BY <2>1, <2>2
<1>10. f[y] \in Nat /\ sum(t) \in Nat /\ sum(B \ s) \in Nat
    BY <1>0
<1>11. QED
    <2>1. sum(B) # sum(s) + sum(B \ s)
        OBVIOUS
    <2> HIDE DEF sum, t, Bad
    <2>2. QED
        BY <1>7, <1>8, <1>9, <1>10, <2>1

-----------------------------------------------------------------------------
(* Types.                                                                  *)

LEMMA OrderFinite == IsFiniteSet(Order)
BY CatalogAssumption, FS_Interval DEF Order

LEMMA QuantitiesNat ==
    ASSUME CatalogTypeOK, NEW S \in SUBSET Standing
    PROVE  IsFiniteSet(S) /\ \A o \in S : Quantities[o] = placed[o].quantity /\ Quantities[o] \in Nat \ {0}
<1>1. IsFiniteSet(S)
    BY OrderFinite, FS_Subset DEF Standing
<1>2. ASSUME NEW o \in S PROVE Quantities[o] = placed[o].quantity /\ placed[o].quantity \in Quantity
    BY DEF Quantities, Standing, CatalogTypeOK, Unused, PlacedLine
<1>3. QED
    BY <1>1, <1>2, CatalogAssumption

LEMMA OwedNat == ASSUME CatalogTypeOK, NEW S \in SUBSET Standing, NEW x PROVE Owed(x, S) \in Nat
<1> DEFINE T == {o \in S : x \in Held(o)}
<1>1. T \in SUBSET Standing
    OBVIOUS
<1> HIDE DEF T
<1>2. IsFiniteSet(T) /\ \A o \in T : Quantities[o] \in Nat
    BY <1>1, QuantitiesNat
<1>3. SumFunctionOnSet(Quantities, T) \in Nat
    BY <1>2, SumNat
<1>4. QED
    BY <1>3 DEF Owed, T

LEMMA LessNat == ASSUME NEW n \in Nat, NEW m \in Nat PROVE Less(n, m) \in Nat
BY DEF Less

LEMMA ReleasedNat == ASSUME CatalogTypeOK, NEW S \in SUBSET Standing PROVE Released(S) \in [Unit -> Nat]
<1>1. ASSUME NEW x \in Unit PROVE Less(unit[x].booked, Owed(x, S)) \in Nat
    <2>1. unit[x].booked \in Nat
        BY DEF CatalogTypeOK
    <2>2. QED
        BY <2>1, OwedNat, LessNat
<1>2. QED
    BY <1>1 DEF Released

LEMMA TargetsTyped == ASSUME CatalogTypeOK, NEW v \in Variant PROVE Targets(v) \in SUBSET Variant
BY CatalogAssumption DEF CatalogTypeOK, Targets, Plain

LEMMA TypePrepare ==
    ASSUME CatalogTypeOK, NEW r \in Request, NEW S \in SUBSET Unit, NEW T \in SUBSET Unit,
           NEW plan \in Plan(S, T), Prepare(r, plan)
    PROVE  CatalogTypeOK'
<1>1. request' = [request EXCEPT ![r] = plan] /\ UNCHANGED <<unit, content, shelved, placed, edits, blurred, doubled>>
    BY DEF Prepare
<1>2. DOMAIN request' = Request
    BY <1>1 DEF CatalogTypeOK
<1>3. ASSUME NEW q \in Running' PROVE \E U, V \in SUBSET Unit : request'[q] \in Plan(U, V)
    <2>1. CASE q = r
        BY <1>1, <2>1 DEF CatalogTypeOK
    <2>2. CASE q # r
        <3>1. request'[q] = request[q] /\ q \in Running
            BY <1>1, <1>3, <2>2 DEF CatalogTypeOK, Running
        <3>2. QED
            BY <3>1 DEF CatalogTypeOK
    <2>3. QED
        BY <2>1, <2>2
<1>4. QED
    <2> USE DEF Plan, PlacedLine
    <2>1. (\A q \in Running : \E U, V \in SUBSET Unit : request[q] \in Plan(U, V))'
        BY <1>3
    <2>2. QED
        BY <1>1, <1>2, <2>1 DEF CatalogTypeOK, Plain

\* The plan of an order to be, and what is in it.
OrderPlan(o, b, v, quantity, shade, closes) ==
    LET booked == Released(closes)
        holds == Targets(v) \cup ({shade} \ {NoShade})
    IN [stage |-> "open", order |-> o, closes |-> closes, stock |-> [x \in {} |-> 0], late |-> {}, rival |-> FALSE,
        booked |-> [x \in Touched(closes) \cup holds |-> booked[x] + IF x \in holds THEN quantity ELSE 0],
        line |-> [status |-> "open", buyer |-> b, variant |-> v, quantity |-> quantity, shade |-> shade, holds |-> holds]]

LEMMA OrderPlanTyped ==
    ASSUME CatalogTypeOK, NEW o \in Order, NEW b \in Buyer, NEW v \in Variant, NEW quantity \in Quantity,
           NEW shade \in Shade \cup {NoShade}, NEW closes \in SUBSET Standing
    PROVE  \E S, T \in SUBSET Unit : OrderPlan(o, b, v, quantity, shade, closes) \in Plan(S, T)
<1> DEFINE released == Released(closes)
           holds == Targets(v) \cup ({shade} \ {NoShade})
           wrote == Touched(closes) \cup holds
           booked == [x \in wrote |-> released[x] + IF x \in holds THEN quantity ELSE 0]
<1>1. holds \in SUBSET Unit /\ wrote \in SUBSET Unit
    BY TargetsTyped DEF Unit, Touched
<1>2. released \in [Unit -> Nat]
    BY ReleasedNat
<1>3. quantity \in Nat
    BY CatalogAssumption
<1>4. booked \in [wrote -> Nat]
    <2> HIDE DEF released, holds, wrote
    <2>1. QED
        BY <1>1, <1>2, <1>3
<1>5. [x \in {} |-> 0] \in [{} -> Nat]
    OBVIOUS
<1>6. closes \in SUBSET Order /\ o \in Nat
    BY CatalogAssumption DEF Standing, Order
<1>7. OrderPlan(o, b, v, quantity, shade, closes) =
        [stage |-> "open", order |-> o, closes |-> closes, stock |-> [x \in {} |-> 0], late |-> {}, rival |-> FALSE,
         booked |-> booked,
         line |-> [status |-> "open", buyer |-> b, variant |-> v, quantity |-> quantity, shade |-> shade, holds |-> holds]]
    BY DEF OrderPlan
<1> HIDE DEF booked, holds, wrote
<1>8. [status |-> "open", buyer |-> b, variant |-> v, quantity |-> quantity, shade |-> shade, holds |-> holds] \in PlacedLine
    BY <1>1 DEF PlacedLine
<1>9. OrderPlan(o, b, v, quantity, shade, closes) \in Plan(wrote, {})
    BY <1>4, <1>5, <1>6, <1>7, <1>8 DEF Plan
<1>10. QED
    BY <1>1, <1>9

LEMMA CreateIsPlan ==
    ASSUME CatalogTypeOK, NEW r \in Request, NEW o \in Order, NEW b \in Buyer, NEW v \in Variant, NEW quantity \in Quantity,
           NEW shade \in Shade \cup {NoShade}, NEW enabled, NEW byAi, Create(r, o, b, v, quantity, shade, enabled, byAi)
    PROVE  Prepare(r, OrderPlan(o, b, v, quantity, shade, OrdersOf(b)))
BY DEF Create, PlanOrder, OrderPlan

ClosePlan(S, booked, stock) ==
    [stage |-> "close", order |-> 0, closes |-> S, booked |-> booked, stock |-> stock, late |-> {}, rival |-> FALSE,
     line |-> Unused]

\* What cancelling and approving the order o are going to write.
Unbooked(o) == [x \in Touched({o}) |-> Released({o})[x]]
Unstocked(o) == [x \in {y \in Held(o) : unit[y].stock > 0} |-> Less(unit[x].stock, placed[o].quantity)]

LEMMA CloseTyped ==
    ASSUME CatalogTypeOK, NEW o \in Standing
    PROVE  \E S, T \in SUBSET Unit : /\ ClosePlan({o}, Unbooked(o), [x \in {} |-> 0]) \in Plan(S, {})
                                     /\ ClosePlan({o}, Unbooked(o), Unstocked(o)) \in Plan(S, T)
<1> DEFINE S == Touched({o})
           T == {y \in Held(o) : unit[y].stock > 0}
<1>1. o \in Order /\ placed[o] \in PlacedLine
    BY DEF Standing, CatalogTypeOK, Unused
<1>2. S \in SUBSET Unit
    BY DEF Touched
<1>3. T \in SUBSET Unit
    <2>1. placed[o].variant \in Variant
        BY <1>1 DEF PlacedLine
    <2>2. QED
        BY <2>1, TargetsTyped DEF Held, Live, Unit
<1>4. Unbooked(o) \in [S -> Nat]
    <2>1. Released({o}) \in [Unit -> Nat]
        BY ReleasedNat
    <2> HIDE DEF S
    <2>2. QED
        BY <1>2, <2>1 DEF Unbooked, S
<1>5. Unstocked(o) \in [T -> Nat]
    <2>1. placed[o].quantity \in Nat
        BY <1>1, CatalogAssumption DEF PlacedLine
    <2>2. \A x \in T : unit[x].stock \in Nat
        BY <1>3 DEF CatalogTypeOK
    <2>3. QED
        BY <2>1, <2>2, LessNat DEF Unstocked
<1>6. [x \in {} |-> 0] \in [{} -> Nat] /\ {o} \in SUBSET Order
    BY <1>1
<1> HIDE DEF S, T
<1>7. /\ ClosePlan({o}, Unbooked(o), [x \in {} |-> 0]) \in Plan(S, {})
      /\ ClosePlan({o}, Unbooked(o), Unstocked(o)) \in Plan(S, T)
    BY <1>4, <1>5, <1>6 DEF Plan, ClosePlan
<1>8. QED
    BY <1>2, <1>3, <1>7

\* Cancelling and approving an order differ in the stock.
LEMMA CloseIsPlan ==
    ASSUME NEW r, NEW o
    PROVE  /\ Cancel(r, o) => o \in Standing /\ Prepare(r, ClosePlan({o}, Unbooked(o), [x \in {} |-> 0]))
           /\ Approve(r, o) => o \in Standing /\ Prepare(r, ClosePlan({o}, Unbooked(o), Unstocked(o)))
BY DEF Cancel, Approve, Close, ClosePlan, Unbooked, Unstocked

-----------------------------------------------------------------------------
(* What the steps do to the requests and to the orders.                    *)

Ordering == {r \in Running : request[r].stage = "open"}

\* The order of a request is its own and not there yet, and what it closes is there.
Rooms ==
    /\ \A r \in Ordering : /\ request[r].order \in Order /\ placed[request[r].order] = Unused
                          /\ request[r].line \in PlacedLine /\ request[r].line.status = "open"
    /\ \A r, q \in Ordering : request[q].order = request[r].order => q = r
    /\ \A r \in Running : \A o \in request[r].closes : placed[o] # Unused

Passed(w, wrote, hit) == [w EXCEPT !.late = @ \cup wrote, !.rival = @ \/ hit]

LEMMA PassedTyped ==
    ASSUME NEW S, NEW T, NEW w \in Plan(S, T), NEW wrote \in SUBSET Unit, NEW hit \in BOOLEAN
    PROVE  /\ Passed(w, wrote, hit) \in Plan(S, T)
           /\ Passed(w, wrote, hit).stage = w.stage /\ Passed(w, wrote, hit).order = w.order
           /\ Passed(w, wrote, hit).closes = w.closes /\ Passed(w, wrote, hit).line = w.line
           /\ Passed(w, wrote, hit).booked = w.booked /\ Passed(w, wrote, hit).stock = w.stock
           /\ Passed(w, wrote, hit).late = w.late \cup wrote
           /\ Passed(w, wrote, hit).rival = (w.rival \/ hit)
<1> DEFINE p == Passed(w, wrote, hit)
           L == PlacedLine \cup {Unused}
<1> HIDE DEF L
<1>1. w \in [stage : {"open", "close"}, order : Nat, closes : SUBSET Order, booked : [S -> Nat], stock : [T -> Nat],
             late : SUBSET Unit, rival : BOOLEAN, line : L]
    BY DEF Plan, L
<1>2. p \in [stage : {"open", "close"}, order : Nat, closes : SUBSET Order, booked : [S -> Nat], stock : [T -> Nat],
             late : SUBSET Unit, rival : BOOLEAN, line : L]
    BY <1>1 DEF Passed
<1>3. QED
    BY <1>1, <1>2 DEF Passed, Plan, L

LEMMA PlanFields ==
    ASSUME CatalogTypeOK, NEW r \in Running
    PROVE  /\ r \in Request /\ request[r].stage \in {"open", "close"} /\ request[r].closes \in SUBSET Order
           /\ DOMAIN request[r].booked \in SUBSET Unit /\ DOMAIN request[r].stock \in SUBSET Unit
           /\ request[r].booked \in [DOMAIN request[r].booked -> Nat] /\ request[r].stock \in [DOMAIN request[r].stock -> Nat]
           /\ request[r].late \in SUBSET Unit /\ request[r].rival \in BOOLEAN
<1>1. PICK S \in SUBSET Unit, T \in SUBSET Unit : request[r] \in Plan(S, T)
    BY DEF CatalogTypeOK
<1> DEFINE L == PlacedLine \cup {Unused}
<1> HIDE DEF L
<1>2. request[r] \in [stage : {"open", "close"}, order : Nat, closes : SUBSET Order, booked : [S -> Nat], stock : [T -> Nat],
             late : SUBSET Unit, rival : BOOLEAN, line : L]
    BY <1>1 DEF Plan, L
<1>3. QED
    BY <1>2 DEF Running

Wrote(r) == DOMAIN request[r].booked \cup DOMAIN request[r].stock
Hit(r, q) == r \in Ordering /\ q \in Ordering /\ request[q].line.buyer = request[r].line.buyer

\* What the others know of the request r after its commit, and what has become of them.
PassedBy(r) ==
    /\ DOMAIN request' = Request
    /\ \A q \in Request : q \in Running' <=> q \in Running /\ q # r
    /\ \A q \in Running' : /\ q \in Running /\ q # r /\ request'[q] = Passed(request[q], Wrote(r), Hit(r, q))

LEMMA CommitPasses ==
    ASSUME CatalogTypeOK, NEW r \in Request, CommitRequest(r)
    PROVE  PassedBy(r)
<1>1. r \in Running /\ Wrote(r) \in SUBSET Unit
    BY PlanFields DEF CommitRequest, Wrote
<1>2. request' = [q \in Request |-> IF q = r \/ q \notin Running THEN Idle ELSE Passed(request[q], Wrote(r), Hit(r, q))]
    <2>1. \A q \in Running : Hit(r, q) <=> request[r].stage = "open" /\ request[q].stage = "open"
                                           /\ request[q].line.buyer = request[r].line.buyer
        BY <1>1 DEF Hit, Ordering
    <2>2. QED
        BY <2>1 DEF CommitRequest, Passed, Wrote
<1>3. ASSUME NEW q \in Running PROVE Passed(request[q], Wrote(r), Hit(r, q)) # Idle
    <2>1. PICK S \in SUBSET Unit, T \in SUBSET Unit : request[q] \in Plan(S, T)
        BY DEF CatalogTypeOK
    <2>2. Hit(r, q) \in BOOLEAN
        BY DEF Hit
    <2>3. Passed(request[q], Wrote(r), Hit(r, q)).stage = request[q].stage
        <3> DEFINE w == request[q]
                   wrote == Wrote(r)
                   hit == Hit(r, q)
        <3>1. w \in Plan(S, T) /\ wrote \in SUBSET Unit /\ hit \in BOOLEAN
            BY <1>1, <2>1, <2>2
        <3> HIDE DEF w, wrote, hit
        <3>2. PICK p : p = Passed(w, wrote, hit)
            OBVIOUS
        <3>3. p \in Plan(S, T) /\ p.stage = w.stage
            BY <3>1, <3>2, PassedTyped
        <3>4. QED
            BY <3>2, <3>3 DEF w, wrote, hit
    <2>4. request[q].stage \in {"open", "close"}
        BY PlanFields
    <2>5. QED
        BY <2>3, <2>4 DEF Idle
<1>4. QED
    BY <1>2, <1>3 DEF PassedBy, Running

\* The fields of a request that has seen another commit.
LEMMA PassedFields ==
    ASSUME CatalogTypeOK, NEW r \in Request, CommitRequest(r), NEW q \in Running'
    PROVE  /\ q \in Running /\ q # r
           /\ \E S, T \in SUBSET Unit : request'[q] \in Plan(S, T)
           /\ request'[q].stage = request[q].stage /\ request'[q].order = request[q].order
           /\ request'[q].closes = request[q].closes /\ request'[q].line = request[q].line
           /\ request'[q].booked = request[q].booked /\ request'[q].stock = request[q].stock
           /\ request'[q].late = request[q].late \cup Wrote(r)
           /\ request'[q].rival = (request[q].rival \/ Hit(r, q))
<1>1. q \in Running /\ q # r /\ request'[q] = Passed(request[q], Wrote(r), Hit(r, q))
    BY CommitPasses DEF PassedBy
<1>2. PICK S \in SUBSET Unit, T \in SUBSET Unit : request[q] \in Plan(S, T)
    BY <1>1 DEF CatalogTypeOK
<1>3. Wrote(r) \in SUBSET Unit /\ Hit(r, q) \in BOOLEAN
    <2>1. r \in Running
        BY DEF CommitRequest
    <2>2. Wrote(r) \in SUBSET Unit
        BY <2>1, PlanFields DEF Wrote
    <2>3. QED
        BY <2>2 DEF Hit
<1> DEFINE w == request[q]
           wrote == Wrote(r)
           hit == Hit(r, q)
<1>4. w \in Plan(S, T) /\ wrote \in SUBSET Unit /\ hit \in BOOLEAN /\ request'[q] = Passed(w, wrote, hit)
    BY <1>1, <1>2, <1>3
<1> HIDE DEF w, wrote, hit
<1>5. /\ request'[q] \in Plan(S, T)
      /\ request'[q].stage = w.stage /\ request'[q].order = w.order /\ request'[q].closes = w.closes
      /\ request'[q].line = w.line /\ request'[q].booked = w.booked /\ request'[q].stock = w.stock
      /\ request'[q].late = w.late \cup wrote /\ request'[q].rival = (w.rival \/ hit)
    BY <1>4, PassedTyped
<1>6. QED
    BY <1>1, <1>5 DEF w, wrote, hit

LEMMA OpeningAfter ==
    ASSUME CatalogTypeOK, NEW r \in Request, CommitRequest(r)
    PROVE  \A q \in Ordering' : q \in Ordering /\ q # r
BY PassedFields DEF Ordering

\* The orders after the commit of r.
LEMMA CommitPlaces ==
    ASSUME CatalogTypeOK, Rooms, NEW r \in Request, CommitRequest(r), NEW o \in Order
    PROVE  /\ o \in request[r].closes =>
                 /\ placed[o] \in PlacedLine /\ placed'[o] \in PlacedLine /\ placed'[o].status = "closed"
                 /\ placed'[o].buyer = placed[o].buyer /\ placed'[o].variant = placed[o].variant
                 /\ placed'[o].quantity = placed[o].quantity /\ placed'[o].shade = placed[o].shade
                 /\ placed'[o].holds = placed[o].holds /\ (r \in Ordering => o # request[r].order)
           /\ o \notin request[r].closes => placed'[o] = IF r \in Ordering /\ o = request[r].order THEN request[r].line ELSE placed[o]
<1>1. placed'[o] = IF o \in request[r].closes THEN [placed[o] EXCEPT !.status = "closed"]
                   ELSE IF r \in Ordering /\ o = request[r].order THEN request[r].line ELSE placed[o]
    BY DEF CommitRequest, Ordering
<1>2. r \in Running
    BY DEF CommitRequest
<1>3. ASSUME o \in request[r].closes PROVE placed[o] \in PlacedLine /\ placed[o] # Unused
    BY <1>2, <1>3 DEF Rooms, CatalogTypeOK
<1>4. QED
    BY <1>1, <1>3 DEF PlacedLine, Rooms

\* A step that takes up a plan changes nothing but the request.
LEMMA Prepared ==
    ASSUME CatalogTypeOK, NEW r \in Request, NEW plan, plan.stage # "idle", Prepare(r, plan)
    PROVE  /\ UNCHANGED <<unit, content, shelved, placed, edits, blurred, doubled>>
           /\ r \notin Running /\ request'[r] = plan /\ Running' = Running \cup {r}
           /\ \A q \in Running : request'[q] = request[q]
<1>1. request' = [request EXCEPT ![r] = plan] /\ request[r] = Idle /\ DOMAIN request = Request
    BY DEF Prepare, CatalogTypeOK
<1>2. plan # Idle
    BY DEF Idle
<1>3. QED
    BY <1>1, <1>2 DEF Prepare, Running

CatalogStructure == CatalogTypeOK /\ Rooms

LEMMA StructureCreate ==
    ASSUME CatalogStructure, NEW r \in Request, NEW o \in FreshOrder, NEW b \in Buyer, NEW v \in Variant,
           NEW quantity \in Quantity, NEW shade \in Shade \cup {NoShade}, NEW enabled, NEW byAi,
           Create(r, o, b, v, quantity, shade, enabled, byAi)
    PROVE  CatalogStructure'
<1> DEFINE closes == OrdersOf(b)
           plan == OrderPlan(o, b, v, quantity, shade, closes)
<1>1. CatalogTypeOK /\ Rooms /\ o \in Order /\ placed[o] = Unused /\ closes \in SUBSET Standing
    BY DEF CatalogStructure, FreshOrder, OrdersOf
<1>2. Prepare(r, plan)
    BY <1>1, CreateIsPlan
<1>3. PICK S \in SUBSET Unit, T \in SUBSET Unit : plan \in Plan(S, T)
    <2> HIDE DEF closes
    <2>1. QED
        BY <1>1, OrderPlanTyped
<1>4. /\ plan.stage = "open" /\ plan.order = o /\ plan.closes = closes /\ plan.line.status = "open"
    BY DEF OrderPlan
<1> HIDE DEF plan
<1>5. CatalogTypeOK'
    BY <1>1, <1>2, <1>3, TypePrepare
<1>6. /\ placed' = placed /\ r \notin Running /\ request'[r] = plan /\ Running' = Running \cup {r}
      /\ \A q \in Running : request'[q] = request[q]
    BY <1>1, <1>2, <1>4, Prepared
<1>7. plan.line \in PlacedLine
    BY <1>3, <1>4 DEF Plan, Unused
<1>8. Ordering' = Ordering \cup {r}
    BY <1>4, <1>6 DEF Ordering
<1>9. ASSUME NEW q \in Ordering' PROVE /\ request'[q].order \in Order /\ placed'[request'[q].order] = Unused
                                      /\ request'[q].line \in PlacedLine /\ request'[q].line.status = "open"
    <2>1. CASE q = r
        BY <1>1, <1>4, <1>6, <1>7, <2>1
    <2>2. CASE q # r
        BY <1>1, <1>6, <1>8, <2>2 DEF Rooms, Ordering
    <2>3. QED
        BY <2>1, <2>2
<1>10. ASSUME NEW p \in Ordering', NEW q \in Ordering', request'[q].order = request'[p].order PROVE q = p
    <2>1. \A s \in Ordering : s \in Running /\ request[s].order # o /\ request'[s] = request[s]
        BY <1>6 DEF FreshOrder, Ordering
    <2>2. QED
        BY <1>1, <1>4, <1>6, <1>8, <1>10, <2>1 DEF Rooms
<1>11. ASSUME NEW q \in Running', NEW k \in request'[q].closes PROVE placed'[k] # Unused
    <2>1. CASE q = r
        BY <1>1, <1>4, <1>6, <1>11, <2>1 DEF Standing, Unused
    <2>2. CASE q # r
        BY <1>1, <1>6, <1>11, <2>2 DEF Rooms
    <2>3. QED
        BY <2>1, <2>2
<1>12. Rooms'
    <2> USE DEF PlacedLine
    <2>1. QED
        BY <1>9, <1>10, <1>11 DEF Rooms
<1>13. QED
    BY <1>5, <1>12 DEF CatalogStructure

LEMMA StructureClose ==
    ASSUME CatalogStructure, NEW r \in Request, NEW o \in Order, Cancel(r, o) \/ Approve(r, o)
    PROVE  CatalogStructure'
<1>1. CatalogTypeOK /\ Rooms
    BY DEF CatalogStructure
<1>2. o \in Standing /\ \E stock : /\ Prepare(r, ClosePlan({o}, Unbooked(o), stock))
                                   /\ \E S, T \in SUBSET Unit : ClosePlan({o}, Unbooked(o), stock) \in Plan(S, T)
    BY <1>1, CloseIsPlan, CloseTyped
<1>3. PICK stock : /\ Prepare(r, ClosePlan({o}, Unbooked(o), stock))
                   /\ \E S, T \in SUBSET Unit : ClosePlan({o}, Unbooked(o), stock) \in Plan(S, T)
    BY <1>2
<1> DEFINE plan == ClosePlan({o}, Unbooked(o), stock)
<1>4. plan.stage = "close" /\ plan.closes = {o}
    BY DEF ClosePlan
<1>5. Prepare(r, plan) /\ \E S, T \in SUBSET Unit : plan \in Plan(S, T)
    BY <1>3
<1> HIDE DEF plan
<1>6. CatalogTypeOK'
    BY <1>1, <1>5, TypePrepare
<1>7. /\ placed' = placed /\ r \notin Running /\ request'[r] = plan /\ Running' = Running \cup {r}
      /\ \A q \in Running : request'[q] = request[q]
    BY <1>1, <1>4, <1>5, Prepared
<1>8. Ordering' = Ordering /\ \A q \in Ordering : request'[q] = request[q]
    BY <1>4, <1>7 DEF Ordering
<1>9. ASSUME NEW q \in Running', NEW k \in request'[q].closes PROVE placed'[k] # Unused
    <2>1. CASE q = r
        BY <1>2, <1>4, <1>7, <1>9, <2>1 DEF Standing, Unused
    <2>2. CASE q # r
        BY <1>1, <1>7, <1>9, <2>2 DEF Rooms
    <2>3. QED
        BY <2>1, <2>2
<1>10. Rooms'
    <2> USE DEF PlacedLine
    <2>1. QED
        BY <1>1, <1>7, <1>8, <1>9 DEF Rooms
<1>11. QED
    BY <1>6, <1>10 DEF CatalogStructure

LEMMA StructureCommit ==
    ASSUME CatalogStructure, NEW r \in Request, CommitRequest(r)
    PROVE  CatalogStructure'
<1>1. CatalogTypeOK /\ Rooms /\ r \in Running
    BY DEF CatalogStructure, CommitRequest
<1>2. unit' \in [Unit -> [at : Where, stock : Nat, booked : Nat]]
    <2>1. /\ request[r].booked \in [DOMAIN request[r].booked -> Nat]
          /\ request[r].stock \in [DOMAIN request[r].stock -> Nat]
        BY <1>1, PlanFields
    <2> DEFINE booked == request[r].booked
               stock == request[r].stock
    <2>2. unit' = [x \in Unit |-> [unit[x] EXCEPT !.booked = IF x \in DOMAIN booked THEN booked[x] ELSE @,
                                                  !.stock = IF x \in DOMAIN stock THEN stock[x] ELSE @]]
        BY DEF CommitRequest
    <2> HIDE DEF booked, stock
    <2>3. QED
        BY <1>1, <2>1, <2>2 DEF CatalogTypeOK, booked, stock
<1>3. placed' \in [Order -> PlacedLine \cup {Unused}]
    <2>1. ASSUME NEW o \in Order PROVE placed'[o] \in PlacedLine \cup {Unused}
        BY <1>1, CommitPlaces DEF Rooms, CatalogTypeOK
    <2>2. \E f : placed' = [o \in Order |-> f[o]]
        <3> DEFINE g == [o \in Order |-> IF o \in request[r].closes THEN [placed[o] EXCEPT !.status = "closed"]
                                         ELSE IF request[r].stage = "open" /\ o = request[r].order THEN request[r].line ELSE placed[o]]
        <3>1. placed' = [o \in Order |-> g[o]]
            BY DEF CommitRequest
        <3>2. QED
            BY <3>1
    <2>3. QED
        BY <2>1, <2>2
<1>4. DOMAIN request' = Request /\ \A q \in Running' : \E S, T \in SUBSET Unit : request'[q] \in Plan(S, T)
    BY <1>1, CommitPasses, PassedFields DEF PassedBy
<1>5. blurred' \subseteq Unit /\ doubled' \subseteq Buyer
    <2>1. blurred' \subseteq Unit
        BY <1>1, PlanFields DEF CommitRequest, CatalogTypeOK
    <2>2. r \in Ordering => request[r].line.buyer \in Buyer
        BY <1>1 DEF Rooms, PlacedLine
    <2>3. QED
        BY <1>1, <2>1, <2>2 DEF CommitRequest, CatalogTypeOK, Ordering
<1>6. UNCHANGED <<content, shelved, edits>>
    BY DEF CommitRequest
<1>7. CatalogTypeOK'
    <2> USE DEF Plan, PlacedLine
    <2>1. (\A q \in Running : \E S, T \in SUBSET Unit : request[q] \in Plan(S, T))'
        BY <1>4
    <2>2. QED
        BY <1>1, <1>2, <1>3, <1>4, <1>5, <1>6, <2>1 DEF CatalogTypeOK, Plain
<1>8. ASSUME NEW q \in Ordering'
      PROVE  /\ q \in Ordering /\ q # r
             /\ request'[q].order = request[q].order /\ request'[q].line = request[q].line
             /\ placed'[request'[q].order] = Unused
    <2>1. q \in Ordering /\ q # r
        BY <1>1, OpeningAfter
    <2>2. q \in Running'
        BY DEF Ordering
    <2>3. request'[q].order = request[q].order /\ request'[q].line = request[q].line
        BY <1>1, <2>2, PassedFields
    <2>4. request[q].order \in Order /\ placed[request[q].order] = Unused
        BY <1>1, <2>1 DEF Rooms
    <2>5. request[q].order \notin request[r].closes
        BY <1>1, <2>4 DEF Rooms
    <2>6. r \in Ordering => request[q].order # request[r].order
        BY <1>1, <2>1 DEF Rooms
    <2>7. placed'[request[q].order] = placed[request[q].order]
        BY <1>1, <2>4, <2>5, <2>6, CommitPlaces
    <2>8. QED
        BY <2>1, <2>3, <2>4, <2>7
<1>9. ASSUME NEW q \in Running', NEW k \in request'[q].closes PROVE placed'[k] # Unused
    <2>1. q \in Running /\ request'[q].closes = request[q].closes
        BY <1>1, PassedFields
    <2>2. k \in Order /\ placed[k] # Unused
        BY <1>1, <1>9, <2>1, PlanFields DEF Rooms
    <2>3. CASE k \in request[r].closes
        <3>1. placed'[k] \in PlacedLine /\ placed'[k].status = "closed"
            BY <1>1, <2>2, <2>3, CommitPlaces
        <3>2. QED
            BY <3>1 DEF Unused
    <2>4. CASE k \notin request[r].closes
        <3>1. r \in Ordering => k # request[r].order
            BY <1>1, <2>2 DEF Rooms
        <3>2. QED
            BY <1>1, <2>2, <2>4, <3>1, CommitPlaces
    <2>5. QED
        BY <2>3, <2>4
<1>10. Rooms'
    <2> USE DEF PlacedLine
    <2>1. QED
        BY <1>1, <1>8, <1>9 DEF Rooms
<1>11. QED
    BY <1>7, <1>10 DEF CatalogStructure

-----------------------------------------------------------------------------
(* What the steps of the catalogue have in common.                         *)

Listed(x) == x \in Unit /\ unit[x].at # "none"

\* No row disappears or comes back to life, and nothing that is listed is booked anew.
RowsKept ==
    \A x \in Unit : /\ Listed(x) => unit'[x].at # "none" /\ unit'[x].booked = unit[x].booked /\ (x \in Live' => x \in Live)
                    /\ ~Listed(x) /\ x \in Live' => unit'[x].booked = 0

\* The orders keep their lines, up to the box of a line.
OrdersKept ==
    \A o \in Order : /\ placed[o] = Unused => placed'[o] = Unused
                     /\ placed[o] # Unused =>
                           /\ placed'[o] \in PlacedLine /\ placed'[o] # Unused /\ placed'[o].status = placed[o].status
                           /\ placed'[o].buyer = placed[o].buyer /\ placed'[o].variant = placed[o].variant
                           /\ placed'[o].quantity = placed[o].quantity /\ placed'[o].holds = placed[o].holds
                           /\ placed'[o].shade \in {placed[o].shade, NoShade}

Edited == RowsKept /\ OrdersKept /\ request' = request /\ doubled' = doubled /\ blurred \subseteq blurred'

LEMMA UnitRow ==
    ASSUME CatalogTypeOK, NEW x \in Unit
    PROVE  /\ unit[x] \in [at : Where, stock : Nat, booked : Nat]
           /\ \A a \in Where : /\ [unit[x] EXCEPT !.at = a] \in [at : Where, stock : Nat, booked : Nat]
                               /\ [unit[x] EXCEPT !.at = a].at = a
                               /\ [unit[x] EXCEPT !.at = a].booked = unit[x].booked
BY DEF CatalogTypeOK

LEMMA PutTyped ==
    ASSUME CatalogTypeOK, NEW S, NEW a \in Where
    PROVE  /\ Put(S, a) \in [Unit -> [at : Where, stock : Nat, booked : Nat]]
           /\ \A x \in Unit : /\ Put(S, a)[x].booked = unit[x].booked
                              /\ Put(S, a)[x].at = IF x \in S THEN a ELSE unit[x].at
BY UnitRow DEF Put

LEMMA SameOrders ==
    ASSUME CatalogTypeOK, placed' = placed
    PROVE  OrdersKept
BY DEF OrdersKept, CatalogTypeOK

LEMMA EditTyped ==
    ASSUME CatalogTypeOK, request' = request, doubled' = doubled,
           unit' \in [Unit -> [at : Where, stock : Nat, booked : Nat]], content' \in [Combo -> SUBSET Plain],
           placed' \in [Order -> PlacedLine \cup {Unused}], shelved' \in BOOLEAN, edits' \in 0 .. MaxEdits, blurred' \subseteq Unit
    PROVE  CatalogTypeOK'
<1> USE DEF Plan, PlacedLine
<1>1. (\A r \in Running : \E S, T \in SUBSET Unit : request[r] \in Plan(S, T))'
    BY DEF CatalogTypeOK, Running
<1>2. QED
    BY <1>1 DEF CatalogTypeOK, Plain

LEMMA AddRowsEdits ==
    ASSUME CatalogTypeOK, NEW S \in SUBSET Unit, NEW n \in Level, AddRows(S, n)
    PROVE  CatalogTypeOK' /\ Edited
<1>1. n \in Nat
    BY CatalogAssumption
<1>2. unit' \in [Unit -> [at : Where, stock : Nat, booked : Nat]]
    BY <1>1, UnitRow DEF AddRows, NewRow, Where
<1>3. CatalogTypeOK'
    BY <1>2, EditTyped DEF AddRows, Kept, CatalogTypeOK
<1>4. RowsKept
    BY DEF AddRows, NewRow, RowsKept, Listed, Live
<1>5. QED
    BY <1>3, <1>4, SameOrders DEF AddRows, Kept, Edited

LEMMA EditCounts ==
    ASSUME CatalogTypeOK, NEW S \in SUBSET Unit, Edit(S)
    PROVE  /\ edits' \in 0 .. MaxEdits /\ blurred' \subseteq Unit /\ blurred \subseteq blurred'
           /\ request' = request /\ doubled' = doubled
BY CatalogAssumption DEF Edit, CatalogTypeOK

LEMMA PutEdits ==
    ASSUME CatalogTypeOK, NEW S, NEW a \in {"on", "off", "deleted", "gone"}, unit' = Put(S, a), UNCHANGED <<content, shelved, placed>>,
           \A x \in S \cap Unit : a \in {"on", "off"} => x \in Live,
           NEW B \in SUBSET Unit, Edit(B)
    PROVE  CatalogTypeOK' /\ Edited
<1>1. a \in Where
    BY DEF Where
<1>2. /\ unit' \in [Unit -> [at : Where, stock : Nat, booked : Nat]]
      /\ \A x \in Unit : /\ unit'[x].booked = unit[x].booked
                         /\ unit'[x].at = IF x \in S THEN a ELSE unit[x].at
    BY <1>1, PutTyped
<1>3. CatalogTypeOK'
    BY <1>2, EditTyped, EditCounts DEF CatalogTypeOK
<1>4. RowsKept
    BY <1>1, <1>2 DEF RowsKept, Listed, Live
<1>5. OrdersKept
    BY SameOrders
<1>6. QED
    BY <1>3, <1>4, <1>5, EditCounts DEF Edited

LEMMA PartsOfUnit ==
    /\ \A p \in Product : VariantsOf(p) \in SUBSET Unit
    /\ \A c \in Combo : c \in Product /\ VariantsOf(c) \in SUBSET Unit
    /\ Variant \subseteq Unit /\ Shade \subseteq Unit /\ {} \in SUBSET Unit
BY CatalogAssumption DEF VariantsOf, Unit

LEMMA CreateEdits ==
    ASSUME CatalogTypeOK,
           \/ \E p \in Product, S \in SUBSET Variant, n \in Level : CreateProduct(p, S, n)
           \/ \E b \in Shade, n \in Level : CreateBox(b, n)
           \/ \E n \in Level : SeedBoxes(n)
    PROVE  CatalogTypeOK' /\ Edited
<1>1. \E S \in SUBSET Unit, n \in Level : AddRows(S, n)
    <2>1. CASE \E p \in Product, S \in SUBSET Variant, n \in Level : CreateProduct(p, S, n)
        BY <2>1, PartsOfUnit DEF CreateProduct
    <2>2. CASE \E b \in Shade, n \in Level : CreateBox(b, n)
        <3>1. PICK b \in Shade, n \in Level : AddRows({b}, n)
            BY <2>2 DEF CreateBox
        <3>2. {b} \in SUBSET Unit
            BY PartsOfUnit
        <3>3. QED
            BY <3>1, <3>2
    <2>3. CASE \E n \in Level : SeedBoxes(n)
        <3> DEFINE S == {b \in Shade : unit[b].at = "none"}
        <3>1. PICK n \in Level : AddRows(S, n)
            BY <2>3 DEF SeedBoxes
        <3>2. S \in SUBSET Unit
            BY PartsOfUnit
        <3> HIDE DEF S
        <3>3. QED
            BY <3>1, <3>2
    <2>4. QED
        BY <2>1, <2>2, <2>3
<1>2. QED
    BY <1>1, AddRowsEdits

LEMMA SwitchEdits == ASSUME CatalogTypeOK, NEW x \in Unit, Switch(x) PROVE CatalogTypeOK' /\ Edited
<1>1. PICK a \in {"on", "off"} : unit' = Put({x}, a)
    BY DEF Switch
<1>2. x \in Live /\ Edit({}) /\ UNCHANGED <<content, shelved, placed>>
    BY DEF Switch
<1>3. QED
    BY <1>1, <1>2, PartsOfUnit, PutEdits

LEMMA AdjustEdits == ASSUME CatalogTypeOK, NEW x \in Unit, NEW n \in Level, AdjustStock(x, n) PROVE CatalogTypeOK' /\ Edited
<1>1. n \in Nat /\ unit' = [unit EXCEPT ![x].stock = n] /\ Edit({}) /\ UNCHANGED <<content, shelved, placed>>
    BY CatalogAssumption DEF AdjustStock
<1>2. unit' \in [Unit -> [at : Where, stock : Nat, booked : Nat]]
    BY <1>1 DEF CatalogTypeOK
<1>3. \A y \in Unit : unit'[y].at = unit[y].at /\ unit'[y].booked = unit[y].booked
    BY <1>1 DEF CatalogTypeOK
<1>4. CatalogTypeOK'
    BY <1>1, <1>2, PartsOfUnit, EditTyped, EditCounts DEF CatalogTypeOK
<1>5. RowsKept
    BY <1>3 DEF RowsKept, Listed, Live
<1>6. OrdersKept
    BY <1>1, SameOrders
<1>7. QED
    BY <1>1, <1>4, <1>5, <1>6, PartsOfUnit, EditCounts DEF Edited

\* What the orders of a combo hold is in the reckoning of its changes.
LEMMA HeldForAll ==
    ASSUME CatalogStructure, NEW c
    PROVE  /\ HeldFor(c) \in SUBSET Unit
           /\ \A o \in Standing : placed[o].variant \in VariantsOf(c) => placed[o].holds \subseteq HeldFor(c)
           /\ \A r \in Ordering : request[r].line.variant \in VariantsOf(c) => request[r].line.holds \subseteq HeldFor(c)
<1>1. \A o \in Standing : placed[o].holds \in SUBSET Unit
    BY DEF CatalogStructure, CatalogTypeOK, Standing, Unused, PlacedLine
<1>2. \A r \in Ordering : request[r].line.holds \in SUBSET Unit
    BY DEF CatalogStructure, Rooms, PlacedLine
<1>3. QED
    BY <1>1, <1>2 DEF HeldFor, Ordering

LEMMA DeleteEdits ==
    ASSUME CatalogStructure, (\E p \in Product : DeleteProduct(p)) \/ (\E b \in Shade : DeleteBox(b)) \/ (\E c \in Combo : DeleteCombo(c))
    PROVE  CatalogTypeOK' /\ Edited
<1>1. \E S, B \in SUBSET Unit : unit' = Put(S, "deleted") /\ Edit(B) /\ UNCHANGED <<content, shelved, placed>>
    <2>1. CASE \E p \in Product : DeleteProduct(p)
        BY <2>1, PartsOfUnit DEF DeleteProduct
    <2>2. CASE \E b \in Shade : DeleteBox(b)
        <3>1. PICK b \in Shade : DeleteBox(b)
            BY <2>2
        <3>2. {b} \in SUBSET Unit
            BY PartsOfUnit
        <3>3. QED
            BY <3>1, <3>2, PartsOfUnit DEF DeleteBox
    <2>3. CASE \E c \in Combo : DeleteCombo(c)
        <3>1. PICK c \in Combo : DeleteCombo(c)
            BY <2>3
        <3>2. QED
            BY <3>1, PartsOfUnit, HeldForAll DEF DeleteCombo
    <2>4. QED
        BY <2>1, <2>2, <2>3
<1>2. QED
    BY <1>1, PutEdits DEF CatalogStructure

LEMMA CategoryEdits == ASSUME CatalogTypeOK, DeleteCategory PROVE CatalogTypeOK' /\ Edited
<1> DEFINE S == {b \in Shade : unit[b].at # "none"}
<1>1. unit' = Put(S, "gone") /\ Edit({}) /\ shelved' = FALSE /\ content' = content
    BY DEF DeleteCategory
<1>2. placed' = [o \in Order |-> IF placed[o] = Unused THEN Unused ELSE [placed[o] EXCEPT !.shade = NoShade]]
    BY DEF DeleteCategory
<1> HIDE DEF S
<1>3. /\ unit' \in [Unit -> [at : Where, stock : Nat, booked : Nat]]
      /\ \A x \in Unit : /\ unit'[x].booked = unit[x].booked
                         /\ unit'[x].at = IF x \in S THEN "gone" ELSE unit[x].at
    BY <1>1, PutTyped DEF Where
<1>4. ASSUME NEW o \in Order, placed[o] # Unused
      PROVE  /\ placed'[o] \in PlacedLine /\ placed'[o].status = placed[o].status
             /\ placed'[o].buyer = placed[o].buyer /\ placed'[o].variant = placed[o].variant
             /\ placed'[o].quantity = placed[o].quantity /\ placed'[o].holds = placed[o].holds
             /\ placed'[o].shade = NoShade
    <2>1. placed[o] \in PlacedLine /\ placed'[o] = [placed[o] EXCEPT !.shade = NoShade]
        BY <1>2, <1>4 DEF CatalogTypeOK
    <2>2. QED
        BY <2>1 DEF PlacedLine
<1>5. OrdersKept
    <2>1. \A o \in Order : placed'[o] = Unused => placed'[o] \notin PlacedLine
        BY DEF Unused, PlacedLine
    <2>2. QED
        BY <1>2, <1>4, <2>1 DEF OrdersKept
<1>6. placed' \in [Order -> PlacedLine \cup {Unused}]
    BY <1>2, <1>4
<1>7. CatalogTypeOK'
    BY <1>1, <1>3, <1>6, PartsOfUnit, EditTyped, EditCounts DEF CatalogTypeOK
<1>8. RowsKept
    BY <1>3 DEF RowsKept, Listed, Live
<1>9. QED
    BY <1>1, <1>5, <1>7, <1>8, PartsOfUnit, EditCounts DEF Edited

LEMMA ComboEdits ==
    ASSUME CatalogStructure, NEW c \in Combo, NEW S \in SUBSET Variant, NEW v \in Variant,
           CreateCombo(c, S) \/ AddComboItem(c, v) \/ RemoveComboItem(c, v)
    PROVE  CatalogTypeOK' /\ Edited
<1>1. CatalogTypeOK
    BY DEF CatalogStructure
<1>2. CASE CreateCombo(c, S)
    <2>1. S \in SUBSET Plain
        BY <1>2 DEF CreateCombo, Component
    <2>2. unit' = [x \in Unit |-> IF x \in VariantsOf(c) THEN NewRow(0) ELSE unit[x]] /\ \A x \in VariantsOf(c) : unit[x].at = "none"
        BY <1>2 DEF CreateCombo
    <2>3. unit' \in [Unit -> [at : Where, stock : Nat, booked : Nat]]
        BY <1>1, <2>2, UnitRow DEF NewRow, Where
    <2>4. content' \in [Combo -> SUBSET Plain]
        BY <1>1, <1>2, <2>1 DEF CreateCombo, CatalogTypeOK
    <2>5. UNCHANGED <<shelved, edits, blurred, placed, request, doubled>>
        BY <1>2 DEF CreateCombo, Kept
    <2>6. CatalogTypeOK'
        BY <1>1, <2>3, <2>4, <2>5, EditTyped DEF CatalogTypeOK
    <2>7. RowsKept
        BY <2>2 DEF NewRow, RowsKept, Listed, Live
    <2>8. QED
        BY <1>1, <2>5, <2>6, <2>7, SameOrders DEF Edited
<1>3. CASE AddComboItem(c, v) \/ RemoveComboItem(c, v)
    <2>1. UNCHANGED <<unit, shelved, placed>> /\ \E B \in SUBSET Unit : Edit(B)
        BY <1>3, HeldForAll, PartsOfUnit DEF AddComboItem, RemoveComboItem
    <2>2. content' \in [Combo -> SUBSET Plain]
        BY <1>1, <1>3 DEF AddComboItem, RemoveComboItem, Component, CatalogTypeOK
    <2>3. CatalogTypeOK'
        BY <1>1, <2>1, <2>2, EditTyped, EditCounts DEF CatalogTypeOK
    <2>4. RowsKept
        BY <2>1 DEF RowsKept, Listed, Live
    <2>5. QED
        BY <1>1, <2>1, <2>3, <2>4, SameOrders, EditCounts DEF Edited
<1>4. QED
    BY <1>2, <1>3

\* The steps of the catalogue.
Editing ==
    \/ \E p \in Product, S \in SUBSET Variant, n \in Level : CreateProduct(p, S, n)
    \/ \E b \in Shade, n \in Level : CreateBox(b, n)
    \/ \E n \in Level : SeedBoxes(n)
    \/ \E x \in Unit : Switch(x)
    \/ \E x \in Unit, n \in Level : AdjustStock(x, n)
    \/ \E p \in Product : DeleteProduct(p)
    \/ \E b \in Shade : DeleteBox(b)
    \/ DeleteCategory
    \/ \E c \in Combo, S \in SUBSET Variant : CreateCombo(c, S)
    \/ \E c \in Combo, v \in Variant : AddComboItem(c, v) \/ RemoveComboItem(c, v)
    \/ \E c \in Combo : DeleteCombo(c)

LEMMA EditingEdits == ASSUME CatalogStructure, Editing PROVE CatalogTypeOK' /\ Edited
<1>1. CatalogTypeOK
    BY DEF CatalogStructure
<1>2. CASE \/ \E p \in Product, S \in SUBSET Variant, n \in Level : CreateProduct(p, S, n)
           \/ \E b \in Shade, n \in Level : CreateBox(b, n)
           \/ \E n \in Level : SeedBoxes(n)
    BY <1>1, <1>2, CreateEdits
<1>3. CASE \E x \in Unit : Switch(x)
    BY <1>1, <1>3, SwitchEdits
<1>4. CASE \E x \in Unit, n \in Level : AdjustStock(x, n)
    BY <1>1, <1>4, AdjustEdits
<1>5. CASE (\E p \in Product : DeleteProduct(p)) \/ (\E b \in Shade : DeleteBox(b)) \/ (\E c \in Combo : DeleteCombo(c))
    BY <1>5, DeleteEdits
<1>6. CASE DeleteCategory
    BY <1>1, <1>6, CategoryEdits
<1>7. CASE \E c \in Combo, S \in SUBSET Variant : CreateCombo(c, S)
    <2>1. PICK c \in Combo, S \in SUBSET Variant : CreateCombo(c, S)
        BY <1>7
    <2>2. CASE Variant # {}
        BY <2>1, <2>2, ComboEdits
    <2>3. CASE Variant = {}
        BY <2>1, <2>3 DEF CreateCombo
    <2>4. QED
        BY <2>2, <2>3
<1>8. CASE \E c \in Combo, v \in Variant : AddComboItem(c, v) \/ RemoveComboItem(c, v)
    <2>1. PICK c \in Combo, v \in Variant : AddComboItem(c, v) \/ RemoveComboItem(c, v)
        BY <1>8
    <2>2. {} \in SUBSET Variant
        OBVIOUS
    <2>3. QED
        BY <2>1, <2>2, ComboEdits
<1>9. QED
    BY <1>2, <1>3, <1>4, <1>5, <1>6, <1>7, <1>8 DEF Editing

LEMMA StructureEdit == ASSUME CatalogStructure, Editing PROVE CatalogStructure'
<1>1. CatalogTypeOK' /\ OrdersKept /\ request' = request /\ Rooms /\ CatalogTypeOK
    BY EditingEdits DEF Edited, CatalogStructure
<1>2. Running' = Running /\ Ordering' = Ordering
    BY <1>1 DEF Running, Ordering
<1>3. \A r \in Running : request[r].closes \subseteq Order
    BY <1>1, PlanFields
<1>4. Rooms'
    <2> USE DEF PlacedLine
    <2>1. QED
        BY <1>1, <1>2, <1>3 DEF Rooms, OrdersKept
<1>5. QED
    BY <1>1, <1>4 DEF CatalogStructure

\* A request that fails is forgotten.
LEMMA Failed ==
    ASSUME NEW r \in Request, FailRequest(r), CatalogTypeOK
    PROVE  /\ UNCHANGED <<unit, content, shelved, placed, edits, blurred, doubled>>
           /\ DOMAIN request' = Request
           /\ \A q \in Running' : q \in Running /\ request'[q] = request[q]
           /\ \A q \in Ordering' : q \in Ordering /\ request'[q] = request[q]
BY DEF FailRequest, CatalogTypeOK, Running, Ordering

LEMMA StructureFail == ASSUME CatalogStructure, NEW r \in Request, FailRequest(r) PROVE CatalogStructure'
<1>1. CatalogTypeOK /\ Rooms
    BY DEF CatalogStructure
<1>2. /\ UNCHANGED <<unit, content, shelved, placed, edits, blurred, doubled>>
      /\ DOMAIN request' = Request
      /\ \A q \in Running' : q \in Running /\ request'[q] = request[q]
      /\ \A q \in Ordering' : q \in Ordering /\ request'[q] = request[q]
    BY <1>1, Failed
<1>3. CatalogTypeOK'
    <2> USE DEF Plan, PlacedLine
    <2>1. (\A q \in Running : \E S, T \in SUBSET Unit : request[q] \in Plan(S, T))'
        BY <1>1, <1>2 DEF CatalogTypeOK
    <2>2. QED
        BY <1>1, <1>2, <2>1 DEF CatalogTypeOK, Plain
<1>4. Rooms'
    <2> USE DEF PlacedLine
    <2>1. QED
        BY <1>1, <1>2 DEF Rooms
<1>5. QED
    BY <1>3, <1>4 DEF CatalogStructure

\* A step of the catalogue is one of these.
LEMMA CatalogSteps ==
    ASSUME CatalogNext
    PROVE  \/ \E r \in Request, o \in FreshOrder, b \in Buyer, v \in Variant, quantity \in Quantity,
                 shade \in Shade \cup {NoShade}, enabled, byAi \in BOOLEAN : Create(r, o, b, v, quantity, shade, enabled, byAi)
           \/ \E r \in Request, o \in Order : Cancel(r, o) \/ Approve(r, o)
           \/ \E r \in Request : CommitRequest(r)
           \/ \E r \in Request : FailRequest(r)
           \/ Editing
BY Zenon DEF CatalogNext, Editing

LEMMA StepCatalogStructure == CatalogStructure /\ [CatalogNext]_catalogVars => CatalogStructure'
<1> SUFFICES ASSUME CatalogStructure, [CatalogNext]_catalogVars PROVE CatalogStructure'
    OBVIOUS
<1>1. CASE UNCHANGED catalogVars
    <2>1. CatalogTypeOK'
        <3> USE DEF Plan, PlacedLine
        <3>1. (\A q \in Running : \E S, T \in SUBSET Unit : request[q] \in Plan(S, T))'
            BY <1>1 DEF CatalogStructure, CatalogTypeOK, Running, catalogVars
        <3>2. QED
            BY <1>1, <3>1 DEF CatalogStructure, CatalogTypeOK, Plain, catalogVars
    <2>2. Rooms'
        <3> USE DEF PlacedLine
        <3>1. QED
            BY <1>1 DEF CatalogStructure, Rooms, Running, Ordering, catalogVars
    <2>3. QED
        BY <2>1, <2>2 DEF CatalogStructure
<1>2. CASE CatalogNext
    <2>1. CASE \E r \in Request, o \in FreshOrder, b \in Buyer, v \in Variant, quantity \in Quantity,
                  shade \in Shade \cup {NoShade}, enabled, byAi \in BOOLEAN : Create(r, o, b, v, quantity, shade, enabled, byAi)
        BY <2>1, StructureCreate
    <2>2. CASE \E r \in Request, o \in Order : Cancel(r, o) \/ Approve(r, o)
        BY <2>2, StructureClose
    <2>3. CASE \E r \in Request : CommitRequest(r)
        BY <2>3, StructureCommit
    <2>4. CASE \E r \in Request : FailRequest(r)
        BY <2>4, StructureFail
    <2>5. CASE Editing
        BY <2>5, StructureEdit
    <2>6. QED
        BY <1>2, <2>1, <2>2, <2>3, <2>4, <2>5, CatalogSteps
<1>3. QED
    BY <1>1, <1>2

LEMMA InitCatalogStructure == CatalogInit => CatalogStructure
<1> SUFFICES ASSUME CatalogInit PROVE CatalogStructure
    OBVIOUS
<1>1. Running = {} /\ Ordering = {}
    BY DEF CatalogInit, Running, Ordering
<1>2. CatalogTypeOK
    BY <1>1, CatalogAssumption DEF CatalogInit, CatalogTypeOK, Where
<1>3. QED
    BY <1>1, <1>2 DEF CatalogStructure, Rooms

\* Every variable of the catalogue keeps its type: whatever a request is about to commit are numbers of
\* rows of the catalogue, and no combo is ever made of combos (catalog/service.py, orders/service.py).
THEOREM CatalogTyped == CatalogSpec => []CatalogTypeOK
<1>1. CatalogStructure => CatalogTypeOK
    BY DEF CatalogStructure
<1>2. QED
    BY <1>1, InitCatalogStructure, StepCatalogStructure, PTL DEF CatalogSpec

-----------------------------------------------------------------------------
(* One open order per customer.                                            *)

\* A request that has had no rival closes all that its customer has open.
Alone ==
    \A r \in Ordering : request[r].line.buyer \notin doubled /\ ~request[r].rival
                          => OrdersOf(request[r].line.buyer) \subseteq request[r].closes

OneInv == CatalogStructure /\ Alone /\ OneOpenOrder

LEMMA FewerOrders ==
    ASSUME NEW S, NEW T, IsFiniteSet(T), S \subseteq T, Cardinality(T) <= 1
    PROVE  Cardinality(S) <= 1
<1>1. IsFiniteSet(S) /\ Cardinality(S) <= Cardinality(T)
    BY FS_Subset
<1>2. Cardinality(S) \in Nat /\ Cardinality(T) \in Nat
    BY <1>1, FS_CardinalityType
<1>3. QED
    BY <1>1, <1>2

LEMMA OneAtMost == ASSUME NEW S, NEW x, S \subseteq {x} PROVE Cardinality(S) <= 1
<1>1. IsFiniteSet({x}) /\ Cardinality({x}) = 1
    BY FS_Singleton
<1>2. QED
    BY <1>1, FewerOrders

LEMMA OneEdit == ASSUME OneInv, Editing PROVE Alone' /\ OneOpenOrder'
<1>1. CatalogTypeOK /\ CatalogStructure /\ Alone /\ OneOpenOrder /\ OrdersKept /\ request' = request /\ doubled' = doubled
    BY EditingEdits DEF OneInv, CatalogStructure, Edited
<1>2. Ordering' = Ordering
    BY <1>1 DEF Ordering, Running
<1>3. ASSUME NEW b PROVE OrdersOf(b)' = OrdersOf(b)
    BY <1>1 DEF OrdersKept, OrdersOf, Standing, Unused
<1>4. OneOpenOrder'
    <2>1. ASSUME NEW b \in Buyer \ doubled' PROVE Cardinality(OrdersOf(b)') <= 1
        BY <1>1, <1>3 DEF OneOpenOrder
    <2>2. QED
        BY <2>1 DEF OneOpenOrder
<1>5. Alone'
    <2>1. ASSUME NEW r \in Ordering', NEW b, b = request'[r].line.buyer, b \notin doubled', ~request'[r].rival
          PROVE  OrdersOf(b)' \subseteq request'[r].closes
        BY <1>1, <1>2, <1>3, <2>1 DEF Alone
    <2>2. QED
        BY <2>1 DEF Alone
<1>6. QED
    BY <1>4, <1>5

LEMMA OneCreate ==
    ASSUME OneInv, NEW r \in Request, NEW o \in FreshOrder, NEW b \in Buyer, NEW v \in Variant,
           NEW quantity \in Quantity, NEW shade \in Shade \cup {NoShade}, NEW enabled, NEW byAi,
           Create(r, o, b, v, quantity, shade, enabled, byAi)
    PROVE  Alone' /\ OneOpenOrder'
<1> DEFINE plan == OrderPlan(o, b, v, quantity, shade, OrdersOf(b))
<1>1. CatalogTypeOK /\ Alone /\ OneOpenOrder /\ o \in Order
    BY DEF OneInv, CatalogStructure, FreshOrder
<1>2. Prepare(r, plan)
    BY <1>1, CreateIsPlan
<1>3. plan.stage = "open" /\ plan.closes = OrdersOf(b) /\ plan.line.buyer = b
    BY DEF OrderPlan
<1> HIDE DEF plan
<1>4. /\ UNCHANGED <<placed, doubled>> /\ request'[r] = plan /\ Running' = Running \cup {r}
      /\ \A q \in Running : request'[q] = request[q]
    BY <1>1, <1>2, <1>3, Prepared
<1>5. \A q \in Ordering' : q = r \/ (q \in Ordering /\ request'[q] = request[q])
    BY <1>4 DEF Ordering
<1>6. \A c : OrdersOf(c)' = OrdersOf(c)
    BY <1>4 DEF OrdersOf, Standing
<1>7. Alone'
    <2>1. ASSUME NEW q \in Ordering', NEW c, c = request'[q].line.buyer, c \notin doubled', ~request'[q].rival
          PROVE  OrdersOf(c)' \subseteq request'[q].closes
        <3>1. CASE q = r
            BY <1>3, <1>4, <1>6, <2>1, <3>1
        <3>2. CASE q # r
            BY <1>1, <1>4, <1>5, <1>6, <2>1, <3>2 DEF Alone
        <3>3. QED
            BY <3>1, <3>2
    <2>2. QED
        BY <2>1 DEF Alone
<1>8. OneOpenOrder'
    <2>1. ASSUME NEW c \in Buyer \ doubled' PROVE Cardinality(OrdersOf(c)') <= 1
        BY <1>1, <1>4, <1>6 DEF OneOpenOrder
    <2>2. QED
        BY <2>1 DEF OneOpenOrder
<1>9. QED
    BY <1>7, <1>8

\* Nothing of it is touched by a request that gives up or begins to close an order.
LEMMA OneQuiet ==
    ASSUME OneInv, UNCHANGED <<placed, doubled>>, \A q \in Ordering' : q \in Ordering /\ request'[q] = request[q]
    PROVE  Alone' /\ OneOpenOrder'
<1>1. \A c : OrdersOf(c)' = OrdersOf(c)
    BY DEF OrdersOf, Standing
<1>2. Alone'
    <2>1. ASSUME NEW q \in Ordering', NEW c, c = request'[q].line.buyer, c \notin doubled', ~request'[q].rival
          PROVE  OrdersOf(c)' \subseteq request'[q].closes
        BY <1>1, <2>1 DEF OneInv, Alone
    <2>2. QED
        BY <2>1 DEF Alone
<1>3. OneOpenOrder'
    <2>1. ASSUME NEW c \in Buyer \ doubled' PROVE Cardinality(OrdersOf(c)') <= 1
        BY <1>1 DEF OneInv, OneOpenOrder
    <2>2. QED
        BY <2>1 DEF OneOpenOrder
<1>4. QED
    BY <1>2, <1>3

LEMMA Closing ==
    ASSUME CatalogTypeOK, NEW r \in Request, NEW o \in Order, Cancel(r, o) \/ Approve(r, o)
    PROVE  /\ o \in Standing /\ UNCHANGED <<unit, content, shelved, placed, edits, blurred, doubled>>
           /\ Running' = Running \cup {r} /\ request'[r].stage = "close"
           /\ request'[r].booked = Unbooked(o) /\ request'[r].closes = {o} /\ r \notin Running
           /\ \A q \in Running : request'[q] = request[q]
<1>1. o \in Standing /\ \E stock : Prepare(r, ClosePlan({o}, Unbooked(o), stock))
    BY CloseIsPlan
<1>2. PICK stock : Prepare(r, ClosePlan({o}, Unbooked(o), stock))
    BY <1>1
<1> DEFINE plan == ClosePlan({o}, Unbooked(o), stock)
<1>3. plan.stage = "close" /\ plan.closes = {o} /\ plan.booked = Unbooked(o) /\ Prepare(r, plan)
    BY <1>2 DEF ClosePlan
<1> HIDE DEF plan
<1>4. QED
    BY <1>1, <1>3, Prepared

LEMMA OneCommit == ASSUME OneInv, NEW r \in Request, CommitRequest(r) PROVE Alone' /\ OneOpenOrder'
<1>1. CatalogTypeOK /\ Rooms /\ Alone /\ OneOpenOrder /\ r \in Running /\ doubled \subseteq doubled'
    BY DEF OneInv, CatalogStructure, CommitRequest
<1>2. ASSUME NEW b, NEW o \in OrdersOf(b)', o \notin OrdersOf(b) \ request[r].closes
      PROVE  r \in Ordering /\ o = request[r].order /\ request[r].line.buyer = b
    <2>1. o \in Order /\ placed'[o].status = "open" /\ placed'[o].buyer = b
        BY <1>2 DEF OrdersOf, Standing
    <2>2. o \notin request[r].closes
        <3>1. ASSUME o \in request[r].closes PROVE FALSE
            <4>1. placed'[o].status = "closed"
                BY <1>1, <2>1, <3>1, CommitPlaces
            <4>2. QED
                BY <2>1, <4>1
        <3>2. QED
            BY <3>1
    <2>3. placed'[o] = IF r \in Ordering /\ o = request[r].order THEN request[r].line ELSE placed[o]
        BY <1>1, <2>1, <2>2, CommitPlaces
    <2>4. placed'[o] # placed[o]
        BY <1>2, <2>1, <2>2 DEF OrdersOf, Standing
    <2>5. QED
        BY <2>1, <2>3, <2>4
<1>3. ASSUME NEW b \in Buyer \ doubled' PROVE Cardinality(OrdersOf(b)') <= 1
    <2>1. CASE r \in Ordering /\ request[r].line.buyer = b
        <3>1. ~request[r].rival
            BY <1>3, <2>1 DEF CommitRequest, Ordering
        <3>2. OrdersOf(b) \subseteq request[r].closes
            BY <1>1, <1>3, <2>1, <3>1 DEF Alone
        <3>3. OrdersOf(b)' \subseteq {request[r].order}
            BY <1>2, <3>2
        <3>4. QED
            BY <3>3, OneAtMost
    <2>2. CASE ~(r \in Ordering /\ request[r].line.buyer = b)
        <3>1. OrdersOf(b)' \subseteq OrdersOf(b)
            BY <1>2, <2>2
        <3>2. Cardinality(OrdersOf(b)) <= 1
            BY <1>1, <1>3 DEF OneOpenOrder
        <3>3. IsFiniteSet(OrdersOf(b))
            BY OrderFinite, FS_Subset DEF OrdersOf, Standing
        <3>4. QED
            BY <3>1, <3>2, <3>3, FewerOrders
    <2>3. QED
        BY <2>1, <2>2
<1>4. ASSUME NEW q \in Ordering', NEW b, b = request'[q].line.buyer, b \notin doubled', ~request'[q].rival
      PROVE  OrdersOf(b)' \subseteq request'[q].closes
    <2>1. q \in Ordering /\ q # r
        BY <1>1, OpeningAfter
    <2>2. q \in Running'
        BY DEF Ordering
    <2>3. /\ request'[q].line = request[q].line /\ request'[q].closes = request[q].closes
          /\ request'[q].rival = (request[q].rival \/ Hit(r, q))
        BY <1>1, <2>2, PassedFields
    <2>4. OrdersOf(b) \subseteq request[q].closes
        BY <1>1, <1>4, <2>1, <2>3 DEF Alone
    <2>5. ~Hit(r, q)
        BY <1>4, <2>3
    <2>6. ~(r \in Ordering /\ request[r].line.buyer = b)
        BY <1>4, <2>1, <2>3, <2>5 DEF Hit
    <2>7. OrdersOf(b)' \subseteq OrdersOf(b)
        BY <1>2, <2>6
    <2>8. QED
        BY <2>3, <2>4, <2>7
<1>5. QED
    BY <1>3, <1>4 DEF Alone, OneOpenOrder

LEMMA StepOne == OneInv /\ [CatalogNext]_catalogVars => OneInv'
<1> SUFFICES ASSUME OneInv, [CatalogNext]_catalogVars PROVE OneInv'
    OBVIOUS
<1>1. CatalogStructure'
    BY StepCatalogStructure DEF OneInv
<1>2. Alone' /\ OneOpenOrder'
    <2>1. CASE UNCHANGED catalogVars
        <3>1. UNCHANGED <<placed, doubled>> /\ \A q \in Ordering' : q \in Ordering /\ request'[q] = request[q]
            BY <2>1 DEF catalogVars, Ordering, Running
        <3>2. QED
            BY <3>1, OneQuiet
    <2>2. CASE \E r \in Request, o \in FreshOrder, b \in Buyer, v \in Variant, quantity \in Quantity,
                  shade \in Shade \cup {NoShade}, enabled, byAi \in BOOLEAN : Create(r, o, b, v, quantity, shade, enabled, byAi)
        BY <2>2, OneCreate
    <2>3. CASE \E r \in Request, o \in Order : Cancel(r, o) \/ Approve(r, o)
        <3>1. UNCHANGED <<placed, doubled>> /\ \A q \in Ordering' : q \in Ordering /\ request'[q] = request[q]
            BY <2>3, Closing DEF OneInv, CatalogStructure, Ordering
        <3>2. QED
            BY <3>1, OneQuiet
    <2>4. CASE \E r \in Request : CommitRequest(r)
        BY <2>4, OneCommit
    <2>5. CASE \E r \in Request : FailRequest(r)
        <3>1. UNCHANGED <<placed, doubled>> /\ \A q \in Ordering' : q \in Ordering /\ request'[q] = request[q]
            BY <2>5, Failed DEF OneInv, CatalogStructure
        <3>2. QED
            BY <3>1, OneQuiet
    <2>6. CASE Editing
        BY <2>6, OneEdit
    <2>7. QED
        BY <2>1, <2>2, <2>3, <2>4, <2>5, <2>6, CatalogSteps
<1>3. QED
    BY <1>1, <1>2 DEF OneInv

\* Only requests that ran at once leave a customer two open orders (create_order in orders/service.py):
\* a request that had no rival closes all that its customer has open, whatever else runs beside it.
THEOREM OneOrderOpen == CatalogSpec => []OneOpenOrder
<1>1. CatalogInit => OneInv
    <2> SUFFICES ASSUME CatalogInit PROVE OneInv
        OBVIOUS
    <2>1. CatalogStructure
        BY InitCatalogStructure
    <2>2. Ordering = {}
        BY DEF CatalogInit, Ordering, Running
    <2>3. ASSUME NEW b PROVE Cardinality(OrdersOf(b)) <= 1
        <3>1. OrdersOf(b) = {}
            BY DEF CatalogInit, OrdersOf, Standing, Unused
        <3>2. QED
            BY <3>1, FS_EmptySet
    <2>4. QED
        BY <2>1, <2>2, <2>3 DEF OneInv, Alone, OneOpenOrder
<1>2. OneInv => OneOpenOrder
    BY DEF OneInv
<1>3. QED
    BY <1>1, <1>2, StepOne, PTL DEF CatalogSpec

-----------------------------------------------------------------------------
(* What is reserved of a unit is what the open orders took of it.          *)

\* A line that was taken: it holds something, and what it names is there.
LineStands(l) ==
    /\ l.holds # {} /\ \A x \in l.holds : Listed(x)
    /\ Listed(l.variant) /\ (l.shade # NoShade => Listed(l.shade))

\* Whatever somebody has got hold of is a row of the catalogue.
Referred ==
    /\ \A c \in Combo : \A x \in content[c] : Listed(x)
    /\ \A o \in Standing : LineStands(placed[o])
    /\ \A r \in Ordering : LineStands(request[r].line)
    /\ \A r \in Running : \A x \in DOMAIN request[r].booked : Listed(x)

\* What a release would find for a line.
HeldOf(l) == Targets(l.variant) \cup ({l.shade} \cap Live)

\* The units of which the books are kept.
Sharp == Live \ blurred

FoundAgain(l) == \A x \in Sharp : x \in HeldOf(l) <=> x \in l.holds

Looks == (\A o \in Standing : FoundAgain(placed[o])) /\ \A r \in Ordering : FoundAgain(request[r].line)

Holders(S, x) == {o \in S : x \in placed[o].holds}
Total(S, x) == SumFunctionOnSet(Quantities, Holders(S, x))

\* What a request adds of x for its own order, and what it knows of the others.
Own(r, x) == IF r \in Ordering /\ x \in request[r].line.holds THEN request[r].line.quantity ELSE 0

Reckons(r, x) ==
    /\ x \in DOMAIN request[r].booked \ request[r].late =>
          request[r].booked[x] = Own(r, x) + Total(Standing \ request[r].closes, x)
    /\ x \notin DOMAIN request[r].booked =>
          /\ \A o \in request[r].closes \cap Standing : x \notin placed[o].holds
          /\ r \in Ordering => x \notin request[r].line.holds

Counted == \A r \in Running : \A x \in Sharp : Reckons(r, x)

BookInv == CatalogStructure /\ Referred /\ Looks /\ Counted /\ BookedIsOpen

LEMMA SharpUnit == Sharp \subseteq Unit /\ Sharp \subseteq Live /\ \A x \in Live : Listed(x)
BY DEF Sharp, Live, Listed

Balanced == \A x \in Sharp : unit[x].booked = Total(Standing, x)

LEMMA BookedTotal == BookedIsOpen <=> Balanced
BY DEF BookedIsOpen, Balanced, Sharp, Total, Holders

LEMMA StandingLine == ASSUME CatalogTypeOK, NEW o \in Standing PROVE placed[o] \in PlacedLine /\ o \in Order
BY DEF CatalogTypeOK, Standing, Unused

LEMMA TotalFacts ==
    ASSUME CatalogTypeOK, NEW S \in SUBSET Standing, NEW x
    PROVE  /\ Total(S, x) \in Nat
           /\ Holders(S, x) = {} => Total(S, x) = 0
           /\ Holders(S, x) # {} => Total(S, x) > 0
<1> DEFINE T == Holders(S, x)
<1>1. T \in SUBSET Standing
    BY DEF Holders
<1>2. IsFiniteSet(T) /\ \A o \in T : Quantities[o] \in Nat \ {0}
    <2> HIDE DEF T
    <2>1. QED
        BY <1>1, QuantitiesNat
<1> HIDE DEF T
<1>3. SumFunctionOnSet(Quantities, T) \in Nat
    BY <1>2, SumNat
<1>4. T = {} => SumFunctionOnSet(Quantities, T) = 0
    BY <1>2, SumUnfold
<1>5. ASSUME NEW o \in T PROVE SumFunctionOnSet(Quantities, T) > 0
    <2>1. \A z \in T : Quantities[z] \in Nat
        BY <1>2
    <2>2. T \in SUBSET T
        OBVIOUS
    <2>3. SumFunctionOnSet(Quantities, T) = Quantities[o] + SumFunctionOnSet(Quantities, T \ {o})
        BY <1>2, <2>1, <2>2, SumTake
    <2>4. SumFunctionOnSet(Quantities, T \ {o}) \in Nat
        <3>1. T \ {o} \in SUBSET T
            OBVIOUS
        <3>2. IsFiniteSet(T \ {o}) /\ \A z \in T \ {o} : Quantities[z] \in Nat
            BY <1>2, <2>1, <3>1, FS_Subset
        <3>3. QED
            BY <3>2, SumNat
    <2>5. Quantities[o] \in Nat \ {0}
        BY <1>2
    <2>6. QED
        BY <2>3, <2>4, <2>5
<1>6. QED
    BY <1>3, <1>4, <1>5 DEF Total, T

\* The books of a unit without some of the orders.
LEMMA TotalWithout ==
    ASSUME CatalogTypeOK, NEW S \in SUBSET Standing, NEW x
    PROVE  Total(Standing, x) = Total(S, x) + Total(Standing \ S, x)
<1> DEFINE B == Holders(Standing, x)
           A == Holders(S, x)
<1>1. B \in SUBSET Standing /\ A \in SUBSET B /\ B \ A = Holders(Standing \ S, x)
    BY DEF Holders
<1> HIDE DEF A, B
<1>2. IsFiniteSet(B) /\ \A o \in B : Quantities[o] \in Nat
    BY <1>1, QuantitiesNat
<1>3. SumFunctionOnSet(Quantities, B) = SumFunctionOnSet(Quantities, A) + SumFunctionOnSet(Quantities, B \ A)
    BY <1>1, <1>2, SumPart
<1>4. QED
    BY <1>1, <1>3 DEF Total, A, B

LEMMA OwedIsTotal ==
    ASSUME CatalogTypeOK, Looks, NEW S \in SUBSET Standing, NEW x \in Sharp
    PROVE  Owed(x, S) = Total(S, x)
<1>1. {o \in S : x \in Held(o)} = Holders(S, x)
    BY DEF Looks, FoundAgain, Held, HeldOf, Holders
<1>2. QED
    BY <1>1 DEF Owed, Total

LEMMA ReleasedIs ==
    ASSUME CatalogTypeOK, Looks, BookedIsOpen, NEW S \in SUBSET Standing, NEW x \in Sharp
    PROVE  /\ Released(S)[x] = Total(Standing \ S, x)
           /\ x \notin Touched(S) => Holders(S, x) = {}
<1> DEFINE a == Total(S, x)
           b == Total(Standing \ S, x)
<1>1. x \in Unit /\ unit[x].booked = Total(Standing, x) /\ Owed(x, S) = a
    BY BookedTotal, SharpUnit, OwedIsTotal DEF Balanced
<1>2. Total(Standing, x) = a + b
    BY TotalWithout
<1>3. a \in Nat /\ b \in Nat /\ (Holders(S, x) # {} => a > 0)
    BY TotalFacts
<1>4. Released(S)[x] = Less(unit[x].booked, Owed(x, S))
    BY <1>1 DEF Released
<1>5. x \in Touched(S) <=> Owed(x, S) > 0 /\ unit[x].booked > 0
    BY <1>1 DEF Touched
<1> HIDE DEF a, b
<1>6. Less(a + b, a) = b
    BY <1>3 DEF Less
<1>7. QED
    BY <1>1, <1>2, <1>3, <1>4, <1>5, <1>6 DEF b

-----------------------------------------------------------------------------
(* The books and the steps of the catalogue.                               *)

LEMMA SameContent ==
    ASSUME Editing, ~ \E c \in Combo : (\E S \in SUBSET Variant : CreateCombo(c, S)) \/ \E v \in Variant : AddComboItem(c, v) \/ RemoveComboItem(c, v)
    PROVE  content' = content
BY DEF Editing, CreateProduct, CreateBox, SeedBoxes, AddRows, Switch, AdjustStock, DeleteProduct, DeleteBox, DeleteCategory, DeleteCombo

\* A combo gets components that are on sale only.
LEMMA ContentAfter ==
    ASSUME CatalogTypeOK, Editing, NEW c \in Combo
    PROVE  /\ \A x \in content'[c] : x \in content[c] \/ Listed(x)
           /\ (\E v \in VariantsOf(c) : Listed(v)) =>
                 \/ content'[c] = content[c]
                 \/ \E v \in Variant : AddComboItem(c, v) /\ content'[c] = content[c] \cup {v}
                 \/ \E v \in Variant : RemoveComboItem(c, v) /\ content'[c] = content[c] \ {v}
<1>1. \A v \in Variant : Component(v) => Listed(v)
    BY CatalogAssumption DEF Component, Listed, Unit
<1>2. CASE content' = content
    BY <1>2
<1>3. CASE \E d \in Combo, S \in SUBSET Variant : CreateCombo(d, S)
    <2>1. PICK d \in Combo, S \in SUBSET Variant : CreateCombo(d, S)
        BY <1>3
    <2>2. content' = [content EXCEPT ![d] = S] /\ (\A v \in S : Component(v)) /\ \A v \in VariantsOf(d) : unit[v].at = "none"
        BY <2>1 DEF CreateCombo
    <2>3. QED
        BY <1>1, <2>2 DEF CatalogTypeOK, Listed
<1>4. CASE \E d \in Combo, v \in Variant : AddComboItem(d, v)
    <2>1. PICK d \in Combo, v \in Variant : AddComboItem(d, v)
        BY <1>4
    <2>2. content' = [content EXCEPT ![d] = @ \cup {v}] /\ Component(v)
        BY <2>1 DEF AddComboItem
    <2>3. CASE c = d
        BY <1>1, <2>1, <2>2, <2>3 DEF CatalogTypeOK
    <2>4. CASE c # d
        BY <2>2, <2>4 DEF CatalogTypeOK
    <2>5. QED
        BY <2>3, <2>4
<1>5. CASE \E d \in Combo, v \in Variant : RemoveComboItem(d, v)
    <2>1. PICK d \in Combo, v \in Variant : RemoveComboItem(d, v)
        BY <1>5
    <2>2. content' = [content EXCEPT ![d] = @ \ {v}]
        BY <2>1 DEF RemoveComboItem
    <2>3. CASE c = d
        BY <2>1, <2>2, <2>3 DEF CatalogTypeOK
    <2>4. CASE c # d
        BY <2>2, <2>4 DEF CatalogTypeOK
    <2>5. QED
        BY <2>3, <2>4
<1>6. QED
    BY <1>2, <1>3, <1>4, <1>5, SameContent

LEMMA ListedKept == ASSUME RowsKept, NEW x, Listed(x) PROVE Listed(x)'
BY DEF RowsKept, Listed

LEMMA LineStandsKept ==
    ASSUME RowsKept, NEW l, LineStands(l), NEW k, k.holds = l.holds, k.variant = l.variant, k.shade \in {l.shade, NoShade}
    PROVE  LineStands(k)'
BY ListedKept DEF LineStands

LEMMA SameStanding ==
    ASSUME OrdersKept
    PROVE  Standing' = Standing /\ \A o \in Standing : /\ placed'[o].holds = placed[o].holds /\ placed'[o].variant = placed[o].variant
                                                       /\ placed'[o].quantity = placed[o].quantity
                                                       /\ placed'[o].shade \in {placed[o].shade, NoShade}
BY DEF OrdersKept, Standing, Unused

LEMMA ReferredEdit == ASSUME CatalogStructure, Referred, Editing PROVE Referred'
<1>1. CatalogTypeOK /\ RowsKept /\ OrdersKept /\ request' = request
    BY EditingEdits DEF CatalogStructure, Edited
<1>2. Running' = Running /\ Ordering' = Ordering
    BY <1>1 DEF Running, Ordering
<1>3. ASSUME NEW c \in Combo, NEW x \in content'[c] PROVE Listed(x)'
    <2>1. Listed(x)
        BY <1>1, <1>3, ContentAfter DEF Referred
    <2>2. QED
        BY <1>1, <2>1, ListedKept
<1>4. ASSUME NEW o \in Standing', NEW k, k = placed'[o] PROVE LineStands(k)'
    <2>1. o \in Standing /\ k.holds = placed[o].holds /\ k.variant = placed[o].variant /\ k.shade \in {placed[o].shade, NoShade}
        BY <1>1, <1>4, SameStanding
    <2>2. PICK l : l = placed[o]
        OBVIOUS
    <2>3. LineStands(l)
        BY <2>1, <2>2 DEF Referred
    <2>4. QED
        BY <1>1, <2>1, <2>2, <2>3, LineStandsKept
<1>5. ASSUME NEW r \in Ordering', NEW k, k = request'[r].line PROVE LineStands(k)'
    <2>1. LineStands(k)
        BY <1>1, <1>2, <1>5 DEF Referred
    <2>2. QED
        BY <1>1, <2>1, LineStandsKept
<1>6. ASSUME NEW r \in Running', NEW x \in DOMAIN request'[r].booked PROVE Listed(x)'
    BY <1>1, <1>2, <1>6, ListedKept DEF Referred
<1>7. QED
    BY <1>3, <1>4, <1>5, <1>6 DEF Referred

\* A variant dies with its product or with its combo.
LEMMA DeadVariant ==
    ASSUME CatalogTypeOK, Editing, NEW v \in Variant, v \in Live, v \notin Live'
    PROVE  Owner[v] \notin Combo \/ \E c \in Combo : v \in VariantsOf(c) /\ DeleteCombo(c)
<1>1. v \in Unit /\ unit[v].at \in {"on", "off"} /\ unit'[v].at \notin {"on", "off"}
    BY DEF Live
<1>2. v \notin Shade
    BY CatalogAssumption
<1>3. CASE \/ \E p \in Product, S \in SUBSET Variant, n \in Level : CreateProduct(p, S, n)
           \/ \E b \in Shade, n \in Level : CreateBox(b, n)
           \/ \E n \in Level : SeedBoxes(n)
           \/ \E c \in Combo, S \in SUBSET Variant : CreateCombo(c, S)
    <2>1. PICK S, n : unit' = [x \in Unit |-> IF x \in S THEN NewRow(n) ELSE unit[x]]
        BY <1>3 DEF CreateProduct, CreateBox, SeedBoxes, AddRows, CreateCombo
    <2>2. QED
        BY <1>1, <2>1 DEF NewRow
<1>4. CASE \E x \in Unit : Switch(x)
    <2>1. PICK x \in Unit, a \in {"on", "off"} : unit' = Put({x}, a)
        BY <1>4 DEF Switch
    <2>2. unit'[v].at = IF v \in {x} THEN a ELSE unit[v].at
        BY <1>1, <2>1, PutTyped DEF Where
    <2>3. QED
        BY <1>1, <2>2
<1>5. CASE \E x \in Unit, n \in Level : AdjustStock(x, n)
    <2>1. PICK x \in Unit, n \in Level : unit' = [unit EXCEPT ![x].stock = n]
        BY <1>5 DEF AdjustStock
    <2>2. unit'[v].at = unit[v].at
        BY <1>1, <2>1 DEF CatalogTypeOK
    <2>3. QED
        BY <1>1, <2>2
<1>6. CASE \E p \in Product : DeleteProduct(p)
    <2>1. PICK p \in Product : p \notin Combo /\ unit' = Put(VariantsOf(p), "deleted")
        BY <1>6 DEF DeleteProduct
    <2>2. unit'[v].at = IF v \in VariantsOf(p) THEN "deleted" ELSE unit[v].at
        BY <1>1, <2>1, PutTyped DEF Where
    <2>3. QED
        BY <1>1, <2>1, <2>2 DEF VariantsOf
<1>7. CASE (\E b \in Shade : DeleteBox(b)) \/ DeleteCategory
    <2>1. PICK S \in SUBSET Shade, a \in {"deleted", "gone"} : unit' = Put(S, a)
        BY <1>7 DEF DeleteBox, DeleteCategory
    <2>2. unit'[v].at = IF v \in S THEN a ELSE unit[v].at
        BY <1>1, <2>1, PutTyped DEF Where
    <2>3. QED
        BY <1>1, <1>2, <2>2
<1>8. CASE \E c \in Combo : DeleteCombo(c)
    <2>1. PICK c \in Combo : DeleteCombo(c)
        BY <1>8
    <2>2. unit' = Put(VariantsOf(c), "deleted")
        BY <2>1 DEF DeleteCombo
    <2>3. unit'[v].at = IF v \in VariantsOf(c) THEN "deleted" ELSE unit[v].at
        BY <1>1, <2>2, PutTyped DEF Where
    <2>4. QED
        BY <1>1, <2>1, <2>3
<1>9. CASE \E c \in Combo, w \in Variant : AddComboItem(c, w) \/ RemoveComboItem(c, w)
    <2>1. unit' = unit
        BY <1>9 DEF AddComboItem, RemoveComboItem
    <2>2. QED
        BY <1>1, <2>1
<1>10. QED
    BY <1>3, <1>4, <1>5, <1>6, <1>7, <1>8, <1>9 DEF Editing

\* What a release finds of x for a variant changes only where the change is put down.
LEMMA TargetsAfter ==
    ASSUME CatalogStructure, Editing, NEW v \in Variant, Listed(v), NEW x \in Sharp'
    PROVE  \/ x \in Targets(v)' <=> x \in Targets(v)
           \/ \E c \in Combo : v \in VariantsOf(c) /\ x \notin HeldFor(c) /\ x \notin Targets(v)'
           \/ \E c \in Combo : v \in VariantsOf(c) /\ HeldFor(c) = {}
<1>1. CatalogTypeOK /\ RowsKept /\ x \in Live' /\ x \notin blurred' /\ v \in Unit
    BY EditingEdits DEF CatalogStructure, Edited, Sharp, Listed
<1>2. v \in Live' => v \in Live
    BY <1>1 DEF RowsKept
<1>3. CASE v \notin Live
    BY <1>2, <1>3 DEF Targets
<1>4. CASE v \in Live /\ v \notin Live'
    <2>1. Targets(v)' = {}
        BY <1>4 DEF Targets
    <2>2. CASE Owner[v] \notin Combo
        <3>1. Targets(v) = {v}
            BY <1>4, <2>2 DEF Targets
        <3>2. QED
            BY <1>1, <1>4, <2>1, <3>1
    <2>3. CASE \E c \in Combo : v \in VariantsOf(c) /\ DeleteCombo(c)
        BY <1>1, <2>1, <2>3 DEF DeleteCombo, Edit
    <2>4. QED
        BY <1>1, <1>4, <2>2, <2>3, DeadVariant
<1>5. CASE v \in Live /\ v \in Live' /\ Owner[v] \notin Combo
    BY <1>5 DEF Targets
<1>6. CASE v \in Live /\ v \in Live' /\ Owner[v] \in Combo
    <2>1. PICK c \in Combo : c = Owner[v] /\ v \in VariantsOf(c)
        BY <1>6 DEF VariantsOf
    <2>2. Targets(v) = content[c] /\ Targets(v)' = content'[c]
        BY <1>6, <2>1 DEF Targets
    <2>3. CASE content'[c] = content[c]
        BY <2>2, <2>3
    <2>4. CASE \E w \in Variant : AddComboItem(c, w) /\ content'[c] = content[c] \cup {w}
        BY <1>1, <2>1, <2>2, <2>4 DEF AddComboItem, Edit
    <2>5. CASE \E w \in Variant : RemoveComboItem(c, w) /\ content'[c] = content[c] \ {w}
        BY <1>1, <2>1, <2>2, <2>5 DEF RemoveComboItem, Edit
    <2>6. QED
        BY <1>1, <2>1, <2>3, <2>4, <2>5, ContentAfter
<1>7. QED
    BY <1>3, <1>4, <1>5, <1>6

LEMMA FoundAfter ==
    ASSUME CatalogStructure, Referred, Editing, NEW l \in PlacedLine, LineStands(l), FoundAgain(l),
           \A c \in Combo : l.variant \in VariantsOf(c) => l.holds \subseteq HeldFor(c),
           NEW k, k.variant = l.variant, k.holds = l.holds,
           k.shade = l.shade \/ (k.shade = NoShade /\ l.shade \notin Live')
    PROVE  FoundAgain(k)'
<1>1. CatalogTypeOK /\ RowsKept /\ blurred \subseteq blurred'
    BY EditingEdits DEF CatalogStructure, Edited
<1>2. l.variant \in Variant /\ l.holds # {} /\ Listed(l.variant) /\ NoShade \notin Unit
    BY CatalogAssumption DEF PlacedLine, LineStands
<1>3. ASSUME NEW x \in Sharp' PROVE x \in HeldOf(k)' <=> x \in k.holds
    <2>1. x \in Live' /\ x \notin blurred' /\ x \in Unit
        BY <1>3 DEF Sharp, Live
    <2>2. x \in HeldOf(k)' <=> x \in Targets(l.variant)' \/ x = k.shade
        BY <2>1 DEF HeldOf
    <2>3. x = k.shade <=> x = l.shade
        BY <1>2, <2>1
    <2>4. CASE ~Listed(x)
        <3>1. x \notin l.holds /\ x # l.shade
            BY <1>2, <2>1, <2>4 DEF LineStands
        <3>2. x \notin Targets(l.variant)'
            <4>1. CASE Owner[l.variant] \notin Combo
                BY <1>2, <2>4, <4>1 DEF Targets
            <4>2. CASE Owner[l.variant] \in Combo
                <5>1. PICK c \in Combo : c = Owner[l.variant] /\ l.variant \in VariantsOf(c)
                    BY <1>2, <4>2 DEF VariantsOf
                <5>2. x \notin content[c]
                    BY <2>4 DEF Referred
                <5>3. x \notin content'[c]
                    BY <1>1, <2>4, <5>2, ContentAfter
                <5>4. QED
                    BY <5>1, <5>3 DEF Targets
            <4>3. QED
                BY <4>1, <4>2
        <3>3. QED
            BY <2>2, <2>3, <3>1, <3>2
    <2>5. CASE Listed(x)
        <3>1. x \in Sharp /\ x \in Live
            BY <1>1, <2>1, <2>5 DEF Sharp, RowsKept
        <3>2. x \in HeldOf(l) <=> x \in l.holds
            BY <3>1 DEF FoundAgain
        <3>3. x \in HeldOf(l) <=> x \in Targets(l.variant) \/ x = l.shade
            BY <3>1 DEF HeldOf
        <3>4. CASE x \in Targets(l.variant)' <=> x \in Targets(l.variant)
            BY <2>2, <2>3, <3>2, <3>3, <3>4
        <3>5. CASE \E c \in Combo : l.variant \in VariantsOf(c) /\ x \notin HeldFor(c) /\ x \notin Targets(l.variant)'
            BY <2>2, <2>3, <3>2, <3>3, <3>5
        <3>6. CASE \E c \in Combo : l.variant \in VariantsOf(c) /\ HeldFor(c) = {}
            BY <1>2, <3>6
        <3>7. QED
            BY <1>2, <3>4, <3>5, <3>6, TargetsAfter
    <2>6. QED
        BY <2>4, <2>5
<1>4. QED
    BY <1>3 DEF FoundAgain

\* A line loses its box with the box.
LEMMA ShadeAfter ==
    ASSUME CatalogTypeOK, Editing, NEW o \in Standing
    PROVE  placed'[o].shade = placed[o].shade \/ (placed'[o].shade = NoShade /\ placed[o].shade \notin Live')
<1>1. CASE placed' = placed
    BY <1>1
<1>2. CASE DeleteCategory
    <2>1. o \in Order /\ placed[o] \in PlacedLine /\ placed[o] # Unused
        BY DEF CatalogTypeOK, Standing, Unused
    <2>2. placed'[o] = [placed[o] EXCEPT !.shade = NoShade]
        BY <1>2, <2>1 DEF DeleteCategory
    <2>3. placed'[o].shade = NoShade
        BY <2>1, <2>2 DEF PlacedLine
    <2>4. ASSUME placed[o].shade \in Live' PROVE placed[o].shade = NoShade
        <3> DEFINE b == placed[o].shade
                   S == {x \in Shade : unit[x].at # "none"}
        <3>1. unit' = Put(S, "gone")
            BY <1>2 DEF DeleteCategory
        <3>2. b \in Shade \cup {NoShade} /\ b \in Unit /\ unit'[b].at \in {"on", "off"}
            BY <2>1, <2>4 DEF PlacedLine, Live
        <3> HIDE DEF b
        <3>3. unit'[b].at = IF b \in S THEN "gone" ELSE unit[b].at
            <4> HIDE DEF S
            <4>1. QED
                BY <3>1, <3>2, PutTyped DEF Where
        <3>4. b = NoShade
            BY <3>2, <3>3
        <3>5. QED
            BY <3>4 DEF b
    <2>5. QED
        BY <2>3, <2>4
<1>3. DeleteCategory \/ placed' = placed
    BY DEF Editing, CreateProduct, CreateBox, SeedBoxes, AddRows, Kept, Switch, AdjustStock, DeleteProduct, DeleteBox,
           CreateCombo, AddComboItem, RemoveComboItem, DeleteCombo
<1>4. QED
    BY <1>1, <1>2, <1>3

LEMMA LooksEdit == ASSUME CatalogStructure, Referred, Looks, Editing PROVE Looks'
<1>1. CatalogTypeOK /\ Rooms /\ OrdersKept /\ request' = request
    BY EditingEdits DEF CatalogStructure, Edited
<1>2. Ordering' = Ordering
    BY <1>1 DEF Running, Ordering
<1>3. ASSUME NEW o \in Standing', NEW k, k = placed'[o] PROVE FoundAgain(k)'
    <2>1. o \in Standing /\ k.holds = placed[o].holds /\ k.variant = placed[o].variant
        BY <1>1, <1>3, SameStanding
    <2>2. PICK l : l = placed[o]
        OBVIOUS
    <2>3. l \in PlacedLine /\ LineStands(l) /\ FoundAgain(l)
        BY <1>1, <2>1, <2>2, StandingLine DEF Referred, Looks
    <2>4. \A c \in Combo : l.variant \in VariantsOf(c) => l.holds \subseteq HeldFor(c)
        BY <2>1, <2>2, HeldForAll
    <2>5. k.shade = l.shade \/ (k.shade = NoShade /\ l.shade \notin Live')
        BY <1>1, <1>3, <2>1, <2>2, ShadeAfter
    <2>6. QED
        BY <2>1, <2>2, <2>3, <2>4, <2>5, FoundAfter
<1>4. ASSUME NEW r \in Ordering', NEW k, k = request'[r].line PROVE FoundAgain(k)'
    <2>1. r \in Ordering /\ k = request[r].line
        BY <1>1, <1>2, <1>4
    <2>2. k \in PlacedLine /\ LineStands(k) /\ FoundAgain(k)
        BY <1>1, <2>1 DEF Referred, Looks, Rooms
    <2>3. \A c \in Combo : k.variant \in VariantsOf(c) => k.holds \subseteq HeldFor(c)
        BY <2>1, HeldForAll
    <2>4. QED
        BY <2>2, <2>3, FoundAfter
<1>5. QED
    BY <1>3, <1>4 DEF Looks

\* The sum over orders that have kept their lines.
LEMMA TotalKept ==
    ASSUME CatalogTypeOK, NEW S \in SUBSET Standing, S \subseteq Standing', NEW x,
           \A o \in S : placed'[o].quantity = placed[o].quantity /\ placed'[o].holds = placed[o].holds
    PROVE  Total(S, x)' = Total(S, x)
<1>1. PICK T : T = Holders(S, x)
    OBVIOUS
<1>2. Holders(S, x)' = T /\ T \subseteq S
    BY <1>1 DEF Holders
<1>3. PICK f, g : f = Quantities /\ g = Quantities'
    OBVIOUS
<1>4. \A o \in T : f[o] = g[o]
    BY <1>2, <1>3 DEF Quantities
<1>5. IsFiniteSet(T)
    BY <1>2, QuantitiesNat
<1>6. SumFunctionOnSet(f, T) = SumFunctionOnSet(g, T)
    BY <1>4, <1>5, SumSame
<1>7. QED
    BY <1>1, <1>2, <1>3, <1>6 DEF Total

LEMMA BooksEdit == ASSUME BookInv, Editing PROVE Counted' /\ BookedIsOpen'
<1>1. /\ CatalogTypeOK /\ CatalogTypeOK' /\ Referred /\ Counted /\ BookedIsOpen
      /\ RowsKept /\ OrdersKept /\ request' = request /\ blurred \subseteq blurred'
    BY EditingEdits DEF BookInv, CatalogStructure, Edited
<1>2. Running' = Running /\ Ordering' = Ordering
    BY <1>1 DEF Running, Ordering
<1>3. Standing' = Standing /\ \A o \in Standing : placed'[o].holds = placed[o].holds /\ placed'[o].quantity = placed[o].quantity
    BY <1>1, SameStanding
<1>4. ASSUME NEW x, NEW S \in SUBSET Standing PROVE Total(S, x)' = Total(S, x)
    BY <1>1, <1>3, <1>4, TotalKept
<1>5. ASSUME NEW x \in Sharp' PROVE x \in Unit /\ (Listed(x) => x \in Sharp)
    BY <1>1 DEF Sharp, Live, RowsKept
<1>6. ASSUME NEW x, ~Listed(x)
      PROVE  /\ \A S \in SUBSET Standing : Total(S, x) = 0
             /\ \A o \in Standing : x \notin placed[o].holds
             /\ \A r \in Ordering : x \notin request[r].line.holds
             /\ \A r \in Running : x \notin DOMAIN request[r].booked
    <2>1. \A o \in Standing : x \notin placed[o].holds
        BY <1>1, <1>6 DEF Referred, LineStands
    <2>2. ASSUME NEW S \in SUBSET Standing PROVE Total(S, x) = 0
        <3>1. Holders(S, x) = {}
            BY <2>1 DEF Holders
        <3>2. QED
            BY <1>1, <3>1, TotalFacts
    <2>3. QED
        BY <1>1, <1>6, <2>1, <2>2 DEF Referred, LineStands
<1>7. ASSUME NEW x \in Sharp' PROVE unit'[x].booked = Total(Standing, x)'
    <2>1. PICK S : S = Standing
        OBVIOUS
    <2>2. Total(S, x)' = Total(S, x)
        BY <1>4, <2>1
    <2>3. CASE Listed(x)
        <3>1. unit[x].booked = Total(Standing, x) /\ unit'[x].booked = unit[x].booked
            BY <1>1, <1>5, <1>7, <2>3, BookedTotal DEF RowsKept, Balanced
        <3>2. QED
            BY <1>3, <2>1, <2>2, <3>1
    <2>4. CASE ~Listed(x)
        <3>1. unit'[x].booked = 0
            BY <1>1, <1>5, <1>7, <2>4 DEF RowsKept, Sharp
        <3>2. Total(S, x) = 0
            BY <1>6, <2>1, <2>4
        <3>3. QED
            BY <1>3, <2>1, <2>2, <3>1, <3>2
    <2>5. QED
        BY <2>3, <2>4
<1>8. ASSUME NEW x \in Sharp', NEW r \in Running' PROVE Reckons(r, x)'
    <2>1. r \in Running /\ (r \in Ordering' <=> r \in Ordering) /\ Own(r, x)' = Own(r, x)
        BY <1>1, <1>2, <1>8 DEF Own
    <2>2. PICK S : S = Standing \ request[r].closes
        OBVIOUS
    <2>3. Total(S, x)' = Total(S, x)
        BY <1>4, <2>2
    <2>4. CASE Listed(x)
        <3>1. Reckons(r, x)
            BY <1>1, <1>5, <1>8, <2>1, <2>4 DEF Counted
        <3>2. (Standing \ request[r].closes)' = S
            BY <1>1, <1>3, <2>2
        <3>3. QED
            BY <1>1, <1>3, <2>1, <2>2, <2>3, <3>1, <3>2 DEF Reckons
    <2>5. CASE ~Listed(x)
        BY <1>1, <1>3, <1>6, <2>1, <2>5 DEF Reckons
    <2>6. QED
        BY <2>4, <2>5
<1>9. BookedIsOpen'
    <2>1. Balanced'
        BY <1>7 DEF Balanced
    <2>2. QED
        BY <2>1, BookedTotal, PTL
<1>10. QED
    BY <1>8, <1>9 DEF Counted

-----------------------------------------------------------------------------
(* The books and the requests.                                             *)

\* What a step leaves alone that only takes up, or forgets, a request.
Quiet == UNCHANGED <<unit, content, shelved, placed, edits, blurred, doubled>>

LEMMA QuietKeeps ==
    ASSUME Quiet
    PROVE  /\ Standing' = Standing /\ Sharp' = Sharp /\ BookedIsOpen' = BookedIsOpen
           /\ \A x : Listed(x)' = Listed(x)
           /\ \A l : LineStands(l)' = LineStands(l) /\ FoundAgain(l)' = FoundAgain(l)
           /\ \A S, x : Total(S, x)' = Total(S, x)
<1>1. Standing' = Standing /\ Live' = Live /\ Sharp' = Sharp /\ Quantities' = Quantities
    BY DEF Quiet, Standing, Live, Sharp, Quantities
<1>2. \A x : Listed(x)' = Listed(x)
    BY DEF Quiet, Listed
<1>3. ASSUME NEW l PROVE LineStands(l)' = LineStands(l) /\ FoundAgain(l)' = FoundAgain(l)
    BY <1>1, <1>2 DEF Quiet, LineStands, FoundAgain, HeldOf, Targets
<1>4. ASSUME NEW S, NEW x PROVE Total(S, x)' = Total(S, x)
    BY <1>1 DEF Quiet, Total, Holders
<1>5. BookedIsOpen' = BookedIsOpen
    BY <1>1 DEF Quiet, BookedIsOpen
<1>6. QED
    BY <1>1, <1>2, <1>3, <1>4, <1>5

\* The requests that were there already, if nothing else has changed.
LEMMA OldReckons ==
    ASSUME CatalogTypeOK, Quiet, NEW r \in Running, r \in Running', request'[r] = request[r], NEW x, Reckons(r, x)
    PROVE  Reckons(r, x)'
<1>1. PICK S : S = Standing \ request[r].closes
    OBVIOUS
<1>2. Total(S, x)' = Total(S, x) /\ (Standing \ request[r].closes)' = S
    BY <1>1, QuietKeeps
<1>3. Own(r, x)' = Own(r, x) /\ (r \in Ordering' <=> r \in Ordering)
    BY DEF Own, Ordering
<1>4. QED
    BY <1>1, <1>2, <1>3, QuietKeeps DEF Reckons, Quiet

LEMMA BookFail == ASSUME BookInv, NEW r \in Request, FailRequest(r) PROVE (Referred /\ Looks /\ Counted /\ BookedIsOpen)'
<1>1. CatalogTypeOK /\ Referred /\ Looks /\ Counted /\ BookedIsOpen
    BY DEF BookInv, CatalogStructure
<1>2. /\ Quiet /\ \A q \in Running' : q \in Running /\ request'[q] = request[q]
      /\ \A q \in Ordering' : q \in Ordering /\ request'[q] = request[q]
    BY <1>1, Failed DEF Quiet
<1>3. Referred'
    BY <1>1, <1>2, QuietKeeps DEF Referred, Quiet
<1>4. Looks'
    BY <1>1, <1>2, QuietKeeps DEF Looks, Quiet
<1>5. ASSUME NEW q \in Running', NEW x \in Sharp' PROVE Reckons(q, x)'
    BY <1>1, <1>2, <1>5, QuietKeeps, OldReckons DEF Counted
<1>6. QED
    BY <1>1, <1>2, <1>3, <1>4, <1>5, QuietKeeps DEF Counted

LEMMA TargetsListed == ASSUME CatalogTypeOK, Referred, NEW v \in Variant, NEW x \in Targets(v) PROVE Listed(x)
<1>1. v \in Live
    BY DEF Targets
<1>2. CASE Owner[v] \in Combo
    BY <1>1, <1>2 DEF Targets, Referred
<1>3. CASE Owner[v] \notin Combo
    BY <1>1, <1>3, SharpUnit DEF Targets
<1>4. QED
    BY <1>2, <1>3

LEMMA TouchedListed == ASSUME CatalogTypeOK, Referred, NEW S \in SUBSET Standing, NEW x \in Touched(S) PROVE Listed(x)
<1>1. {o \in S : x \in Held(o)} # {}
    <2>1. SUFFICES ASSUME {o \in S : x \in Held(o)} = {} PROVE FALSE
        OBVIOUS
    <2>2. SumFunctionOnSet(Quantities, {}) = 0
        BY FS_EmptySet, SumUnfold
    <2>3. Owed(x, S) = 0
        BY <2>1, <2>2 DEF Owed
    <2>4. QED
        BY <2>3 DEF Touched
<1>2. PICK o \in S : x \in Held(o)
    BY <1>1
<1>3. placed[o].variant \in Variant
    BY StandingLine DEF PlacedLine
<1>4. x \in Targets(placed[o].variant) \/ x \in Live
    BY <1>2 DEF Held
<1>5. QED
    BY <1>3, <1>4, TargetsListed, SharpUnit

LEMMA BookClose ==
    ASSUME BookInv, NEW r \in Request, NEW o \in Order, Cancel(r, o) \/ Approve(r, o)
    PROVE  (Referred /\ Looks /\ Counted /\ BookedIsOpen)'
<1>1. CatalogTypeOK /\ Referred /\ Looks /\ Counted /\ BookedIsOpen
    BY DEF BookInv, CatalogStructure
<1>2. /\ o \in Standing /\ Quiet
      /\ Running' = Running \cup {r} /\ request'[r].stage = "close"
      /\ request'[r].booked = Unbooked(o) /\ request'[r].closes = {o} /\ r \notin Running
      /\ \A q \in Running : request'[q] = request[q]
    BY <1>1, Closing DEF Quiet
<1>3. Ordering' = Ordering /\ \A q \in Ordering : request'[q] = request[q]
    BY <1>2 DEF Ordering
<1>4. DOMAIN Unbooked(o) = Touched({o}) /\ {o} \in SUBSET Standing
    BY <1>2 DEF Unbooked
<1>5. Referred'
    <2>1. \A x \in Touched({o}) : Listed(x)
        BY <1>1, <1>4, TouchedListed
    <2>2. \A q \in Running' : \A x \in DOMAIN request'[q].booked : Listed(x)
        BY <1>1, <1>2, <1>4, <2>1 DEF Referred
    <2>3. QED
        BY <1>1, <1>2, <1>3, <2>2, QuietKeeps DEF Referred, Quiet
<1>6. Looks'
    BY <1>1, <1>2, <1>3, QuietKeeps DEF Looks, Quiet
<1>7. ASSUME NEW x \in Sharp' PROVE Reckons(r, x)'
    <2>1. x \in Sharp /\ x \in Unit
        BY <1>2, <1>7, QuietKeeps, SharpUnit
    <2>2. Released({o})[x] = Total(Standing \ {o}, x) /\ (x \notin Touched({o}) => Holders({o}, x) = {})
        BY <1>1, <1>4, <2>1, ReleasedIs
    <2>3. x \in DOMAIN request'[r].booked => request'[r].booked[x] = Total(Standing \ {o}, x)
        BY <1>2, <1>4, <2>2 DEF Unbooked
    <2>4. PICK S : S = Standing \ {o}
        OBVIOUS
    <2>5. (Standing \ request[r].closes)' = S /\ Total(S, x)' = Total(S, x) /\ Total(S, x) \in Nat
        BY <1>1, <1>2, <2>4, QuietKeeps, TotalFacts
    <2>6. r \notin Ordering' /\ Own(r, x)' = 0
        BY <1>2, <1>3 DEF Own, Ordering
    <2>7. x \notin Touched({o}) => x \notin placed'[o].holds
        BY <1>2, <2>2 DEF Holders, Quiet
    <2>8. x \in DOMAIN request'[r].booked => request'[r].booked[x] = Own(r, x)' + Total(S, x)
        BY <2>3, <2>4, <2>5, <2>6
    <2>9. \A k \in request'[r].closes \cap Standing' : k = o
        BY <1>2
    <2>10. x \notin DOMAIN request'[r].booked => x \notin placed'[o].holds
        BY <1>2, <1>4, <2>7
    <2>11. QED
        BY <2>5, <2>6, <2>8, <2>9, <2>10 DEF Reckons
<1>8. ASSUME NEW q \in Running', NEW x \in Sharp' PROVE Reckons(q, x)'
    BY <1>1, <1>2, <1>7, <1>8, QuietKeeps, OldReckons DEF Counted
<1>9. QED
    BY <1>1, <1>2, <1>5, <1>6, <1>8, QuietKeeps DEF Counted

\* What the checks of a new order let through.
LEMMA AcceptableLine ==
    ASSUME CatalogTypeOK, NEW v \in Variant, NEW quantity, NEW shade \in Shade \cup {NoShade}, NEW enabled, NEW booked,
           Acceptable(v, quantity, shade, enabled, booked)
    PROVE  v \in Live /\ Targets(v) # {} /\ (shade # NoShade => shade \in Live)
BY DEF Acceptable, Live, Unit

LEMMA BookCreate ==
    ASSUME BookInv, NEW r \in Request, NEW o \in FreshOrder, NEW b \in Buyer, NEW v \in Variant,
           NEW quantity \in Quantity, NEW shade \in Shade \cup {NoShade}, NEW enabled, NEW byAi,
           Create(r, o, b, v, quantity, shade, enabled, byAi)
    PROVE  (Referred /\ Looks /\ Counted /\ BookedIsOpen)'
<1> DEFINE closes == OrdersOf(b)
           holds == Targets(v) \cup ({shade} \ {NoShade})
           plan == OrderPlan(o, b, v, quantity, shade, closes)
<1>1. CatalogTypeOK /\ Referred /\ Looks /\ Counted /\ BookedIsOpen /\ o \in Order /\ closes \in SUBSET Standing
    BY DEF BookInv, CatalogStructure, FreshOrder, OrdersOf
<1>2. Prepare(r, plan)
    BY <1>1, CreateIsPlan
<1>3. v \in Live /\ Targets(v) # {} /\ (shade # NoShade => shade \in Live)
    BY <1>1, AcceptableLine DEF Create, PlanOrder
<1>4. /\ plan.stage = "open" /\ plan.closes = closes
      /\ plan.line.variant = v /\ plan.line.quantity = quantity /\ plan.line.shade = shade /\ plan.line.holds = holds
      /\ DOMAIN plan.booked = Touched(closes) \cup holds
      /\ \A x \in Touched(closes) \cup holds : plan.booked[x] = Released(closes)[x] + IF x \in holds THEN quantity ELSE 0
    BY DEF OrderPlan
<1> HIDE DEF plan, closes
<1>5. /\ Quiet /\ Running' = Running \cup {r} /\ request'[r] = plan /\ r \notin Running
      /\ \A q \in Running : request'[q] = request[q]
    BY <1>1, <1>2, <1>4, Prepared DEF Quiet
<1>6. r \in Ordering' /\ \A q \in Ordering' : q = r \/ (q \in Ordering /\ request'[q] = request[q])
    BY <1>4, <1>5 DEF Ordering
<1>7. \A x \in holds : Listed(x)
    BY <1>1, <1>3, TargetsListed, SharpUnit
<1>8. Referred'
    <2>1. LineStands(plan.line)
        BY <1>3, <1>4, <1>7, SharpUnit DEF LineStands
    <2>2. \A x \in DOMAIN plan.booked : Listed(x)
        BY <1>1, <1>4, <1>7, TouchedListed
    <2>3. \A q \in Running' : \A x \in DOMAIN request'[q].booked : Listed(x)
        BY <1>1, <1>5, <2>2 DEF Referred
    <2>4. \A q \in Ordering' : LineStands(request'[q].line)
        BY <1>1, <1>5, <1>6, <2>1 DEF Referred
    <2>5. QED
        BY <1>1, <1>5, <2>3, <2>4, QuietKeeps DEF Referred, Quiet
<1>9. Looks'
    <2>1. HeldOf(plan.line) = holds
        BY <1>3, <1>4, CatalogAssumption DEF HeldOf, Live
    <2>2. FoundAgain(plan.line)
        BY <1>4, <2>1 DEF FoundAgain
    <2>3. \A q \in Ordering' : FoundAgain(request'[q].line)
        BY <1>1, <1>5, <1>6, <2>2 DEF Looks
    <2>4. QED
        BY <1>1, <1>5, <2>3, QuietKeeps DEF Looks, Quiet
<1>10. ASSUME NEW x \in Sharp' PROVE Reckons(r, x)'
    <2>1. x \in Sharp /\ x \in Unit
        BY <1>5, <1>10, QuietKeeps, SharpUnit
    <2>2. Released(closes)[x] = Total(Standing \ closes, x) /\ (x \notin Touched(closes) => Holders(closes, x) = {})
        BY <1>1, <2>1, ReleasedIs
    <2>3. PICK S : S = Standing \ closes
        OBVIOUS
    <2>4. (Standing \ request[r].closes)' = S /\ Total(S, x)' = Total(S, x) /\ Total(S, x) \in Nat
        BY <1>1, <1>4, <1>5, <2>3, QuietKeeps, TotalFacts
    <2>5. Own(r, x)' = IF x \in holds THEN quantity ELSE 0
        BY <1>4, <1>5, <1>6 DEF Own
    <2>6. quantity \in Nat
        BY CatalogAssumption
    <2>7. x \notin DOMAIN plan.booked => /\ \A k \in closes \cap Standing : x \notin placed[k].holds
                                         /\ x \notin holds
        BY <1>4, <2>2 DEF Holders
    <2>8. x \in DOMAIN plan.booked => plan.booked[x] = Own(r, x)' + Total(S, x)
        <3> HIDE DEF holds
        <3>1. QED
            BY <1>4, <2>2, <2>3, <2>4, <2>5, <2>6
    <2>9. QED
        <3> HIDE DEF holds
        <3>1. QED
            BY <1>4, <1>5, <2>4, <2>7, <2>8, QuietKeeps DEF Reckons, Quiet
<1>11. ASSUME NEW q \in Running', NEW x \in Sharp' PROVE Reckons(q, x)'
    BY <1>1, <1>5, <1>10, <1>11, QuietKeeps, OldReckons DEF Counted
<1>12. QED
    BY <1>1, <1>5, <1>8, <1>9, <1>11, QuietKeeps DEF Counted

\* The rows after a commit.
LEMMA CommitRows ==
    ASSUME CatalogTypeOK, NEW r \in Request, CommitRequest(r)
    PROVE  /\ content' = content /\ Live' = Live /\ (\A x : Listed(x)' = Listed(x))
           /\ \A x \in Unit : unit'[x].booked = IF x \in DOMAIN request[r].booked THEN request[r].booked[x] ELSE unit[x].booked
           /\ blurred' = blurred \cup (Wrote(r) \cap request[r].late)
<1>1. unit' = [x \in Unit |-> [unit[x] EXCEPT !.booked = IF x \in DOMAIN request[r].booked THEN request[r].booked[x] ELSE @,
                                              !.stock = IF x \in DOMAIN request[r].stock THEN request[r].stock[x] ELSE @]]
    BY DEF CommitRequest
<1>2. ASSUME NEW x \in Unit
      PROVE  /\ unit'[x].at = unit[x].at
             /\ unit'[x].booked = IF x \in DOMAIN request[r].booked THEN request[r].booked[x] ELSE unit[x].booked
    <2>1. unit[x] \in [at : Where, stock : Nat, booked : Nat]
        BY UnitRow
    <2>2. QED
        BY <1>1, <2>1
<1>3. QED
    BY <1>2 DEF Live, Listed, CommitRequest, Wrote

\* The orders that are open after a commit.
LEMMA CommitStanding ==
    ASSUME CatalogTypeOK, Rooms, NEW r \in Request, CommitRequest(r)
    PROVE  /\ Standing \ request[r].closes \subseteq Standing'
           /\ \A o \in Standing' : \/ /\ o \in Standing \ request[r].closes /\ placed'[o] = placed[o]
                                   \/ /\ r \in Ordering /\ o = request[r].order /\ o \notin Standing /\ placed'[o] = request[r].line
           /\ r \in Ordering => request[r].order \in Standing' /\ placed'[request[r].order] = request[r].line
<1>1. r \in Running
    BY DEF CommitRequest
<1>2. ASSUME NEW o \in Standing'
      PROVE  \/ /\ o \in Standing \ request[r].closes /\ placed'[o] = placed[o]
             \/ /\ r \in Ordering /\ o = request[r].order /\ o \notin Standing /\ placed'[o] = request[r].line
    <2>1. o \in Order /\ placed'[o].status = "open"
        BY DEF Standing
    <2>2. CASE o \in request[r].closes
        <3>1. placed'[o].status = "closed"
            BY <2>1, <2>2, CommitPlaces
        <3>2. QED
            BY <2>1, <3>1
    <2>3. CASE o \notin request[r].closes
        <3>1. placed'[o] = IF r \in Ordering /\ o = request[r].order THEN request[r].line ELSE placed[o]
            BY <2>1, <2>3, CommitPlaces
        <3>2. r \in Ordering /\ o = request[r].order => o \notin Standing
            BY DEF Rooms, Standing, Unused
        <3>3. QED
            BY <2>1, <2>3, <3>1, <3>2 DEF Standing
    <2>4. QED
        BY <2>2, <2>3
<1>3. ASSUME NEW o \in Standing \ request[r].closes PROVE o \in Standing'
    <2>1. o \in Order /\ placed[o].status = "open" /\ placed[o] # Unused
        BY DEF Standing, Unused
    <2>2. ~(r \in Ordering /\ o = request[r].order)
        BY <2>1 DEF Rooms
    <2>3. placed'[o] = placed[o]
        BY <1>3, <2>1, <2>2, CommitPlaces
    <2>4. QED
        BY <2>1, <2>3 DEF Standing
<1>4. ASSUME r \in Ordering PROVE request[r].order \in Standing' /\ placed'[request[r].order] = request[r].line
    <2>1. /\ request[r].order \in Order /\ request[r].line.status = "open" /\ request[r].order \notin request[r].closes
        BY <1>1, <1>4 DEF Rooms
    <2>2. placed'[request[r].order] = request[r].line
        BY <1>4, <2>1, CommitPlaces
    <2>3. QED
        BY <2>1, <2>2 DEF Standing
<1>5. QED
    BY <1>2, <1>3, <1>4

\* How the books of a state add up.
Adds ==
    /\ \A S \in SUBSET Standing : \A x : /\ Total(S, x) \in Nat /\ Total(Standing, x) = Total(S, x) + Total(Standing \ S, x)
                                         /\ Holders(S, x) = {} => Total(S, x) = 0
    /\ \A o \in Standing : \A x : Total({o}, x) = IF x \in placed[o].holds THEN placed[o].quantity ELSE 0

LEMMA BooksAdd == CatalogTypeOK => Adds
<1> SUFFICES ASSUME CatalogTypeOK PROVE Adds
    OBVIOUS
<1>1. ASSUME NEW o \in Standing, NEW x
      PROVE  Total({o}, x) = IF x \in placed[o].holds THEN placed[o].quantity ELSE 0
    <2>1. {o} \in SUBSET Standing
        OBVIOUS
    <2>2. CASE x \notin placed[o].holds
        <3>1. Holders({o}, x) = {}
            BY <2>2 DEF Holders
        <3>2. QED
            BY <2>1, <2>2, <3>1, TotalFacts
    <2>3. CASE x \in placed[o].holds
        <3>1. Holders({o}, x) = {o}
            BY <2>3 DEF Holders
        <3>2. IsFiniteSet({o}) /\ Quantities[o] = placed[o].quantity /\ Quantities[o] \in Nat
            BY <2>1, QuantitiesNat
        <3>3. First({o}) = o /\ {o} \ {o} = {} /\ {o} # {}
            BY FirstIsThere
        <3>4. SumFunctionOnSet(Quantities, {o}) = Quantities[o] + SumFunctionOnSet(Quantities, {})
            BY <3>2, <3>3, SumUnfold
        <3>5. SumFunctionOnSet(Quantities, {}) = 0
            BY FS_EmptySet, SumUnfold
        <3>6. QED
            BY <2>3, <3>1, <3>2, <3>4, <3>5 DEF Total
    <2>4. QED
        BY <2>2, <2>3
<1>2. QED
    BY <1>1, TotalFacts, TotalWithout DEF Adds

LEMMA BookCommit == ASSUME BookInv, CatalogStructure', NEW r \in Request, CommitRequest(r) PROVE (Referred /\ Looks /\ Counted /\ BookedIsOpen)'
<1>1. /\ CatalogTypeOK /\ Rooms /\ Referred /\ Looks /\ Counted /\ BookedIsOpen /\ Adds /\ Adds' /\ r \in Running
    <2>1. CatalogTypeOK' => Adds'
        BY BooksAdd, PTL
    <2>2. QED
        BY <2>1, BooksAdd DEF BookInv, CatalogStructure, CommitRequest
<1> DEFINE closes == request[r].closes
<1>2. /\ content' = content /\ Live' = Live /\ (\A x : Listed(x)' = Listed(x))
      /\ \A x \in Unit : unit'[x].booked = IF x \in DOMAIN request[r].booked THEN request[r].booked[x] ELSE unit[x].booked
      /\ blurred' = blurred \cup (Wrote(r) \cap request[r].late)
    BY <1>1, CommitRows
<1>3. /\ Standing \ closes \subseteq Standing'
      /\ \A o \in Standing' : \/ /\ o \in Standing \ closes /\ placed'[o] = placed[o]
                              \/ /\ r \in Ordering /\ o = request[r].order /\ o \notin Standing /\ placed'[o] = request[r].line
      /\ r \in Ordering => request[r].order \in Standing' /\ placed'[request[r].order] = request[r].line
    BY <1>1, CommitStanding
<1>4. ASSUME NEW q \in Running'
      PROVE  /\ q \in Running /\ q # r /\ (q \in Ordering' <=> q \in Ordering)
             /\ request'[q].closes = request[q].closes /\ request'[q].line = request[q].line
             /\ request'[q].booked = request[q].booked /\ request'[q].late = request[q].late \cup Wrote(r)
    BY <1>1, PassedFields DEF Ordering
<1>5. Ordering' \subseteq Ordering /\ Ordering' \subseteq Running'
    BY <1>4 DEF Ordering
<1>6. Sharp' \subseteq Sharp /\ Sharp \subseteq Unit
    BY <1>2, SharpUnit DEF Sharp
<1>7. ASSUME NEW l PROVE (LineStands(l) => LineStands(l)') /\ (FoundAgain(l) => FoundAgain(l)')
    <2>1. HeldOf(l)' = HeldOf(l)
        BY <1>2 DEF HeldOf, Targets
    <2>2. QED
        BY <1>2, <1>6, <2>1 DEF LineStands, FoundAgain
<1>8. Referred'
    <2>1. ASSUME NEW o \in Standing', NEW l, l = placed'[o] PROVE LineStands(l)'
        <3>1. LineStands(l)
            BY <1>1, <1>3, <2>1 DEF Referred
        <3>2. QED
            BY <1>7, <3>1
    <2>2. ASSUME NEW q \in Ordering', NEW l, l = request'[q].line PROVE LineStands(l)'
        <3>1. LineStands(l)
            BY <1>1, <1>4, <1>5, <2>2 DEF Referred
        <3>2. QED
            BY <1>7, <3>1
    <2>3. \A q \in Running' : \A x \in DOMAIN request'[q].booked : Listed(x)'
        BY <1>1, <1>2, <1>4 DEF Referred
    <2>4. \A c \in Combo : \A x \in content'[c] : Listed(x)'
        BY <1>1, <1>2 DEF Referred
    <2>5. QED
        BY <2>1, <2>2, <2>3, <2>4 DEF Referred
<1>9. Looks'
    <2>1. ASSUME NEW o \in Standing', NEW l, l = placed'[o] PROVE FoundAgain(l)'
        <3>1. FoundAgain(l)
            BY <1>1, <1>3, <2>1 DEF Looks
        <3>2. QED
            BY <1>7, <3>1
    <2>2. ASSUME NEW q \in Ordering', NEW l, l = request'[q].line PROVE FoundAgain(l)'
        <3>1. FoundAgain(l)
            BY <1>1, <1>4, <1>5, <2>2 DEF Looks
        <3>2. QED
            BY <1>7, <3>1
    <2>3. QED
        BY <2>1, <2>2 DEF Looks
<1>10. ASSUME NEW S \in SUBSET Standing, S \cap closes = {}, NEW x PROVE Total(S, x)' = Total(S, x) /\ S \subseteq Standing'
    <2>1. S \subseteq Standing'
        BY <1>3, <1>10
    <2>2. \A o \in S : placed'[o] = placed[o]
        BY <1>3, <1>10, <2>1
    <2>3. QED
        BY <1>1, <2>1, <2>2, TotalKept
<1>11. ASSUME NEW x \in Sharp' PROVE unit'[x].booked = Total(Standing, x)'
    <2>1. x \in Sharp /\ x \in Unit /\ Reckons(r, x) /\ unit[x].booked = Total(Standing, x)
        BY <1>1, <1>6, <1>11, BookedTotal DEF Counted, Balanced
    <2>2. PICK K : K = Standing \ closes
        OBVIOUS
    <2>3. Total(K, x)' = Total(K, x) /\ K \subseteq Standing' /\ K \subseteq Standing /\ Total(K, x) \in Nat
        BY <1>1, <1>10, <2>2 DEF Adds
    <2>4. Total(Standing, x)' = Total(K, x) + Total(Standing \ K, x)'
        <3>1. Total(Standing, x)' = Total(K, x)' + Total(Standing \ K, x)'
            BY <1>1, <2>3 DEF Adds
        <3>2. QED
            BY <2>3, <3>1
    <2>5. Total(Standing \ K, x)' = Own(r, x)
        <3>1. CASE r \in Ordering
            <4>1. PICK o : o = request[r].order
                OBVIOUS
            <4>2. (Standing \ K)' = {o} /\ o \in Standing' /\ placed'[o] = request[r].line
                <5>1. o \notin Standing
                    BY <1>1, <3>1, <4>1 DEF Rooms, Standing, Unused
                <5>2. o \in Standing' /\ placed'[o] = request[r].line
                    BY <1>3, <3>1, <4>1
                <5>3. \A z \in Standing' : z \in K \/ z = o
                    BY <1>3, <2>2, <4>1
                <5>4. QED
                    BY <2>2, <5>1, <5>2, <5>3
            <4>3. Total({o}, x)' = IF x \in request[r].line.holds THEN request[r].line.quantity ELSE 0
                BY <1>1, <4>2 DEF Adds
            <4>4. Total(Standing \ K, x)' = Total({o}, x)'
                BY <4>2 DEF Total, Holders
            <4>5. QED
                BY <3>1, <4>3, <4>4 DEF Own
        <3>2. CASE r \notin Ordering
            <4>1. (Standing \ K)' = {}
                BY <1>3, <2>2, <3>2
            <4>2. PICK e : e = {}
                OBVIOUS
            <4>3. Holders(e, x)' = {} /\ e \in SUBSET Standing'
                BY <4>2 DEF Holders
            <4>4. Total(e, x)' = 0
                BY <1>1, <4>3 DEF Adds
            <4>5. Total(Standing \ K, x)' = Total(e, x)'
                BY <4>1, <4>2 DEF Total, Holders
            <4>6. QED
                BY <3>2, <4>4, <4>5 DEF Own
        <3>3. QED
            BY <3>1, <3>2
    <2>6. CASE x \in DOMAIN request[r].booked
        <3>1. x \notin request[r].late
            BY <1>2, <1>11, <2>6 DEF Wrote, Sharp
        <3>2. unit'[x].booked = Own(r, x) + Total(K, x)
            BY <1>2, <2>1, <2>2, <2>6, <3>1 DEF Reckons
        <3>3. Own(r, x) \in Nat
            BY <1>1, CatalogAssumption DEF Own, Rooms, PlacedLine
        <3>4. QED
            BY <2>3, <2>4, <2>5, <3>2, <3>3
    <2>7. CASE x \notin DOMAIN request[r].booked
        <3>1. unit'[x].booked = Total(Standing, x) /\ Own(r, x) = 0
            BY <1>2, <2>1, <2>7 DEF Reckons, Own
        <3>2. Holders(Standing \ K, x) = {}
            BY <2>1, <2>2, <2>7 DEF Reckons, Holders
        <3>3. Total(Standing, x) = Total(K, x) + Total(Standing \ K, x) /\ Total(Standing \ K, x) = 0
            BY <1>1, <2>3, <3>2 DEF Adds
        <3>4. QED
            BY <2>3, <2>4, <2>5, <3>1, <3>3
    <2>8. QED
        BY <2>6, <2>7
<1>12. ASSUME NEW q \in Running', NEW x \in Sharp' PROVE Reckons(q, x)'
    <2>1. x \in Sharp /\ Reckons(q, x) /\ Reckons(r, x) /\ Own(q, x)' = Own(q, x)
        BY <1>1, <1>4, <1>6, <1>12 DEF Counted, Own
    <2>2. ASSUME x \in DOMAIN request'[q].booked \ request'[q].late
          PROVE  request'[q].booked[x] = Own(q, x)' + Total(Standing \ request[q].closes, x)'
        <3>1. x \in DOMAIN request[q].booked \ request[q].late /\ x \notin DOMAIN request[r].booked
            BY <1>4, <2>2 DEF Wrote
        <3>2. request[q].booked[x] = Own(q, x) + Total(Standing \ request[q].closes, x)
            BY <2>1, <3>1 DEF Reckons
        <3>3. (\A o \in closes \cap Standing : x \notin placed[o].holds) /\ (r \in Ordering => x \notin request[r].line.holds)
            BY <2>1, <3>1 DEF Reckons
        <3>4. PICK H : H = Holders(Standing \ request[q].closes, x)
            OBVIOUS
        <3>5. Holders(Standing \ request[q].closes, x)' = H
            BY <1>3, <1>4, <3>3, <3>4 DEF Holders
        <3>6. H \in SUBSET Standing /\ H \cap closes = {}
            BY <3>3, <3>4 DEF Holders
        <3>7. Total(H, x)' = Total(H, x) /\ H \subseteq Standing'
            BY <1>10, <3>6
        <3>8. Holders(H, x) = H /\ Holders(H, x)' = H
            BY <1>3, <3>4, <3>6, <3>7 DEF Holders
        <3>9. Total(Standing \ request[q].closes, x)' = Total(Standing \ request[q].closes, x)
            BY <3>4, <3>5, <3>7, <3>8 DEF Total
        <3>10. QED
            BY <1>4, <2>1, <3>2, <3>9
    <2>3. ASSUME x \notin DOMAIN request'[q].booked
          PROVE  /\ \A o \in request'[q].closes \cap Standing' : x \notin placed'[o].holds
                 /\ q \in Ordering' => x \notin request'[q].line.holds
        <3>1. /\ \A o \in request[q].closes \cap Standing : x \notin placed[o].holds
              /\ q \in Ordering => x \notin request[q].line.holds
            BY <1>4, <2>1, <2>3 DEF Reckons
        <3>2. ASSUME NEW o \in request[q].closes \cap Standing' PROVE x \notin placed'[o].holds
            <4>1. placed[o] # Unused
                BY <1>1, <1>4, <3>2 DEF Rooms
            <4>2. ~(r \in Ordering /\ o = request[r].order)
                BY <1>1, <4>1 DEF Rooms
            <4>3. QED
                BY <1>3, <3>1, <3>2, <4>2
        <3>3. QED
            BY <1>4, <3>1, <3>2
    <2>4. Total(Standing \ request[q].closes, x)' = Total(Standing \ request[q].closes, x)'
        OBVIOUS
    <2>5. QED
        BY <1>4, <2>2, <2>3 DEF Reckons
<1>13. Balanced'
    BY <1>11 DEF Balanced
<1>14. BookedIsOpen'
    BY <1>13, BookedTotal, PTL
<1>15. Counted'
    BY <1>12 DEF Counted
<1>16. QED
    BY <1>8, <1>9, <1>14, <1>15

LEMMA StepBooks == BookInv /\ [CatalogNext]_catalogVars => BookInv'
<1> SUFFICES ASSUME BookInv, [CatalogNext]_catalogVars PROVE BookInv'
    OBVIOUS
<1>1. CatalogStructure' /\ CatalogStructure
    BY StepCatalogStructure DEF BookInv
<1>2. (Referred /\ Looks /\ Counted /\ BookedIsOpen)'
    <2>1. CASE UNCHANGED catalogVars
        <3>1. Quiet /\ Running' = Running /\ Ordering' = Ordering /\ request' = request
            BY <2>1 DEF catalogVars, Quiet, Running, Ordering
        <3>2. CatalogTypeOK /\ Referred /\ Looks /\ Counted /\ BookedIsOpen
            BY DEF BookInv, CatalogStructure
        <3>3. Referred' /\ Looks'
            BY <3>1, <3>2, QuietKeeps DEF Referred, Looks, Quiet
        <3>4. ASSUME NEW q \in Running', NEW x \in Sharp' PROVE Reckons(q, x)'
            BY <3>1, <3>2, <3>4, QuietKeeps, OldReckons DEF Counted
        <3>5. QED
            BY <3>1, <3>2, <3>3, <3>4, QuietKeeps DEF Counted
    <2>2. CASE \E r \in Request, o \in FreshOrder, b \in Buyer, v \in Variant, quantity \in Quantity,
                  shade \in Shade \cup {NoShade}, enabled, byAi \in BOOLEAN : Create(r, o, b, v, quantity, shade, enabled, byAi)
        BY <2>2, BookCreate
    <2>3. CASE \E r \in Request, o \in Order : Cancel(r, o) \/ Approve(r, o)
        BY <2>3, BookClose
    <2>4. CASE \E r \in Request : CommitRequest(r)
        BY <1>1, <2>4, BookCommit
    <2>5. CASE \E r \in Request : FailRequest(r)
        BY <2>5, BookFail
    <2>6. CASE Editing
        BY <1>1, <2>6, ReferredEdit, LooksEdit, BooksEdit DEF BookInv
    <2>7. QED
        BY <2>1, <2>2, <2>3, <2>4, <2>5, <2>6, CatalogSteps
<1>3. QED
    BY <1>1, <1>2 DEF BookInv

\* What is reserved of a unit that is for sale is what the open orders took of it when they were made
\* (create_order, release_reservation and approve in orders/service.py), whatever requests run at once and
\* however the catalogue changes, except for the units whose rows two requests wrote over each other and
\* those that orders held of a combo when it changed.
THEOREM BooksBalance == CatalogSpec => []BookedIsOpen
<1>1. CatalogInit => BookInv
    <2> SUFFICES ASSUME CatalogInit PROVE BookInv
        OBVIOUS
    <2>1. CatalogStructure
        BY InitCatalogStructure
    <2>2. Running = {} /\ Ordering = {} /\ Standing = {} /\ Live = {} /\ Sharp = {}
        BY DEF CatalogInit, Running, Ordering, Standing, Unused, Live, Sharp
    <2>3. Referred /\ Looks /\ Counted
        BY <2>2 DEF CatalogInit, Referred, Looks, Counted
    <2>4. BookedIsOpen
        BY <2>2, BookedTotal DEF Balanced
    <2>5. QED
        BY <2>1, <2>3, <2>4 DEF BookInv
<1>2. BookInv => BookedIsOpen
    BY DEF BookInv
<1>3. QED
    BY <1>1, <1>2, StepBooks, PTL DEF CatalogSpec
=============================================================================
