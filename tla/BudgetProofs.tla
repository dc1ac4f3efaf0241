---------------------------- MODULE BudgetProofs ----------------------------
(* What holds of the budget of a round for any number of assets and rounds,  *)
(* any amounts and any budgets. The exposure and the claims are sums over    *)
(* finite sets, which are recursive functions: the first part proves, by     *)
(* induction over the subsets of a finite set, what the second needs to know *)
(* of them.                                                                  *)
EXTENDS RoundBudget, FiniteSetTheorems, WellFoundedInduction, TLAPS

-----------------------------------------------------------------------------
(* Sums over finite sets                                                     *)

\* Induction over the subsets of a finite set, with the set of the subsets
\* that are known to be good in the place of a predicate.
LEMMA SubsetInduction ==
  ASSUME NEW S, IsFiniteSet(S), NEW Good,
         ASSUME NEW T \in SUBSET S, \A U \in SUBSET T : U # T => U \in Good
         PROVE  T \in Good
  PROVE  \A T \in SUBSET S : T \in Good
<1> DEFINE Bad == {T \in SUBSET S : T \notin Good}
<1>1. SUFFICES ASSUME Bad # {} PROVE FALSE
  OBVIOUS
<1>2. IsWellFoundedOn(StrictSubsetOrdering(S), SUBSET S)
  BY FS_FiniteSubsetsOfFinite, FS_StrictSubsetOrderingWellFounded, Zenon
<1>3. Bad \subseteq SUBSET S
  OBVIOUS
<1> HIDE DEF Bad
<1>4. PICK T \in Bad :
        \A U \in Bad : ~ (<<U, T>> \in StrictSubsetOrdering(S))
  <2> DEFINE R == StrictSubsetOrdering(S)
             SubS == SUBSET S
  <2>1. IsWellFoundedOn(R, SubS) /\ Bad \subseteq SubS /\ Bad # {}
    BY <1>1, <1>2, <1>3
  <2> HIDE DEF R, SubS
  <2>2. \E T \in Bad : \A U \in Bad : ~ (<<U, T>> \in R)
    BY ONLY <2>1, WFMin
  <2> QED
    BY <2>2 DEF R
<1>5. T \in SUBSET S /\ T \notin Good
  BY <1>4 DEF Bad
<1>6. ASSUME NEW U \in SUBSET T, U # T, U \notin Good PROVE FALSE
  <2>1. U \in Bad
    BY <1>5, <1>6 DEF Bad
  <2>2. <<U, T>> \in StrictSubsetOrdering(S)
    BY <1>5, <1>6 DEF StrictSubsetOrdering
  <2> QED
    BY <1>4, <2>1, <2>2
<1> QED
  BY <1>5, <1>6

Chosen(s) == CHOOSE x \in s : TRUE

LEMMA ChosenIn == ASSUME NEW s, s # {} PROVE Chosen(s) \in s
BY Zenon DEF Chosen

Rest(s) == s \ {Chosen(s)}

LEMMA RestIn ==
  ASSUME NEW s, s # {} PROVE Rest(s) \in SUBSET s /\ Rest(s) # s
BY ChosenIn DEF Rest

\* g is a running sum of f over the subsets of S.
Unfolds(g, f, S) ==
  g = [s \in SUBSET S |->
         IF s = {} THEN 0 ELSE f[Chosen(s)] + g[Rest(s)]]

LEMMA SumIs ==
  ASSUME NEW f, NEW S
  PROVE  SumFunctionOnSet(f, S) = (CHOOSE g : Unfolds(g, f, S))[S]
BY Zenon DEF SumFunctionOnSet, FoldFunctionOnSet, MapThenFoldSet, Unfolds,
             Chosen, Rest

LEMMA UnfoldsAt ==
  ASSUME NEW f, NEW S, NEW g, Unfolds(g, f, S), NEW s \in SUBSET S
  PROVE  g[s] = IF s = {} THEN 0 ELSE f[Chosen(s)] + g[Rest(s)]
BY Zenon DEF Unfolds

\* Two running sums of f agree where both are defined.
LEMMA UnfoldsUnique ==
  ASSUME NEW f, NEW S, IsFiniteSet(S), NEW T \in SUBSET S,
         NEW g, Unfolds(g, f, S), NEW h, Unfolds(h, f, T)
  PROVE  \A s \in SUBSET T : g[s] = h[s]
<1> DEFINE Good == {s \in SUBSET T : g[s] = h[s]}
<1>1. ASSUME NEW s \in SUBSET T, \A u \in SUBSET s : u # s => u \in Good
      PROVE  s \in Good
  <2>1. g[s] = IF s = {} THEN 0 ELSE f[Chosen(s)] + g[Rest(s)]
    BY UnfoldsAt
  <2>2. h[s] = IF s = {} THEN 0 ELSE f[Chosen(s)] + h[Rest(s)]
    BY UnfoldsAt
  <2>3. s # {} => Rest(s) \in Good
    BY <1>1, RestIn
  <2> QED
    BY <2>1, <2>2, <2>3
<1>2. IsFiniteSet(T)
  BY FS_Subset
<1> HIDE DEF Good
<1>3. \A s \in SUBSET T : s \in Good
  BY <1>1, <1>2, SubsetInduction
<1> QED
  BY <1>3 DEF Good

HasSum(f, S) == \E g : Unfolds(g, f, S)

LEMMA SumOfUnfolding ==
  ASSUME NEW f, NEW S, IsFiniteSet(S), NEW g, Unfolds(g, f, S)
  PROVE  \A s \in SUBSET S : HasSum(f, s) => SumFunctionOnSet(f, s) = g[s]
<1> TAKE s \in SUBSET S
<1> HAVE HasSum(f, s)
<1> DEFINE h == CHOOSE k : Unfolds(k, f, s)
<1>1. Unfolds(h, f, s)
  BY Zenon DEF HasSum
<1>2. SumFunctionOnSet(f, s) = h[s]
  BY SumIs
<1> HIDE DEF h
<1> QED
  BY <1>1, <1>2, UnfoldsUnique

\* The equation of the sum, once there are running sums of all subsets.
LEMMA SumEquation ==
  ASSUME NEW f, NEW S, IsFiniteSet(S), \A s \in SUBSET S : HasSum(f, s)
  PROVE  SumFunctionOnSet(f, S) =
           IF S = {} THEN 0
           ELSE f[Chosen(S)] + SumFunctionOnSet(f, Rest(S))
<1>1. PICK g : Unfolds(g, f, S)
  BY DEF HasSum
<1>2. \A s \in SUBSET S : SumFunctionOnSet(f, s) = g[s]
  BY <1>1, SumOfUnfolding
<1>3. g[S] = IF S = {} THEN 0 ELSE f[Chosen(S)] + g[Rest(S)]
  BY <1>1, UnfoldsAt
<1>4. S # {} => SumFunctionOnSet(f, Rest(S)) = g[Rest(S)]
  BY <1>2, RestIn
<1>5. SumFunctionOnSet(f, S) = g[S]
  BY <1>2
<1> QED
  BY <1>3, <1>4, <1>5, Zenon

LEMMA SumExists ==
  ASSUME NEW f, NEW S, IsFiniteSet(S)
  PROVE  \A T \in SUBSET S : HasSum(f, T)
<1> DEFINE Good == {T \in SUBSET S : HasSum(f, T)}
<1>1. ASSUME NEW T \in SUBSET S, \A U \in SUBSET T : U # T => U \in Good
      PROVE  T \in Good
  <2> DEFINE sum(s) == SumFunctionOnSet(f, s)
             g == [s \in SUBSET T |->
                     IF s = {} THEN 0 ELSE f[Chosen(s)] + sum(Rest(s))]
  <2>1. ASSUME NEW s \in SUBSET T, s # {} PROVE g[Rest(s)] = sum(Rest(s))
    <3>1. Rest(s) \in SUBSET T /\ Rest(s) # T
      BY <2>1, RestIn
    <3>2. \A u \in SUBSET Rest(s) : u \in SUBSET T /\ u # T
      BY <2>1, <3>1, RestIn, ChosenIn DEF Rest
    <3>3. \A u \in SUBSET Rest(s) : HasSum(f, u)
      BY <1>1, <3>2
    <3>4. IsFiniteSet(Rest(s))
      BY <3>1, FS_Subset
    <3>5. sum(Rest(s)) = IF Rest(s) = {} THEN 0
                         ELSE f[Chosen(Rest(s))] + sum(Rest(Rest(s)))
      BY <3>3, <3>4, SumEquation
    <3> QED
      BY <3>1, <3>5, Zenon
  <2>2. \A s \in SUBSET T :
          g[s] = IF s = {} THEN 0 ELSE f[Chosen(s)] + g[Rest(s)]
    BY <2>1
  <2>3. Unfolds(g, f, T)
    <3>1. g = [s \in SUBSET T |-> g[s]]
      OBVIOUS
    <3> HIDE DEF g
    <3> QED
      BY <2>2, <3>1, Zenon DEF Unfolds
  <2> HIDE DEF g
  <2> QED
    BY <2>3 DEF HasSum
<1> HIDE DEF Good
<1>2. \A T \in SUBSET S : T \in Good
  BY <1>1, SubsetInduction
<1> QED
  BY <1>2 DEF Good

\* What a sum is: the recursion its definition writes down.
LEMMA SumUnfold ==
  ASSUME NEW f, NEW S, IsFiniteSet(S)
  PROVE  SumFunctionOnSet(f, S) =
           IF S = {} THEN 0
           ELSE f[Chosen(S)] + SumFunctionOnSet(f, Rest(S))
BY SumExists, SumEquation, Zenon

-----------------------------------------------------------------------------
\* Any element may be taken out first.
LEMMA SumRemove ==
  ASSUME NEW f, NEW S, IsFiniteSet(S), \A x \in S : f[x] \in Int
  PROVE  /\ SumFunctionOnSet(f, S) \in Int
         /\ \A x \in S : SumFunctionOnSet(f, S) =
                           f[x] + SumFunctionOnSet(f, S \ {x})
<1> DEFINE sum(T) == SumFunctionOnSet(f, T)
           Good == {T \in SUBSET S :
                      /\ sum(T) \in Int
                      /\ \A x \in T : sum(T) = f[x] + sum(T \ {x})}
<1>1. ASSUME NEW T \in SUBSET S, \A U \in SUBSET T : U # T => U \in Good
      PROVE  T \in Good
  <2>1. ASSUME NEW U \in SUBSET T
        PROVE  sum(U) = IF U = {} THEN 0 ELSE f[Chosen(U)] + sum(Rest(U))
    <3>1. IsFiniteSet(U)
      BY FS_Subset
    <3> QED
      BY <3>1, SumUnfold, Zenon
  <2> HIDE DEF sum
  <2>2. CASE T = {}
    <3>1. T \in SUBSET T
      OBVIOUS
    <3>2. sum(T) = 0
      BY <2>1, <2>2, <3>1
    <3> QED
      BY <2>2, <3>2
  <2>3. CASE T # {}
    <3> DEFINE c == Chosen(T)
    <3>1. c \in T /\ f[c] \in Int /\ Rest(T) = T \ {c}
      BY <2>3, ChosenIn DEF Rest
    <3>2. sum(T) = f[c] + sum(T \ {c})
      BY <2>1, <2>3, <3>1
    <3>3. T \ {c} \in Good
      BY <1>1, <3>1
    <3> HIDE DEF c
    <3>4. sum(T) \in Int
      BY <3>1, <3>2, <3>3
    <3>5. ASSUME NEW x \in T, x # c PROVE sum(T) = f[x] + sum(T \ {x})
      <4> DEFINE U == (T \ {c}) \ {x}
      <4>1. sum(T \ {c}) = f[x] + sum(U)
        BY <3>3, <3>5
      <4>2. T \ {x} \in Good /\ c \in T \ {x} /\ f[x] \in Int
        BY <1>1, <3>1, <3>5
      <4>3. (T \ {x}) \ {c} = U
        OBVIOUS
      <4>4. sum(T \ {x}) = f[c] + sum(U)
        BY <4>2, <4>3
      <4>5. U \in Good
        BY <1>1, <3>1
      <4> HIDE DEF U
      <4>6. sum(U) \in Int
        BY <4>5
      <4> HIDE DEF Good
      <4> QED
        BY <3>1, <3>2, <4>1, <4>2, <4>4, <4>6
    <3> QED
      BY <3>2, <3>4, <3>5
  <2> QED
    BY <2>2, <2>3
<1> HIDE DEF Good
<1>2. \A T \in SUBSET S : T \in Good
  BY <1>1, SubsetInduction
<1> QED
  BY <1>2 DEF Good

LEMMA SumEmpty == ASSUME NEW f PROVE SumFunctionOnSet(f, {}) = 0
BY SumUnfold, FS_EmptySet

\* A sum of more and larger terms is larger.
LEMMA SumLeq ==
  ASSUME NEW S, IsFiniteSet(S), NEW E \in SUBSET S, NEW f, NEW g,
         \A x \in S : g[x] \in Nat,
         \A x \in E : f[x] \in Int /\ f[x] <= g[x]
  PROVE  SumFunctionOnSet(f, E) <= SumFunctionOnSet(g, S)
<1> DEFINE low(T) == SumFunctionOnSet(f, T \cap E)
           high(T) == SumFunctionOnSet(g, T)
           Good == {T \in SUBSET S :
                      low(T) \in Int /\ high(T) \in Int /\ low(T) <= high(T)}
<1>1. ASSUME NEW T \in SUBSET S, \A U \in SUBSET T : U # T => U \in Good
      PROVE  T \in Good
  <2>1. IsFiniteSet(T) /\ IsFiniteSet(T \cap E)
    BY FS_Subset
  <2>2. high(T) \in Int /\ \A x \in T : high(T) = g[x] + high(T \ {x})
    BY <2>1, SumRemove
  <2>3. low(T) \in Int /\ \A x \in T \cap E :
                            low(T) = f[x] + SumFunctionOnSet(f, (T \cap E) \ {x})
    BY <2>1, SumRemove
  <2>4. CASE T = {}
    <3>1. low(T) = 0 /\ high(T) = 0
      <4>1. T \cap E = {}
        BY <2>4
      <4> QED
        BY <2>4, <4>1, SumEmpty, Zenon
    <3> HIDE DEF low, high
    <3> QED
      BY <3>1
  <2>5. CASE T # {}
    <3>1. PICK x \in T : TRUE
      BY <2>5
    <3>2. T \ {x} \in Good
      BY <1>1
    <3>3. CASE x \in E
      <4>1. (T \cap E) \ {x} = (T \ {x}) \cap E
        OBVIOUS
      <4>2. low(T) = f[x] + low(T \ {x})
        BY <2>3, <3>3, <4>1
      <4>3. high(T) = g[x] + high(T \ {x}) /\ g[x] \in Int
        BY <2>2
      <4>4. f[x] \in Int /\ f[x] <= g[x]
        BY <3>3
      <4> HIDE DEF low, high
      <4> QED
        BY <2>2, <2>3, <3>2, <4>2, <4>3, <4>4
    <3>4. CASE x \notin E
      <4>1. (T \ {x}) \cap E = T \cap E
        BY <3>4
      <4>2. low(T) = low(T \ {x})
        BY <4>1
      <4>3. high(T) = g[x] + high(T \ {x}) /\ g[x] \in Nat
        BY <2>2
      <4> HIDE DEF low, high
      <4> QED
        BY <2>2, <2>3, <3>2, <4>2, <4>3
    <3> QED
      BY <3>3, <3>4
  <2> QED
    BY <2>4, <2>5
<1> HIDE DEF Good
<1>2. \A T \in SUBSET S : T \in Good
  BY <1>1, SubsetInduction
<1>3. S \in Good /\ S \cap E = E
  BY <1>2
<1> QED
  BY <1>3 DEF Good

\* Sums of the same terms are the same.
LEMMA SumSame ==
  ASSUME NEW S, IsFiniteSet(S), NEW f, NEW g,
         \A x \in S : f[x] \in Nat /\ f[x] = g[x]
  PROVE  SumFunctionOnSet(f, S) = SumFunctionOnSet(g, S)
<1>1. S \in SUBSET S /\ \A x \in S : f[x] <= g[x] /\ g[x] <= f[x]
  BY Z3
<1>2. SumFunctionOnSet(f, S) <= SumFunctionOnSet(g, S)
  BY <1>1, SumLeq
<1>3. SumFunctionOnSet(g, S) <= SumFunctionOnSet(f, S)
  BY <1>1, SumLeq
<1>4. SumFunctionOnSet(f, S) \in Int /\ SumFunctionOnSet(g, S) \in Int
  BY SumRemove
<1> QED
  BY <1>2, <1>3, <1>4

\* One term changes.
LEMMA SumChange ==
  ASSUME NEW S, IsFiniteSet(S), NEW x \in S, NEW f, NEW g,
         \A y \in S : f[y] \in Nat /\ g[y] \in Nat,
         \A y \in S \ {x} : f[y] = g[y]
  PROVE  SumFunctionOnSet(g, S) = SumFunctionOnSet(f, S) - f[x] + g[x]
<1>1. SumFunctionOnSet(f, S \ {x}) = SumFunctionOnSet(g, S \ {x})
  <2>1. IsFiniteSet(S \ {x})
    BY FS_RemoveElement
  <2> QED
    BY <2>1, SumSame
<1>2. /\ SumFunctionOnSet(f, S) = f[x] + SumFunctionOnSet(f, S \ {x})
      /\ SumFunctionOnSet(g, S) = g[x] + SumFunctionOnSet(g, S \ {x})
  BY SumRemove
<1>3. SumFunctionOnSet(f, S \ {x}) \in Int
  <2>1. IsFiniteSet(S \ {x})
    BY FS_RemoveElement
  <2> QED
    BY <2>1, SumRemove
<1> QED
  BY <1>1, <1>2, <1>3

\* Naturals add up to a natural, to zero exactly if they are all zero.
LEMMA SumNat ==
  ASSUME NEW S, IsFiniteSet(S), NEW f, \A x \in S : f[x] \in Nat
  PROVE  /\ SumFunctionOnSet(f, S) \in Nat
         /\ \A x \in S : f[x] <= SumFunctionOnSet(f, S)
<1>1. SumFunctionOnSet(f, S) \in Int
  BY SumRemove
<1>2. SumFunctionOnSet(f, {}) <= SumFunctionOnSet(f, S)
  BY SumLeq
<1>3. ASSUME NEW x \in S PROVE f[x] <= SumFunctionOnSet(f, S)
  <2>1. SumFunctionOnSet(f, {x}) <= SumFunctionOnSet(f, S)
    BY SumLeq
  <2>2. SumFunctionOnSet(f, {x}) = f[x] + SumFunctionOnSet(f, {x} \ {x})
    <3>1. IsFiniteSet({x})
      BY FS_Singleton
    <3> QED
      BY <3>1, SumRemove
  <2>3. {x} \ {x} = {}
    OBVIOUS
  <2> QED
    BY <2>1, <2>2, <2>3, SumEmpty
<1> QED
  BY <1>1, <1>2, <1>3, SumEmpty

LEMMA SumPlus ==
  ASSUME NEW S, IsFiniteSet(S), NEW f, NEW g, NEW h,
         \A x \in S : f[x] \in Nat /\ g[x] \in Nat /\ h[x] = f[x] + g[x]
  PROVE  SumFunctionOnSet(h, S) = SumFunctionOnSet(f, S) + SumFunctionOnSet(g, S)
<1> DEFINE F(T) == SumFunctionOnSet(f, T)
           G(T) == SumFunctionOnSet(g, T)
           H(T) == SumFunctionOnSet(h, T)
           Good == {T \in SUBSET S : /\ F(T) \in Int /\ G(T) \in Int
                                     /\ H(T) = F(T) + G(T)}
<1>1. ASSUME NEW T \in SUBSET S, \A U \in SUBSET T : U # T => U \in Good
      PROVE  T \in Good
  <2>1. /\ IsFiniteSet(T)
        /\ \A x \in T : f[x] \in Int /\ g[x] \in Int /\ h[x] \in Int
    BY FS_Subset
  <2>2. /\ F(T) \in Int /\ \A x \in T : F(T) = f[x] + F(T \ {x})
        /\ G(T) \in Int /\ \A x \in T : G(T) = g[x] + G(T \ {x})
        /\ H(T) \in Int /\ \A x \in T : H(T) = h[x] + H(T \ {x})
    <3>1. F(T) \in Int /\ \A x \in T : F(T) = f[x] + F(T \ {x})
      BY <2>1, SumRemove
    <3>2. G(T) \in Int /\ \A x \in T : G(T) = g[x] + G(T \ {x})
      BY <2>1, SumRemove
    <3>3. H(T) \in Int /\ \A x \in T : H(T) = h[x] + H(T \ {x})
      BY <2>1, SumRemove
    <3> HIDE DEF F, G, H
    <3> QED
      BY <3>1, <3>2, <3>3
  <2>3. CASE T = {}
    <3>1. F(T) = 0 /\ G(T) = 0 /\ H(T) = 0
      BY <2>3, SumEmpty
    <3> QED
      BY <3>1
  <2>4. CASE T # {}
    <3>1. PICK x \in T : TRUE
      BY <2>4
    <3>2. T \ {x} \in Good /\ h[x] = f[x] + g[x]
      BY <1>1
    <3> HIDE DEF F, G, H
    <3> QED
      BY <2>2, <3>2
  <2> QED
    BY <2>3, <2>4
<1> HIDE DEF Good
<1>2. \A T \in SUBSET S : T \in Good
  BY <1>1, SubsetInduction
<1> QED
  BY <1>2 DEF Good

LEMMA SumZero ==
  ASSUME NEW S, IsFiniteSet(S), NEW f, \A x \in S : f[x] = 0
  PROVE  SumFunctionOnSet(f, S) = 0
<1>0. \A x \in S : f[x] \in Nat /\ f[x] \in Int /\ f[x] = f[x] + f[x]
  OBVIOUS
<1>1. SumFunctionOnSet(f, S) = SumFunctionOnSet(f, S) + SumFunctionOnSet(f, S)
  BY <1>0, SumPlus
<1>2. SumFunctionOnSet(f, S) \in Nat
  BY <1>0, SumNat
<1> DEFINE s == SumFunctionOnSet(f, S)
<1>3. s \in Nat /\ s = s + s
  BY <1>1, <1>2
<1> HIDE DEF s
<1>4. s = 0
  BY <1>3
<1> QED
  BY <1>4 DEF s

-----------------------------------------------------------------------------
(* The ledger                                                                *)

LEMMA FiniteMarkets == IsFiniteSet(Markets) /\ IsFiniteSet(Assets)
<1>1. MaxRounds \in Nat /\ IsFiniteSet(Assets)
  BY RoundBudgetAssumption
<1>2. IsFiniteSet(1 .. MaxRounds)
  BY <1>1, FS_Interval
<1> QED
  BY <1>1, <1>2, FS_Product DEF Markets

\* What is pending counts in full.
LedgerInv ==
  /\ Ledger!LedgerTypeOK
  /\ \A m \in Markets : stage[m] = "pending" => amount[m] = Notional

LEMMA LedgerInit == Ledger!Init => LedgerInv
BY RoundBudgetAssumption
   DEF LedgerInv, Ledger!Init, Ledger!LedgerTypeOK, Ledger!Stages

\* The steps of the ledger other than a reservation lower no stage and raise
\* no amount.
LedgerShrinks ==
  /\ \A m \in Markets : amount'[m] <= amount[m]
  /\ \A m \in Markets : stage[m] # "none" => stage'[m] # "none"

LEMMA LedgerSteps ==
  ASSUME LedgerInv, NEW m \in Markets, NEW q \in 1 .. Notional,
         Ledger!Fill(m, q) \/ Ledger!Release(m) \/ Ledger!Retire
  PROVE  LedgerInv' /\ LedgerShrinks
<1> USE RoundBudgetAssumption
    DEF LedgerInv, LedgerShrinks, Ledger!LedgerTypeOK, Ledger!Stages
<1>1. CASE Ledger!Fill(m, q)
  BY <1>1 DEF Ledger!Fill
<1>2. CASE Ledger!Release(m)
  BY <1>2 DEF Ledger!Release
<1>3. CASE Ledger!Retire
  BY <1>3 DEF Ledger!Retire
<1> QED
  BY <1>1, <1>2, <1>3

LEMMA LedgerReserves ==
  ASSUME LedgerInv, NEW m \in Markets, Ledger!Reserve(m)
  PROVE  /\ LedgerInv'
         /\ amount'[m] = Notional
         /\ \A n \in Markets \ {m} : amount'[n] = amount[n]
         /\ stage'[m] = "pending"
         /\ \A n \in Markets : stage[n] # "none" => stage'[n] # "none"
BY RoundBudgetAssumption
   DEF LedgerInv, Ledger!LedgerTypeOK, Ledger!Stages, Ledger!Reserve

LEMMA ExposureNat == /\ LedgerInv => Exposure \in Nat
                     /\ LedgerInv' => Exposure' \in Nat
BY FiniteMarkets, SumNat DEF LedgerInv, Ledger!LedgerTypeOK, Exposure

LEMMA ExposureShrinks ==
  ASSUME LedgerInv, LedgerInv', LedgerShrinks
  PROVE  Exposure' <= Exposure
<1>1. \A m \in Markets : amount[m] \in Nat /\ amount'[m] \in Int
                         /\ amount'[m] <= amount[m]
  BY DEF LedgerInv, Ledger!LedgerTypeOK, LedgerShrinks
<1> QED
  BY <1>1, FiniteMarkets, SumLeq DEF Exposure

LEMMA ExposureReserves ==
  ASSUME LedgerInv, NEW m \in Markets, Ledger!Reserve(m)
  PROVE  Exposure' <= Exposure + Notional
<1>1. /\ \A n \in Markets : amount[n] \in Nat /\ amount'[n] \in Nat
      /\ amount'[m] = Notional
      /\ \A n \in Markets \ {m} : amount'[n] = amount[n]
  BY LedgerReserves DEF LedgerInv, Ledger!LedgerTypeOK
<1>2. Exposure' = Exposure - amount[m] + Notional
  BY <1>1, FiniteMarkets, SumChange DEF Exposure
<1> QED
  BY <1>1, <1>2, ExposureNat, RoundBudgetAssumption

-----------------------------------------------------------------------------
(* The budget                                                                *)

\* What this round's entries add to the exposure.
Added == [a \in Assets |-> IF worker[a] = "done" /\ claims[a] > 0
                             THEN Notional ELSE 0]
TotalAdded == SumFunctionOnSet(Added, Assets)

\* A claim is the cost of an entry and was made against a snapshot.
ClaimsAreCosts ==
  \A a \in Assets :
    /\ claims[a] \in {0, Cost(a)}
    /\ claims[a] > 0 => /\ worker[a] \in {"claimed", "unclaim", "done"}
                        /\ budget >= 0
    /\ worker[a] \in {"claimed", "unclaim"} => claims[a] > 0
    /\ worker[a] \in {"ready", "checked"} => budget >= 0

\* The snapshot was taken before the entries were added, and has room for
\* every claim.
ClaimsFit ==
  budget >= 0 =>
    /\ Exposure <= existing + TotalAdded
    /\ Claimed = 0 \/ existing + Claimed <= budget

BudgetInv ==
  /\ RoundBudgetTypeOK /\ LedgerInv
  /\ ClaimsAreCosts /\ ClaimsFit /\ NoBudgetLeak

LEMMA CostNat == \A a \in Assets : Cost(a) \in Nat /\ Cost(a) >= Notional
                                   /\ Notional \in Nat /\ Notional > 0
                                   /\ Fee[a] \in Nat /\ Cost(a) = Notional + Fee[a]
BY RoundBudgetAssumption DEF Cost

LEMMA AddedNat ==
  /\ \A a \in Assets : Added[a] \in Nat
  /\ TotalAdded \in Nat
<1>1. \A a \in Assets : Added[a] \in Nat
  BY CostNat DEF Added
<1> QED
  BY <1>1, FiniteMarkets, SumNat DEF TotalAdded

LEMMA ClaimedNat ==
  ASSUME claims \in [Assets -> Nat]
  PROVE  Claimed \in Nat /\ \A a \in Assets : claims[a] <= Claimed
BY FiniteMarkets, SumNat DEF Claimed

\* Nothing but the entry section of a worker changes what is claimed or added.
LEMMA ClaimsKept ==
  ASSUME BudgetInv, UNCHANGED <<budget, existing, claims>>, LedgerInv',
         Exposure' <= Exposure,
         TotalAdded' = TotalAdded
  PROVE  ClaimsFit'
<1>1. Claimed' = Claimed
  BY DEF Claimed
<1>2. Exposure \in Nat /\ Exposure' \in Nat /\ existing \in Nat
  BY ExposureNat, LedgerInv' DEF BudgetInv, RoundBudgetTypeOK
<1> QED
  BY <1>1, <1>2, AddedNat DEF BudgetInv, ClaimsFit

\* A worker without a claim that goes to another place without one.
LEMMA WorkerMoves ==
  ASSUME BudgetInv, NEW a \in Assets, claims[a] = 0,
         NEW to \in {"start", "ready", "checked", "done"},
         to \in {"ready", "checked"} => budget >= 0,
         At(a, to), UNCHANGED <<round, budget, existing, claims, ledger, losses, crashes>>
  PROVE  BudgetInv'
<1> USE DEF BudgetInv
<1>1. worker' = [worker EXCEPT ![a] = to]
  BY DEF At
<1>2. RoundBudgetTypeOK' /\ LedgerInv'
  BY <1>1 DEF RoundBudgetTypeOK, LedgerInv, Ledger!LedgerTypeOK, ledger, Markets
<1>3. ClaimsAreCosts'
  BY <1>1 DEF ClaimsAreCosts, Cost, RoundBudgetTypeOK
<1>4. ClaimsFit'
  <2>1. Exposure' = Exposure
    BY DEF Exposure, ledger
  <2>2. Added' = Added
    BY <1>1 DEF Added, RoundBudgetTypeOK
  <2>3. Exposure \in Nat
    BY ExposureNat
  <2>4. TotalAdded' = TotalAdded
    BY <2>2 DEF TotalAdded
  <2> QED
    BY <1>2, <2>1, <2>3, <2>4, ClaimsKept
<1>5. NoBudgetLeak'
  BY <1>1 DEF NoBudgetLeak, RoundBudgetTypeOK, ledger
<1> QED
  BY <1>2, <1>3, <1>4, <1>5

\* The ledger moves beside the round.
LEMMA OrdersMove ==
  ASSUME BudgetInv, LedgerInv', LedgerShrinks,
         UNCHANGED <<round, worker, budget, existing, claims, crashes>>,
         losses' \in Nat
  PROVE  BudgetInv'
<1> USE DEF BudgetInv
<1>1. RoundBudgetTypeOK'
  BY DEF RoundBudgetTypeOK, LedgerInv
<1>2. ClaimsAreCosts'
  BY DEF ClaimsAreCosts, Cost
<1>3. ClaimsFit'
  <2>1. Added' = Added
    BY DEF Added
  <2>2. TotalAdded' = TotalAdded
    BY <2>1 DEF TotalAdded
  <2> QED
    BY <2>2, ExposureShrinks, ClaimsKept
<1>4. NoBudgetLeak'
  <2>1. \A a \in Assets : <<round, a>> \in Markets
    BY DEF RoundBudgetTypeOK, Markets
  <2> QED
    BY <2>1 DEF NoBudgetLeak, LedgerShrinks
<1> QED
  BY <1>1, <1>2, <1>3, <1>4

\* A round and a process begin without a snapshot and without claims.
LEMMA FreshFits ==
  ASSUME BudgetInv, FreshWorkers, round' \in 1 .. MaxRounds,
         crashes' \in 0 .. MaxCrashes, losses' = losses, LedgerInv'
  PROVE  BudgetInv'
<1> USE DEF BudgetInv
<1>1. RoundBudgetTypeOK'
  BY DEF RoundBudgetTypeOK, LedgerInv, FreshWorkers
<1>2. ClaimsAreCosts'
  BY DEF ClaimsAreCosts, FreshWorkers
<1>3. ClaimsFit'
  BY DEF ClaimsFit, FreshWorkers, Unread
<1>4. NoBudgetLeak'
  BY DEF NoBudgetLeak, FreshWorkers
<1> QED
  BY <1>1, <1>2, <1>3, <1>4

LEMMA BudgetStart == RoundBudgetInit => BudgetInv
<1> SUFFICES ASSUME RoundBudgetInit PROVE BudgetInv
  OBVIOUS
<1> USE DEF RoundBudgetInit
<1>1. LedgerInv
  BY LedgerInit
<1>2. RoundBudgetTypeOK
  BY <1>1, RoundBudgetAssumption DEF RoundBudgetTypeOK, LedgerInv
<1>3. ClaimsAreCosts
  BY DEF ClaimsAreCosts
<1>4. ClaimsFit
  BY DEF ClaimsFit, Unread
<1>5. NoBudgetLeak
  BY DEF NoBudgetLeak
<1> QED
  BY <1>1, <1>2, <1>3, <1>4, <1>5 DEF BudgetInv

LEMMA PreflightInv ==
  ASSUME BudgetInv, NEW a \in Assets, Preflight(a)
  PROVE  BudgetInv'
<1> USE DEF BudgetInv
<1>1. claims[a] = 0
  BY DEF Preflight, ClaimsAreCosts, RoundBudgetTypeOK
<1>2. CASE budget # Unread
  <2>1. budget >= 0 \/ budget = Failed
    BY <1>2, RoundBudgetAssumption DEF RoundBudgetTypeOK
  <2> QED
    BY <1>1, <1>2, <2>1, WorkerMoves DEF Preflight
<1>3. CASE budget = Unread
  <2>0. Failed \notin Budgets
    BY RoundBudgetAssumption DEF Failed
  <2>1. /\ budget' \in Budgets \cup {Failed} /\ existing' \in {existing, Exposure}
        /\ budget' \in Budgets => existing' = Exposure
        /\ UNCHANGED <<round, claims, ledger, losses, crashes>>
        /\ worker' = [worker EXCEPT ![a] = IF budget' \in Budgets
                                             THEN "ready" ELSE "done"]
    BY <1>3, <2>0 DEF Preflight, At
  <2>2. \A b \in Assets : claims[b] = 0 /\ worker[b] \in {"start", "done"}
    BY <1>3 DEF ClaimsAreCosts, Unread, RoundBudgetTypeOK
  <2>3. budget' = Failed \/ (budget' \in Nat /\ budget' \in Budgets)
    BY <2>1, RoundBudgetAssumption
  <2>4. RoundBudgetTypeOK' /\ LedgerInv'
    BY <2>1, ExposureNat
       DEF RoundBudgetTypeOK, LedgerInv, Ledger!LedgerTypeOK, ledger, Markets
  <2>5. ClaimsAreCosts'
    <3>1. \A b \in Assets :
            claims'[b] = 0 /\ worker'[b] \in {"start", "ready", "done"}
                /\ (worker'[b] = "ready" => budget' \in Budgets)
      BY <2>1, <2>2 DEF RoundBudgetTypeOK
    <3>2. budget' \in Budgets => budget' >= 0
      BY RoundBudgetAssumption
    <3> QED
      BY <3>1, <3>2 DEF ClaimsAreCosts
  <2>6. ClaimsFit'
    <3>1. Claimed' = 0
      BY <2>1, <2>2, FiniteMarkets, SumZero DEF Claimed
    <3>2. Exposure' = Exposure
      BY <2>1 DEF Exposure, ledger
    <3>3. TotalAdded' \in Nat
      <4>1. \A b \in Assets : Added'[b] \in Nat
        BY CostNat DEF Added
      <4> QED
        BY <4>1, FiniteMarkets, SumNat DEF TotalAdded
    <3> QED
      BY <2>1, <2>3, <3>1, <3>2, <3>3, ExposureNat DEF ClaimsFit, Failed
  <2>7. NoBudgetLeak'
    BY <2>1, <2>2 DEF NoBudgetLeak, ledger
  <2> QED
    BY <2>4, <2>5, <2>6, <2>7
<1> QED
  BY <1>2, <1>3

LEMMA ClaimInv ==
  ASSUME BudgetInv, NEW a \in Assets, ClaimFixedEntry(a)
  PROVE  BudgetInv'
<1> USE DEF BudgetInv
<1>1. /\ worker[a] = "checked" /\ claims[a] = 0 /\ budget >= 0
      /\ UNCHANGED <<round, budget, existing, ledger, losses, crashes>>
  BY DEF ClaimFixedEntry, ClaimsAreCosts, RoundBudgetTypeOK
<1>2. CASE UNCHANGED claims /\ At(a, "done")
  BY <1>1, <1>2, WorkerMoves
<1>3. CASE /\ Remaining > 0 /\ Cost(a) <= Remaining
           /\ claims' = [claims EXCEPT ![a] = Cost(a)] /\ At(a, "claimed")
  <2>1. worker' = [worker EXCEPT ![a] = "claimed"]
    BY <1>3 DEF At
  <2>2. RoundBudgetTypeOK' /\ LedgerInv'
    BY <1>1, <1>3, <2>1, CostNat
       DEF RoundBudgetTypeOK, LedgerInv, Ledger!LedgerTypeOK, ledger, Markets
  <2>3. ClaimsAreCosts'
    BY <1>1, <1>3, <2>1, CostNat DEF ClaimsAreCosts, RoundBudgetTypeOK, Cost
  <2>4. ClaimsFit'
    <3>1. Claimed' = Claimed + Cost(a)
      <4>1. \A b \in Assets : claims[b] \in Nat /\ claims'[b] \in Nat
        BY <2>2 DEF RoundBudgetTypeOK
      <4>2. claims'[a] = Cost(a) /\ \A b \in Assets \ {a} : claims[b] = claims'[b]
        BY <1>3 DEF RoundBudgetTypeOK
      <4>3. Claimed' = Claimed - claims[a] + claims'[a]
        BY <4>1, <4>2, FiniteMarkets, SumChange DEF Claimed
      <4> QED
        BY <1>1, <4>2, <4>3, CostNat, ClaimedNat DEF RoundBudgetTypeOK
    <3>2. existing + Claimed' <= budget
      <4>1. budget \in Int /\ existing \in Nat /\ Claimed \in Nat
        BY ClaimedNat, RoundBudgetAssumption DEF RoundBudgetTypeOK, Unread, Failed
      <4> QED
        BY <1>3, <3>1, <4>1, CostNat DEF Remaining
    <3>3. Exposure' = Exposure
      BY <1>1 DEF Exposure, ledger
    <3>4. Added' = Added
      BY <1>1, <1>3, <2>1 DEF Added, RoundBudgetTypeOK
    <3>5. TotalAdded' = TotalAdded
      BY <3>4 DEF TotalAdded
    <3> QED
      BY <1>1, <3>2, <3>3, <3>5 DEF ClaimsFit
  <2>5. NoBudgetLeak'
    BY <1>1, <1>3, <2>1 DEF NoBudgetLeak, RoundBudgetTypeOK, ledger
  <2> QED
    BY <2>2, <2>3, <2>4, <2>5
<1> QED
  BY <1>2, <1>3 DEF ClaimFixedEntry

LEMMA ReserveInv ==
  ASSUME BudgetInv, NEW a \in Assets, ReserveEntry(a)
  PROVE  BudgetInv'
<1> USE DEF BudgetInv
<1>1. /\ worker[a] = "claimed" /\ claims[a] > 0 /\ budget >= 0
      /\ UNCHANGED <<round, budget, existing, claims, losses, crashes>>
  BY DEF ReserveEntry, ClaimsAreCosts
<1>2. CASE Ledger!Reserve(<<round, a>>) /\ At(a, "done")
  <2>1. worker' = [worker EXCEPT ![a] = "done"]
    BY <1>2 DEF At
  <2>2. <<round, a>> \in Markets
    BY DEF RoundBudgetTypeOK, Markets
  <2>3. /\ LedgerInv' /\ stage'[<<round, a>>] = "pending"
        /\ \A m \in Markets : stage[m] # "none" => stage'[m] # "none"
    BY <1>2, <2>2, LedgerReserves
  <2>4. RoundBudgetTypeOK'
    BY <1>1, <2>1, <2>3 DEF RoundBudgetTypeOK, LedgerInv
  <2>5. ClaimsAreCosts'
    BY <1>1, <2>1 DEF ClaimsAreCosts, RoundBudgetTypeOK, Cost
  <2>6. ClaimsFit'
    <3>1. TotalAdded' = TotalAdded + Notional
      <4>1. /\ Added[a] = 0 /\ Added'[a] = Notional
            /\ \A b \in Assets : Added[b] \in Nat /\ Added'[b] \in Nat
            /\ \A b \in Assets \ {a} : Added[b] = Added'[b]
        BY <1>1, <2>1, CostNat DEF Added, RoundBudgetTypeOK
      <4>2. TotalAdded' = TotalAdded - Added[a] + Added'[a]
        BY <4>1, FiniteMarkets, SumChange DEF TotalAdded
      <4> QED
        BY <4>1, <4>2, AddedNat, CostNat
    <3>2. Exposure' <= Exposure + Notional
      BY <1>2, <2>2, ExposureReserves
    <3>3. Claimed' = Claimed
      BY <1>1 DEF Claimed
    <3>4. Exposure \in Nat /\ Exposure' \in Nat /\ existing \in Nat
      BY <2>3, ExposureNat DEF RoundBudgetTypeOK
    <3> QED
      BY <1>1, <3>1, <3>2, <3>3, <3>4, AddedNat, CostNat DEF ClaimsFit
  <2>7. NoBudgetLeak'
    <3>1. \A b \in Assets : <<round, b>> \in Markets
      BY DEF RoundBudgetTypeOK, Markets
    <3> QED
      BY <1>1, <2>1, <2>3, <3>1 DEF NoBudgetLeak, RoundBudgetTypeOK
  <2> QED
    BY <2>3, <2>4, <2>5, <2>6, <2>7
<1>3. CASE At(a, "unclaim") /\ UNCHANGED ledger
  <2>1. worker' = [worker EXCEPT ![a] = "unclaim"]
    BY <1>3 DEF At
  <2>2. RoundBudgetTypeOK' /\ LedgerInv'
    BY <1>1, <1>3, <2>1
       DEF RoundBudgetTypeOK, LedgerInv, Ledger!LedgerTypeOK, ledger, Markets
  <2>3. ClaimsAreCosts' /\ NoBudgetLeak'
    BY <1>1, <1>3, <2>1
       DEF ClaimsAreCosts, NoBudgetLeak, RoundBudgetTypeOK, Cost, ledger
  <2>6. Added' = Added
    BY <1>1, <1>3, <2>1 DEF Added, RoundBudgetTypeOK
  <2>4. TotalAdded' = TotalAdded /\ Exposure' = Exposure
    BY <1>3, <2>6 DEF TotalAdded, Exposure, ledger
  <2>5. ClaimsFit'
    BY <1>1, <2>2, <2>4, ExposureNat, ClaimsKept
  <2> QED
    BY <2>2, <2>3, <2>5
<1> QED
  BY <1>2, <1>3 DEF ReserveEntry

LEMMA ReleaseInv ==
  ASSUME BudgetInv, NEW a \in Assets, ReleaseClaim(a)
  PROVE  BudgetInv'
<1> USE DEF BudgetInv
<1>1. /\ worker[a] = "unclaim" /\ claims' = [claims EXCEPT ![a] = 0]
      /\ worker' = [worker EXCEPT ![a] = "done"]
      /\ UNCHANGED <<round, budget, existing, ledger, losses, crashes>>
  BY DEF ReleaseClaim, At
<1>2. RoundBudgetTypeOK' /\ LedgerInv'
  BY <1>1 DEF RoundBudgetTypeOK, LedgerInv, Ledger!LedgerTypeOK, ledger, Markets
<1>3. ClaimsAreCosts' /\ NoBudgetLeak'
  BY <1>1 DEF ClaimsAreCosts, NoBudgetLeak, RoundBudgetTypeOK, Cost, ledger
<1>4. TotalAdded' = TotalAdded /\ Exposure' = Exposure
  <2>1. Added' = Added
    BY <1>1 DEF Added, RoundBudgetTypeOK
  <2> QED
    BY <1>1, <2>1 DEF TotalAdded, Exposure, ledger
<1>5. Claimed' <= Claimed /\ Claimed' \in Nat /\ Claimed \in Nat
  <2>1. \A b \in Assets : claims[b] \in Nat /\ claims'[b] \in Nat
                          /\ claims'[b] <= claims[b]
    BY <1>1, <1>2 DEF RoundBudgetTypeOK
  <2>2. Claimed' <= Claimed
    BY <2>1, FiniteMarkets, SumLeq DEF Claimed
  <2> QED
    BY <1>2, <2>1, <2>2, FiniteMarkets, SumNat DEF Claimed
<1>6. ClaimsFit'
  <2>1. budget \in Int /\ existing \in Nat /\ budget' = budget /\ existing' = existing
    BY <1>1, RoundBudgetAssumption DEF RoundBudgetTypeOK, Unread, Failed
  <2>2. ASSUME NEW c \in Nat, NEW d \in Nat, d <= c, c = 0 \/ existing + c <= budget
        PROVE  d = 0 \/ existing + d <= budget
    BY <2>1, <2>2
  <2> QED
    BY <1>4, <1>5, <2>1, <2>2 DEF ClaimsFit
<1> QED
  BY <1>2, <1>3, <1>6

LEMMA BudgetStep == BudgetInv /\ [RoundBudgetNext]_budgetVars => BudgetInv'
<1> SUFFICES ASSUME BudgetInv, [RoundBudgetNext]_budgetVars PROVE BudgetInv'
  OBVIOUS
<1>1. ASSUME NEW a \in Assets, Preflight(a) PROVE BudgetInv'
  BY <1>1, PreflightInv
<1>2. ASSUME NEW a \in Assets, HoldEntry(a) PROVE BudgetInv'
  <2>1. claims[a] = 0
    BY <1>2 DEF HoldEntry, BudgetInv, ClaimsAreCosts, RoundBudgetTypeOK
  <2> QED
    BY <1>2, <2>1, WorkerMoves DEF HoldEntry
<1>3. ASSUME NEW a \in Assets, CheckEntryRisk(a) PROVE BudgetInv'
  <2>1. claims[a] = 0 /\ budget >= 0
    BY <1>3 DEF CheckEntryRisk, BudgetInv, ClaimsAreCosts, RoundBudgetTypeOK
  <2>2. At(a, "checked") \/ At(a, "done")
    BY <1>3 DEF CheckEntryRisk
  <2> QED
    BY <1>3, <2>1, <2>2, WorkerMoves DEF CheckEntryRisk
<1>4. ASSUME NEW a \in Assets, ClaimFixedEntry(a) PROVE BudgetInv'
  BY <1>4, ClaimInv
<1>5. ASSUME NEW a \in Assets, ReserveEntry(a) PROVE BudgetInv'
  BY <1>5, ReserveInv
<1>6. ASSUME NEW a \in Assets, ReleaseClaim(a) PROVE BudgetInv'
  BY <1>6, ReleaseInv
<1>7. ASSUME NEW m \in Markets, Resolve(m) PROVE BudgetInv'
  <2>1. Ledger!Release(m) \/ \E q \in 1 .. Notional : Ledger!Fill(m, q)
    BY <1>7 DEF Resolve
  <2>2. 1 \in 1 .. Notional
    BY RoundBudgetAssumption
  <2>3. LedgerInv' /\ LedgerShrinks
    BY <2>1, <2>2, LedgerSteps DEF BudgetInv
  <2> QED
    BY <1>7, <2>3, OrdersMove DEF Resolve, BudgetInv, RoundBudgetTypeOK
<1>8. ASSUME NEW m \in Markets, Settle(m) PROVE BudgetInv'
  <2>1. Ledger!Release(m) /\ 1 \in 1 .. Notional
    BY <1>8, RoundBudgetAssumption DEF Settle
  <2>2. LedgerInv' /\ LedgerShrinks
    BY <2>1, LedgerSteps DEF BudgetInv
  <2>3. losses' \in Nat
    BY <1>8 DEF Settle, BudgetInv, RoundBudgetTypeOK
  <2> QED
    BY <1>8, <2>2, <2>3, OrdersMove DEF Settle
<1>9. CASE NextRound
  <2>1. round' \in 1 .. MaxRounds /\ crashes' \in 0 .. MaxCrashes
    BY <1>9, RoundBudgetAssumption DEF NextRound, BudgetInv, RoundBudgetTypeOK
  <2>2. LedgerInv'
    BY <1>9 DEF NextRound, BudgetInv, LedgerInv, Ledger!LedgerTypeOK, ledger
  <2> QED
    BY <1>9, <2>1, <2>2, FreshFits DEF NextRound
<1>10. CASE CrashRound
  <2>1. round' \in 1 .. MaxRounds /\ crashes' \in 0 .. MaxCrashes
    BY <1>10, RoundBudgetAssumption DEF CrashRound, BudgetInv, RoundBudgetTypeOK
  <2>2. LedgerInv'
    BY <1>10, RoundBudgetAssumption
       DEF CrashRound, BudgetInv, LedgerInv, Ledger!LedgerTypeOK, Ledger!Stages,
           Ledger!Retire
  <2> QED
    BY <1>10, <2>1, <2>2, FreshFits DEF CrashRound
<1>11. CASE UNCHANGED budgetVars
  <2>1. UNCHANGED <<round, worker, budget, existing, claims, stage, amount, losses, crashes>>
    BY <1>11 DEF budgetVars, ledger
  <2>2. LedgerInv' /\ LedgerShrinks
    BY <2>1 DEF BudgetInv, LedgerInv, Ledger!LedgerTypeOK, LedgerShrinks
  <2> QED
    BY <2>1, <2>2, OrdersMove DEF BudgetInv, RoundBudgetTypeOK
<1> QED
  BY <1>1, <1>2, <1>3, <1>4, <1>5, <1>6, <1>7, <1>8, <1>9, <1>10, <1>11
     DEF RoundBudgetNext

-----------------------------------------------------------------------------
\* The entries of this round that still put something at risk.
Entered == {a \in Assets : claims[a] > 0
                             /\ stage[<<round, a>>] \in {"pending", "open"}}

\* What an entry adds to the exposure and what it pays in fees is its claim.
LEMMA ClaimsCover ==
  ASSUME BudgetInv
  PROVE  /\ SumFunctionOnSet(Fee, Entered) \in Nat
         /\ TotalAdded + SumFunctionOnSet(Fee, Entered) <= Claimed
<1> DEFINE fees == [a \in Assets |-> IF a \in Entered THEN Fee[a] ELSE 0]
           costs == [a \in Assets |-> Added[a] + fees[a]]
<1>1. Entered \in SUBSET Assets /\ IsFiniteSet(Assets) /\ IsFiniteSet(Entered)
  <2>1. Entered \in SUBSET Assets
    BY DEF Entered
  <2> QED
    BY <2>1, FiniteMarkets, FS_Subset
<1>2. \A a \in Assets : Fee[a] \in Nat /\ fees[a] \in Nat
  BY CostNat
<1>3. \A a \in Entered : Fee[a] \in Int /\ Fee[a] <= fees[a]
  BY <1>1, <1>2
<1>4. ASSUME NEW a \in Assets
      PROVE  /\ claims[a] \in Nat /\ Added[a] \in Nat
             /\ costs[a] = Added[a] + fees[a]
             /\ costs[a] \in Nat /\ costs[a] <= claims[a]
  <2>1. claims[a] \in Nat /\ claims[a] \in {0, Cost(a)} /\ Added[a] \in Nat
    BY AddedNat DEF BudgetInv, RoundBudgetTypeOK, ClaimsAreCosts
  <2>2. claims[a] = 0 => Added[a] = 0 /\ fees[a] = 0
    BY DEF Added, Entered
  <2>3. Added[a] <= Notional /\ fees[a] <= Fee[a]
    BY <1>2, CostNat DEF Added
  <2>4. costs[a] = Added[a] + fees[a]
    OBVIOUS
  <2> HIDE DEF fees, costs
  <2> QED
    BY <1>2, <2>1, <2>2, <2>3, <2>4, CostNat
<1>5. \A a \in Assets : /\ Added[a] \in Nat /\ fees[a] \in Nat
                        /\ costs[a] = Added[a] + fees[a]
                        /\ claims[a] \in Nat /\ costs[a] \in Int
                        /\ costs[a] <= claims[a]
  BY <1>2, <1>4
<1> HIDE DEF fees, costs
<1>6. SumFunctionOnSet(costs, Assets) = TotalAdded + SumFunctionOnSet(fees, Assets)
  BY <1>1, <1>5, SumPlus DEF TotalAdded
<1>7. SumFunctionOnSet(costs, Assets) <= Claimed
  BY <1>1, <1>5, SumLeq DEF Claimed
<1>8. SumFunctionOnSet(Fee, Entered) <= SumFunctionOnSet(fees, Assets)
  BY <1>1, <1>2, <1>3, SumLeq
<1>9. SumFunctionOnSet(Fee, Entered) \in Nat
  <2>1. \A a \in Entered : Fee[a] \in Nat
    BY <1>1, <1>2
  <2> QED
    BY <1>1, <2>1, SumNat
<1>10. SumFunctionOnSet(fees, Assets) \in Nat
  BY <1>1, <1>2, SumNat
<1>11. Claimed \in Nat /\ TotalAdded \in Nat
  BY AddedNat, ClaimedNat DEF BudgetInv, RoundBudgetTypeOK
<1> DEFINE fee == SumFunctionOnSet(Fee, Entered)
           all == SumFunctionOnSet(fees, Assets)
<1>12. /\ all \in Nat /\ fee \in Nat /\ fee <= all
       /\ TotalAdded + all <= Claimed
  BY <1>6, <1>7, <1>8, <1>9, <1>10
<1> HIDE DEF fee, all
<1>13. TotalAdded + fee <= Claimed
  BY <1>11, <1>12
<1> QED
  BY <1>9, <1>13 DEF fee

\* What the claims cover fits in the budget.
LEMMA BudgetHolds == BudgetInv => RiskWithinBudget
<1> SUFFICES ASSUME BudgetInv, budget >= 0
             PROVE  Exposure <= existing
                      \/ Exposure + SumFunctionOnSet(Fee, Entered) <= budget
  BY DEF RiskWithinBudget, Entered
<1>1. /\ Exposure \in Nat /\ existing \in Nat /\ Claimed \in Nat
      /\ TotalAdded \in Nat /\ budget \in Int
  BY ExposureNat, ClaimedNat, AddedNat, RoundBudgetAssumption
     DEF BudgetInv, RoundBudgetTypeOK, Unread, Failed
<1> DEFINE fee == SumFunctionOnSet(Fee, Entered)
<1>2. fee \in Nat /\ TotalAdded + fee <= Claimed
  BY ClaimsCover
<1> HIDE DEF fee
<1>3. Exposure <= existing + TotalAdded
  BY DEF BudgetInv, ClaimsFit
<1>4. CASE Claimed = 0
  BY <1>1, <1>2, <1>3, <1>4
<1>5. CASE existing + Claimed <= budget
  <2>1. Exposure + fee <= budget
    BY <1>1, <1>2, <1>3, <1>5
  <2> QED
    BY <2>1 DEF fee
<1> QED
  BY <1>4, <1>5 DEF BudgetInv, ClaimsFit

\* The strengthening holds in every reachable state, whatever the number of
\* assets, the amounts and the budgets the venue reports.
THEOREM BudgetInvariant == RoundBudgetSpec => []BudgetInv
BY BudgetStart, BudgetStep, PTL DEF RoundBudgetSpec

\* However the workers of one round and the sweeps interleave, the durable
\* risk with this round's fees stays inside the budget of the snapshot, or
\* below what was at risk before (claim_fixed_entry, reserve_entry and the
\* exposure queries of the store).
THEOREM RiskStaysInBudget == RoundBudgetSpec => []RiskWithinBudget
BY BudgetInvariant, BudgetHolds, PTL

\* A claim is held back only for an order that exists or can still be made
\* (the finally clause that releases the claim).
THEOREM NoClaimLeaks == RoundBudgetSpec => []NoBudgetLeak
<1>1. BudgetInv => NoBudgetLeak
  BY DEF BudgetInv
<1> QED
  BY <1>1, BudgetInvariant, PTL

\* Every step of the round changes the orders only as the ledger allows.
LEMMA BudgetMovesLedger ==
  ASSUME RoundBudgetTypeOK, [RoundBudgetNext]_budgetVars
  PROVE  [Ledger!Next]_Ledger!ledgerVars
<1>1. CASE UNCHANGED ledger
  BY <1>1 DEF ledger, Ledger!ledgerVars
<1>2. ASSUME NEW a \in Assets, ReserveEntry(a) PROVE [Ledger!Next]_Ledger!ledgerVars
  <2>1. CASE Ledger!Reserve(<<round, a>>)
    <3>1. <<round, a>> \in Markets
      BY DEF RoundBudgetTypeOK, Markets
    <3> QED
      BY <2>1, <3>1 DEF Ledger!Next
  <2> QED
    BY <1>1, <1>2, <2>1 DEF ReserveEntry
<1>3. ASSUME NEW m \in Markets, Resolve(m) \/ Settle(m) PROVE Ledger!Next
  BY <1>3 DEF Resolve, Settle, Ledger!Next
<1>4. CASE CrashRound
  BY <1>4 DEF CrashRound, Ledger!Next
<1>5. ASSUME NEW a \in Assets,
             \/ Preflight(a) \/ HoldEntry(a) \/ CheckEntryRisk(a)
             \/ ClaimFixedEntry(a) \/ ReleaseClaim(a)
      PROVE  UNCHANGED ledger
  BY <1>5 DEF Preflight, HoldEntry, CheckEntryRisk, ClaimFixedEntry, ReleaseClaim
<1>6. NextRound \/ UNCHANGED budgetVars => UNCHANGED ledger
  BY DEF NextRound, budgetVars
<1> QED
  BY <1>1, <1>2, <1>3, <1>4, <1>5, <1>6 DEF RoundBudgetNext

\* The round sees no more of the orders than the ledger says, and writes to
\* them only by reserving: the same ledger that the lifecycle implements.
THEOREM BudgetUsesLedger == RoundBudgetSpec => Ledger!Spec
<1>1. RoundBudgetInit => Ledger!Init
  BY DEF RoundBudgetInit
<1>2. BudgetInv /\ [RoundBudgetNext]_budgetVars => [Ledger!Next]_Ledger!ledgerVars
  BY BudgetMovesLedger DEF BudgetInv
<1> QED
  BY <1>1, <1>2, BudgetInvariant, PTL DEF RoundBudgetSpec, Ledger!Spec
=============================================================================
