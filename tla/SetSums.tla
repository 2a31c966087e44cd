------------------------------ MODULE SetSums ------------------------------
(***************************************************************************)
(* Sums over a finite set, as MapThenSumSet of FiniteSetsExt computes      *)
(* them: which element a step of its recursion takes does not matter, so a *)
(* sum splits at any element and depends on the summands only.             *)
(*                                                                         *)
(* The summands are a function, and a sum is a value of a fold: a function *)
(* on the subsets of D that takes one element at a time.  Every induction  *)
(* is on a smallest counterexample among the subsets of a finite set.      *)
(***************************************************************************)
EXTENDS Integers, FiniteSets, FiniteSetsExt, FiniteSetTheorems, WellFoundedInduction, TLAPS

Pick(s) == CHOOSE x \in s : TRUE
Rest(s) == s \ {Pick(s)}

IsFold(D, g, h) == h = [s \in SUBSET D |-> IF s = {} THEN 0 ELSE g[Pick(s)] + h[Rest(s)]]
FoldOf(D, g) == CHOOSE h : IsFold(D, g, h)

\* The sum of g over D.
Total(g, D) == FoldOf(D, g)[D]

\* Among sets of subsets of a finite set one is smallest.
LEMMA Smallest ==
  ASSUME NEW S, IsFiniteSet(S), NEW T \in SUBSET SUBSET S, T # {}
  PROVE  \E m \in T : \A y \in T : y \subseteq m => y = m
  <1>1. IsWellFoundedOn(StrictSubsetOrdering(S), SUBSET S)
    BY FS_StrictSubsetOrderingWellFounded, FS_FiniteSubsetsOfFinite
  <1>2. \E m \in T : \A y \in T : <<y, m>> \notin StrictSubsetOrdering(S)
    BY <1>1, WFMin
  <1> QED BY <1>2 DEF StrictSubsetOrdering

LEMMA PickFacts ==
  ASSUME NEW s, s # {}
  PROVE  Pick(s) \in s /\ Rest(s) \subseteq s /\ Rest(s) # s
  BY DEF Pick, Rest

LEMMA FoldValue ==
  ASSUME NEW D, NEW g, NEW h, IsFold(D, g, h)
  PROVE  DOMAIN h = SUBSET D /\ h[{}] = 0
  <1>1. \A s \in SUBSET D : h[s] = IF s = {} THEN 0 ELSE g[Pick(s)] + h[Rest(s)]
    BY Zenon DEF IsFold
  <1>2. DOMAIN h = SUBSET D
    BY Zenon DEF IsFold
  <1> QED BY <1>1, <1>2, Zenon

LEMMA FoldStep ==
  ASSUME NEW D, NEW g, NEW h, IsFold(D, g, h), NEW s, s \subseteq D, s # {}
  PROVE  h[s] = g[Pick(s)] + h[Rest(s)]
  <1>1. \A t \in SUBSET D : h[t] = IF t = {} THEN 0 ELSE g[Pick(t)] + h[Rest(t)]
    BY Zenon DEF IsFold
  <1>2. s \in SUBSET D
    OBVIOUS
  <1> QED BY <1>1, <1>2, Zenon

\* Folds of functions that agree on a finite set agree on it, whatever their
\* domains.
LEMMA FoldsAgree ==
  ASSUME NEW C, NEW D, NEW f, NEW g, NEW h, NEW k, IsFold(C, f, h), IsFold(D, g, k),
         NEW U, U \subseteq C, U \subseteq D, IsFiniteSet(U),
         \A x \in U : f[x] = g[x]
  PROVE  h[U] = k[U]
  <1> DEFINE Bad == {s \in SUBSET U : h[s] # k[s]}
  <1>1. SUFFICES ASSUME Bad # {} PROVE FALSE
    BY <1>1
  <1>2. PICK m \in Bad : \A y \in Bad : y \subseteq m => y = m
    <2>1. Bad \in SUBSET SUBSET U
      OBVIOUS
    <2> HIDE DEF Bad
    <2> QED BY <1>1, <2>1, Smallest
  <1>3. m # {}
    <2>1. h[{}] = 0 /\ k[{}] = 0
      BY FoldValue
    <2> QED BY <1>2, <2>1
  <1>4. Pick(m) \in m /\ Rest(m) \subseteq m /\ Rest(m) # m
    BY <1>3, PickFacts
  <1>5. h[Rest(m)] = k[Rest(m)]
    BY <1>2, <1>4
  <1>6. h[m] = f[Pick(m)] + h[Rest(m)] /\ k[m] = g[Pick(m)] + k[Rest(m)]
    <2>1. m \subseteq C /\ m \subseteq D
      BY <1>2
    <2> QED BY <1>3, <2>1, FoldStep
  <1>7. h[m] = k[m]
    BY <1>4, <1>5, <1>6
  <1> QED BY <1>7

\* A finite set has a fold: the folds of its subsets are glued together.
LEMMA FoldExists ==
  ASSUME NEW D, NEW g, IsFiniteSet(D)
  PROVE  IsFold(D, g, FoldOf(D, g))
  <1> DEFINE Bad == {s \in SUBSET D : ~ \E h : IsFold(s, g, h)}
  <1>0. SUFFICES ASSUME Bad # {} PROVE FALSE
    <2>1. D \notin Bad => \E h : IsFold(D, g, h)
      OBVIOUS
    <2> QED BY <1>0, <2>1 DEF FoldOf
  <1>1. PICK m \in Bad : \A y \in Bad : y \subseteq m => y = m
    <2>1. Bad \in SUBSET SUBSET D
      OBVIOUS
    <2> HIDE DEF Bad
    <2> QED BY <1>0, <2>1, Smallest
  <1>2. \A s \in SUBSET m : s # m => IsFold(s, g, FoldOf(s, g))
    <2> SUFFICES ASSUME NEW s \in SUBSET m, s # m PROVE IsFold(s, g, FoldOf(s, g))
      OBVIOUS
    <2>1. \E h : IsFold(s, g, h)
      BY <1>1
    <2> QED BY <2>1 DEF FoldOf
  <1>3. \A s \in SUBSET m : IsFiniteSet(s)
    BY FS_Subset
  <1> DEFINE h == [s \in SUBSET m |-> IF s = {} THEN 0 ELSE g[Pick(s)] + Total(g, Rest(s))]
  <1>4. \A s \in SUBSET m : s # m => h[s] = Total(g, s)
    <2> SUFFICES ASSUME NEW s \in SUBSET m, s # m PROVE h[s] = Total(g, s)
      OBVIOUS
    <2>1. IsFold(s, g, FoldOf(s, g))
      BY <1>2
    <2>2. CASE s = {}
      BY <2>1, <2>2, FoldValue DEF Total
    <2>3. CASE s # {}
      <3>1. Rest(s) \subseteq s /\ Rest(s) \in SUBSET m /\ Rest(s) # m
        BY <2>3, PickFacts
      <3>2. FoldOf(s, g)[Rest(s)] = FoldOf(Rest(s), g)[Rest(s)]
        BY <1>2, <1>3, <2>1, <3>1, FoldsAgree
      <3>3. FoldOf(s, g)[s] = g[Pick(s)] + FoldOf(s, g)[Rest(s)]
        <4>1. s \subseteq s
          OBVIOUS
        <4> QED BY <2>1, <2>3, <4>1, FoldStep
      <3> QED BY <2>3, <3>2, <3>3 DEF Total
    <2> QED BY <2>2, <2>3
  <1>5. \A s \in SUBSET m : s # {} => h[Rest(s)] = Total(g, Rest(s))
    <2> SUFFICES ASSUME NEW s \in SUBSET m, s # {} PROVE h[Rest(s)] = Total(g, Rest(s))
      OBVIOUS
    <2>1. Rest(s) \in SUBSET m /\ Rest(s) # m
      BY PickFacts
    <2> HIDE DEF h
    <2> QED BY <1>4, <2>1
  <1>6. IsFold(m, g, h)
    <2>1. h = [s \in SUBSET m |-> IF s = {} THEN 0 ELSE g[Pick(s)] + h[Rest(s)]]
      <3>1. \A s \in SUBSET m : h[s] = IF s = {} THEN 0 ELSE g[Pick(s)] + h[Rest(s)]
        <4> SUFFICES ASSUME NEW s \in SUBSET m
                     PROVE  h[s] = IF s = {} THEN 0 ELSE g[Pick(s)] + h[Rest(s)]
          OBVIOUS
        <4>1. h[s] = IF s = {} THEN 0 ELSE g[Pick(s)] + Total(g, Rest(s))
          OBVIOUS
        <4>2. s # {} => h[Rest(s)] = Total(g, Rest(s))
          BY <1>5
        <4> HIDE DEF h
        <4> QED BY <4>1, <4>2, Zenon
      <3>2. h \in [SUBSET m -> {h[s] : s \in SUBSET m}]
        OBVIOUS
      <3> HIDE DEF h
      <3> QED BY <3>1, <3>2
    <2> HIDE DEF h
    <2> QED BY <2>1, Zenon DEF IsFold
  <1> HIDE DEF h
  <1> QED BY <1>1, <1>6

(***************************************************************************)
(* Sums                                                                    *)
(***************************************************************************)
\* A sum over part of D is what the fold of D has there.
LEMMA TotalIsFold ==
  ASSUME NEW D, NEW g, IsFiniteSet(D), NEW h, IsFold(D, g, h), NEW S \in SUBSET D
  PROVE  h[S] = Total(g, S)
  <1>1. IsFiniteSet(S)
    BY FS_Subset
  <1>2. IsFold(S, g, FoldOf(S, g))
    BY <1>1, FoldExists
  <1> QED BY <1>1, <1>2, FoldsAgree DEF Total

LEMMA WholeFold ==
  ASSUME NEW D, NEW g, IsFiniteSet(D), NEW h, IsFold(D, g, h)
  PROVE  h[D] = Total(g, D)
  BY TotalIsFold

LEMMA TotalEmpty ==
  ASSUME NEW g
  PROVE  Total(g, {}) = 0
  BY FoldExists, FoldValue, FS_EmptySet DEF Total

\* Only the summands count.
LEMMA TotalAgrees ==
  ASSUME NEW D, NEW f, NEW g, IsFiniteSet(D), \A x \in D : f[x] = g[x]
  PROVE  Total(f, D) = Total(g, D)
  <1>1. IsFold(D, f, FoldOf(D, f)) /\ IsFold(D, g, FoldOf(D, g))
    BY FoldExists
  <1> QED BY <1>1, FoldsAgree DEF Total

LEMMA TotalInt ==
  ASSUME NEW D, NEW g, IsFiniteSet(D), \A x \in D : g[x] \in Int
  PROVE  Total(g, D) \in Int
  <1> DEFINE h == FoldOf(D, g)
             Bad == {s \in SUBSET D : h[s] \notin Int}
  <1>1. IsFold(D, g, h)
    BY FoldExists
  <1> HIDE DEF h
  <1>2. SUFFICES ASSUME Bad # {} PROVE FALSE
    BY <1>2 DEF Total, h
  <1>3. PICK m \in Bad : \A y \in Bad : y \subseteq m => y = m
    <2>1. Bad \in SUBSET SUBSET D
      OBVIOUS
    <2> HIDE DEF Bad
    <2> QED BY <1>2, <2>1, Smallest
  <1>4. m # {}
    <2>1. h[{}] = 0
      BY <1>1, FoldValue
    <2> QED BY <1>3, <2>1
  <1>5. Pick(m) \in D /\ h[Rest(m)] \in Int
    BY <1>3, <1>4, PickFacts
  <1>6. h[m] = g[Pick(m)] + h[Rest(m)]
    <2>1. m \subseteq D
      BY <1>3
    <2> QED BY <1>1, <1>4, <2>1, FoldStep
  <1> QED BY <1>5, <1>6

\* A sum splits at any of its elements.
LEMMA TotalSplits ==
  ASSUME NEW D, NEW g, IsFiniteSet(D), \A x \in D : g[x] \in Int, NEW x \in D
  PROVE  Total(g, D) = g[x] + Total(g, D \ {x})
  <1> DEFINE h == FoldOf(D, g)
             Splits(s) == \A y \in s : h[s] = g[y] + h[s \ {y}]
             Bad == {s \in SUBSET D : ~Splits(s)}
  <1>1. IsFold(D, g, h)
    BY FoldExists
  <1>2. \A s \in SUBSET D : h[s] = Total(g, s)
    BY <1>1, TotalIsFold
  <1>3. \A s \in SUBSET D : h[s] \in Int
    <2> SUFFICES ASSUME NEW s \in SUBSET D PROVE Total(g, s) \in Int
      BY <1>2
    <2> QED BY TotalInt, FS_Subset
  <1> HIDE DEF h
  <1>4. Bad = {}
    <2>1. SUFFICES ASSUME Bad # {} PROVE FALSE
      BY <2>1
    <2>2. PICK m \in Bad : \A y \in Bad : y \subseteq m => y = m
      <3>1. Bad \in SUBSET SUBSET D
        OBVIOUS
      <3> HIDE DEF Bad
      <3> QED BY <2>1, <3>1, Smallest
    <2>3. PICK y \in m : h[m] # g[y] + h[m \ {y}]
      BY <2>2
    <2> DEFINE z == Pick(m)
    <2>4. z \in m /\ Rest(m) = m \ {z}
      BY <2>3, PickFacts DEF Rest
    <2>5. h[m] = g[z] + h[m \ {z}]
      <3>1. m \subseteq D /\ m # {}
        BY <2>2, <2>3
      <3>2. h[m] = g[Pick(m)] + h[Rest(m)]
        BY <1>1, <3>1, FoldStep
      <3> QED BY <2>4, <3>2
    <2> HIDE DEF z
    <2>6. y # z
      BY <2>3, <2>5
    <2>7. Splits(m \ {z}) /\ Splits(m \ {y})
      <3>1. \A w \in m : Splits(m \ {w})
        <4> SUFFICES ASSUME NEW w \in m PROVE m \ {w} \notin Bad
          OBVIOUS
        <4>1. m \ {w} \subseteq m /\ m \ {w} # m
          OBVIOUS
        <4> HIDE DEF Bad
        <4> QED BY <2>2, <4>1
      <3> QED BY <2>3, <2>4, <3>1
    <2>8. h[m \ {z}] = g[y] + h[(m \ {z}) \ {y}] /\ h[m \ {y}] = g[z] + h[(m \ {y}) \ {z}]
      BY <2>3, <2>4, <2>6, <2>7
    <2>9. (m \ {z}) \ {y} = (m \ {y}) \ {z} /\ (m \ {y}) \ {z} \in SUBSET D
      OBVIOUS
    <2>10. g[y] \in Int /\ g[z] \in Int /\ h[(m \ {y}) \ {z}] \in Int
      BY <1>3, <2>3, <2>4, <2>9
    <2>11. g[z] + (g[y] + h[(m \ {y}) \ {z}]) = g[y] + (g[z] + h[(m \ {y}) \ {z}])
      BY <2>10
    <2> QED BY <2>3, <2>5, <2>8, <2>9, <2>11, Zenon
  <1>5. h[D] = g[x] + h[D \ {x}]
    BY <1>4
  <1> QED BY <1>2, <1>5
=============================================================================
