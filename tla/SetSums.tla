------------------------------ MODULE SetSums ------------------------------
(***************************************************************************)
(* Sums over finite sets: what MapThenSumSet of the community modules adds *)
(* up, as facts that proofs about ledgers and budgets cite.  The fold is a *)
(* recursive function, so the proofs argue about a smallest set that       *)
(* fails, which the well-foundedness of strict inclusion provides.         *)
(***************************************************************************)
EXTENDS Integers, FiniteSetsExt, FiniteSetTheorems, WellFoundedInduction, TLAPS

(* The sum of f[i] for i in S. *)
Total(f, S) == MapThenSumSet(LAMBDA i : f[i], S)

-----------------------------------------------------------------------------
(* A set of subsets of a finite set that is not empty has a smallest member.  *)
LEMMA SmallestSubset ==
    ASSUME NEW S, IsFiniteSet(S), NEW Bad \in SUBSET (SUBSET S), Bad # {}
    PROVE  \E T \in Bad : \A U \in SUBSET T : U # T => U \notin Bad
<1>1. IsWellFoundedOn(StrictSubsetOrdering(S), SUBSET S)
    BY FS_StrictSubsetOrderingWellFounded, FS_FiniteSubsetsOfFinite
<1>2. PICK T \in Bad : \A U \in Bad : <<U, T>> \notin StrictSubsetOrdering(S)
    BY <1>1, WFMin
<1>3. ASSUME NEW U \in SUBSET T, U # T PROVE U \notin Bad
  <2>1. U \in SUBSET S /\ T \in SUBSET S  BY <1>3
  <2>2. <<U, T>> \in StrictSubsetOrdering(S)  BY <1>3, <2>1 DEF StrictSubsetOrdering
  <2> QED BY <1>2, <2>2
<1> QED BY <1>3

(* The function the fold computes: what it takes out of s, and its equation.  *)
Taken(s) == CHOOSE x \in s : TRUE
Folded(f, g, s) == IF s = {} THEN 0 ELSE f[Taken(s)] + g[s \ {Taken(s)}]
Solves(f, g, S) == g = [s \in SUBSET S |-> Folded(f, g, s)]
Fold(f, S) == CHOOSE g : Solves(f, g, S)

LEMMA TotalIsFold == \A f, S : Total(f, S) = Fold(f, S)[S]
BY DEF Total, MapThenSumSet, MapThenFoldSet, Fold, Solves, Folded, Taken

LEMMA TakenIsIn == \A s : s # {} => Taken(s) \in s
BY DEF Taken

LEMMA SolutionValue ==
    ASSUME NEW f, NEW g, NEW S, Solves(f, g, S), NEW s \in SUBSET S
    PROVE  g[s] = Folded(f, g, s)
BY DEF Solves

(* Two solutions agree wherever both are defined. *)
LEMMA SolutionsAgree ==
    ASSUME NEW f, NEW S, IsFiniteSet(S), NEW g, Solves(f, g, S),
           NEW T \in SUBSET S, NEW h, Solves(f, h, T)
    PROVE  \A s \in SUBSET T : g[s] = h[s]
<1> DEFINE Bad == {s \in SUBSET T : g[s] # h[s]}
<1> SUFFICES ASSUME Bad # {} PROVE FALSE  OBVIOUS
<1>1. IsFiniteSet(T) /\ Bad \in SUBSET (SUBSET T)  BY FS_Subset
<1> HIDE DEF Bad
<1>2. PICK s \in Bad : \A u \in SUBSET s : u # s => u \notin Bad
    BY <1>1, SmallestSubset
<1> USE DEF Bad
<1>3. s \in SUBSET T /\ s \in SUBSET S  BY <1>2
<1>4. g[s] = Folded(f, g, s) /\ h[s] = Folded(f, h, s)  BY <1>3, SolutionValue
<1>5. CASE s = {}  BY <1>4, <1>5 DEF Folded
<1>6. CASE s # {}
  <2> DEFINE u == s \ {Taken(s)}
  <2>1. u \in SUBSET s /\ u # s  BY <1>6, TakenIsIn
  <2>2. u \in SUBSET T /\ u \notin Bad  BY <1>2, <1>3, <2>1
  <2>3. g[u] = h[u]  BY <2>2
  <2> QED BY <1>4, <1>6, <2>3 DEF Folded
<1> QED BY <1>5, <1>6

LEMMA SolutionExists ==
    ASSUME NEW f, NEW S, IsFiniteSet(S)
    PROVE  Solves(f, Fold(f, S), S)
<1> DEFINE Bad == {T \in SUBSET S : ~ \E g : Solves(f, g, T)}
<1>1. Bad = {}
  <2> SUFFICES ASSUME Bad # {} PROVE FALSE  OBVIOUS
  <2>0. Bad \in SUBSET (SUBSET S)  OBVIOUS
  <2> HIDE DEF Bad
  <2>1. PICK T \in Bad : \A U \in SUBSET T : U # T => U \notin Bad  BY <2>0, SmallestSubset
  <2> USE DEF Bad
  <2>2. T \in SUBSET S /\ IsFiniteSet(T)  BY <2>1, FS_Subset
  <2>3. \A U \in SUBSET T : U # T => Solves(f, Fold(f, U), U)
    <3> SUFFICES ASSUME NEW U \in SUBSET T, U # T PROVE Solves(f, Fold(f, U), U)  OBVIOUS
    <3>1. \E g : Solves(f, g, U)  BY <2>1, <2>2
    <3> QED BY <3>1 DEF Fold
  <2> DEFINE below(s) == s \ {Taken(s)}
             h == [s \in SUBSET T |-> IF s = {} THEN 0 ELSE f[Taken(s)] + Fold(f, below(s))[below(s)]]
  <2>4. ASSUME NEW s \in SUBSET T PROVE h[s] = Folded(f, h, s)
    <3>1. CASE s = {}  BY <3>1 DEF Folded
    <3>2. CASE s # {}
      <4> DEFINE u == below(s)
      <4>1. u \in SUBSET T /\ u # T  BY <2>4, <3>2, TakenIsIn
      <4>2. Solves(f, Fold(f, u), u) /\ IsFiniteSet(u)  BY <2>2, <2>3, <4>1, FS_Subset
      <4>3. Fold(f, u)[u] = Folded(f, Fold(f, u), u)  BY <4>2, SolutionValue
      <4>4. h[u] = Fold(f, u)[u]
        <5>1. CASE u = {}  BY <4>1, <4>3, <5>1 DEF Folded
        <5>2. CASE u # {}
          <6>1. below(u) \in SUBSET u /\ below(u) \in SUBSET T /\ below(u) # T
              BY <4>1, <5>2, TakenIsIn
          <6>2. Solves(f, Fold(f, below(u)), below(u))  BY <2>3, <6>1
          <6>3. Fold(f, u)[below(u)] = Fold(f, below(u))[below(u)]
              BY <4>2, <6>1, <6>2, SolutionsAgree
          <6>4. h[u] = f[Taken(u)] + Fold(f, below(u))[below(u)]  BY <4>1, <5>2
          <6> QED BY <4>3, <5>2, <6>3, <6>4 DEF Folded
        <5> QED BY <5>1, <5>2
      <4>5. h[s] = f[Taken(s)] + Fold(f, u)[u]  BY <3>2
      <4> HIDE DEF h, u
      <4> QED BY <3>2, <4>4, <4>5 DEF Folded, u, below
    <3> QED BY <3>1, <3>2
  <2>5. Solves(f, h, T)
    <3>1. h = [s \in SUBSET T |-> h[s]]  OBVIOUS
    <3> HIDE DEF h
    <3> QED BY <2>4, <3>1 DEF Solves
  <2> QED BY <2>1, <2>5
<1>2. S \in SUBSET S  OBVIOUS
<1>3. \E g : Solves(f, g, S)  BY <1>1, <1>2
<1> QED BY <1>3 DEF Fold

-----------------------------------------------------------------------------
(* What a proof cites: the sum over the empty set, ...                        *)
LEMMA TotalEmpty == \A f : Total(f, {}) = 0
<1> SUFFICES ASSUME NEW f PROVE Total(f, {}) = 0  OBVIOUS
<1>1. Solves(f, Fold(f, {}), {})  BY FS_EmptySet, SolutionExists
<1>2. Fold(f, {})[{}] = Folded(f, Fold(f, {}), {})  BY <1>1, SolutionValue
<1> QED BY <1>2, TotalIsFold DEF Folded

LEMMA TotalUnfolds ==
    ASSUME NEW f, NEW S, IsFiniteSet(S), S # {}
    PROVE  Total(f, S) = f[Taken(S)] + Total(f, S \ {Taken(S)})
<1> DEFINE u == S \ {Taken(S)}
<1>1. u \in SUBSET S /\ S \in SUBSET S /\ IsFiniteSet(u)  BY FS_Subset
<1>2. Solves(f, Fold(f, S), S) /\ Solves(f, Fold(f, u), u)  BY <1>1, SolutionExists
<1>3. Fold(f, S)[S] = Folded(f, Fold(f, S), S)  BY <1>1, <1>2, SolutionValue
<1>4. Fold(f, S)[u] = Fold(f, u)[u]
  <2> HIDE DEF u
  <2>1. u \in SUBSET u  OBVIOUS
  <2> QED BY <1>1, <1>2, <2>1, SolutionsAgree
<1> QED BY <1>3, <1>4, TotalIsFold DEF Folded

(* ... its type, ...                                                          *)
LEMMA TotalType ==
    ASSUME NEW f, NEW S, IsFiniteSet(S), \A i \in S : f[i] \in Int
    PROVE  Total(f, S) \in Int
<1> DEFINE Bad == {T \in SUBSET S : Total(f, T) \notin Int}
<1>1. Bad = {}
  <2> SUFFICES ASSUME Bad # {} PROVE FALSE  OBVIOUS
  <2>0. Bad \in SUBSET (SUBSET S)  OBVIOUS
  <2> HIDE DEF Bad
  <2>1. PICK T \in Bad : \A U \in SUBSET T : U # T => U \notin Bad  BY <2>0, SmallestSubset
  <2> USE DEF Bad
  <2>2. T \in SUBSET S /\ IsFiniteSet(T) /\ Total(f, T) \notin Int  BY <2>1, FS_Subset
  <2>3. T # {}  BY <2>2, TotalEmpty
  <2>4. Taken(T) \in T /\ Taken(T) \in S  BY <2>2, <2>3, TakenIsIn
  <2>5. T \ {Taken(T)} \in SUBSET T /\ T \ {Taken(T)} # T  BY <2>4
  <2>6. Total(f, T \ {Taken(T)}) \in Int  BY <2>1, <2>2, <2>5
  <2>7. Total(f, T) = f[Taken(T)] + Total(f, T \ {Taken(T)})  BY <2>2, <2>3, TotalUnfolds
  <2>8. f[Taken(T)] \in Int  BY <2>4
  <2> QED BY <2>2, <2>6, <2>7, <2>8
<1>2. S \in SUBSET S  OBVIOUS
<1> QED BY <1>1, <1>2

(* ... and that any element may be taken out first.                           *)
LEMMA TotalRemove ==
    ASSUME NEW f, NEW S, IsFiniteSet(S), \A i \in S : f[i] \in Int, NEW x \in S
    PROVE  Total(f, S) = f[x] + Total(f, S \ {x})
<1> DEFINE First(T, z) == Total(f, T) = f[z] + Total(f, T \ {z})
           Bad == {T \in SUBSET S : ~ \A z \in T : First(T, z)}
<1>1. Bad = {}
  <2> SUFFICES ASSUME Bad # {} PROVE FALSE  OBVIOUS
  <2>0. Bad \in SUBSET (SUBSET S)  OBVIOUS
  <2> HIDE DEF Bad
  <2>1. PICK T \in Bad : \A U \in SUBSET T : U # T => U \notin Bad  BY <2>0, SmallestSubset
  <2> USE DEF Bad
  <2>2. T \in SUBSET S /\ IsFiniteSet(T)  BY <2>1, FS_Subset
  <2>3. PICK z \in T : ~ First(T, z)  BY <2>1
  <2> DEFINE y == Taken(T)
             rest == T \ {z, y}
  <2>4. y \in T /\ First(T, y)  BY <2>2, <2>3, TakenIsIn, TotalUnfolds
  <2>5. z # y  BY <2>3, <2>4
  <2>6. (T \ {y}) \ {z} = rest /\ (T \ {z}) \ {y} = rest /\ IsFiniteSet(rest) /\ rest \in SUBSET S
      BY <2>2, FS_Subset
  <2>7. \A U \in SUBSET T : U # T => \A w \in U : First(U, w)
    <3> SUFFICES ASSUME NEW U \in SUBSET T, U # T PROVE \A w \in U : First(U, w)  OBVIOUS
    <3>1. U \in SUBSET S /\ U \notin Bad  BY <2>1, <2>2
    <3> QED BY <3>1
  <2> HIDE DEF y
  <2>8. Total(f, T \ {y}) = f[z] + Total(f, rest)
    <3>1. T \ {y} \in SUBSET T /\ T \ {y} # T /\ z \in T \ {y}  BY <2>3, <2>4, <2>5
    <3> QED BY <2>6, <2>7, <3>1
  <2>9. Total(f, T \ {z}) = f[y] + Total(f, rest)
    <3>1. T \ {z} \in SUBSET T /\ T \ {z} # T /\ y \in T \ {z}  BY <2>3, <2>4, <2>5
    <3> QED BY <2>6, <2>7, <3>1
  <2>10. Total(f, rest) \in Int /\ f[z] \in Int /\ f[y] \in Int
    <3>1. \A i \in rest : f[i] \in Int  BY <2>2
    <3> QED BY <2>2, <2>3, <2>4, <2>6, <3>1, TotalType
  <2> HIDE DEF rest
  <2> QED BY <2>3, <2>4, <2>8, <2>9, <2>10
<1>2. S \in SUBSET S  OBVIOUS
<1> QED BY <1>1, <1>2

(* Of natural numbers: an element more adds at most its value, ...            *)
LEMMA TotalAdd ==
    ASSUME NEW f, NEW S, IsFiniteSet(S), NEW x, \A i \in S \cup {x} : f[i] \in Nat
    PROVE  Total(f, S \cup {x}) <= Total(f, S) + f[x]
<1>1. Total(f, S) \in Int /\ f[x] \in Nat  BY TotalType
<1>2. CASE x \in S
  <2>1. S \cup {x} = S  BY <1>2
  <2>2. Total(f, S \cup {x}) = Total(f, S)  BY <2>1, Zenon
  <2> QED BY <1>1, <2>2
<1>3. CASE x \notin S
  <2> DEFINE T == S \cup {x}
  <2>1. IsFiniteSet(T) /\ x \in T /\ T \ {x} = S  BY <1>3, FS_AddElement
  <2>2. \A i \in T : f[i] \in Int  OBVIOUS
  <2> HIDE DEF T
  <2>3. Total(f, T) = f[x] + Total(f, S)  BY <2>1, <2>2, TotalRemove
  <2> QED BY <1>1, <2>3 DEF T
<1> QED BY <1>2, <1>3

(* ... and an element less adds nothing.                                      *)
LEMMA TotalDrop ==
    ASSUME NEW f, NEW S, IsFiniteSet(S), \A i \in S : f[i] \in Nat, NEW x
    PROVE  Total(f, S \ {x}) <= Total(f, S)
<1>1. IsFiniteSet(S \ {x})  BY FS_Subset
<1>2. Total(f, S \ {x}) \in Int  BY <1>1, TotalType
<1>3. CASE x \in S  BY <1>2, <1>3, TotalRemove
<1>4. CASE x \notin S
  <2>1. S \ {x} = S  BY <1>4
  <2>2. Total(f, S \ {x}) = Total(f, S)  BY <2>1, Zenon
  <2> QED BY <1>2, <2>2
<1> QED BY <1>3, <1>4
=============================================================================
