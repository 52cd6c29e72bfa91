----------------------------- MODULE SumTheorems -----------------------------
(***************************************************************************)
(* Facts about SumFunctionOnSet(f, S), the sum of f[x] over a finite set S *)
(* (community module Functions).  It is a fold with a recursive function,  *)
(* and proofs about it are by induction over finite sets: a set of         *)
(* counterexamples has a smallest one.                                     *)
(***************************************************************************)
EXTENDS Integers, Functions, FiniteSetTheorems, WellFoundedInduction, TLAPS

LOCAL Chosen(s) == CHOOSE x \in s : TRUE
LOCAL Rest(s)   == s \ {Chosen(s)}

\* g gives the sum of f over every subset of U.
LOCAL IsSum(g, f, U) ==
  g = [s \in SUBSET U |-> IF s = {} THEN 0 ELSE f[Chosen(s)] + g[Rest(s)]]

LEMMA ChosenIsMember ==
  ASSUME NEW s, s # {}
  PROVE  Chosen(s) \in s /\ Rest(s) \subseteq s /\ Rest(s) # s
BY DEF Chosen, Rest

\* A set of subsets of a finite set has a smallest member.
LEMMA SmallestSubset ==
  ASSUME NEW S, IsFiniteSet(S), NEW Bad, Bad \subseteq SUBSET S, Bad # {}
  PROVE  \E T \in Bad : \A U \in SUBSET T : U # T => U \notin Bad
<1>1. Bad \subseteq FiniteSubsetsOf(S)
  BY FS_Subset DEF FiniteSubsetsOf
<1>2. PICK T \in Bad : \A U \in Bad : <<U, T>> \notin StrictSubsetOrdering(S)
  BY <1>1, WFMin, FS_StrictSubsetOrderingWellFounded
<1>3. QED
  BY <1>2 DEF StrictSubsetOrdering

LEMMA SumIsUnique ==
  ASSUME NEW f, NEW g, NEW h, NEW U, NEW V, IsSum(g, f, U), IsSum(h, f, V),
         NEW W, IsFiniteSet(W), W \subseteq U, W \subseteq V
  PROVE  g[W] = h[W]
<1> DEFINE Bad == {s \in SUBSET W : g[s] # h[s]}
<1> SUFFICES ASSUME Bad # {} PROVE FALSE
  OBVIOUS
<1>1. PICK s \in Bad : \A u \in SUBSET s : u # s => u \notin Bad
  <2>1. Bad \subseteq SUBSET W
    OBVIOUS
  <2> HIDE DEF Bad
  <2>2. QED
    BY <2>1, SmallestSubset
<1>2. s \in SUBSET U /\ s \in SUBSET V
  OBVIOUS
<1>3. g[s] = (IF s = {} THEN 0 ELSE f[Chosen(s)] + g[Rest(s)])
  BY <1>2 DEF IsSum
<1>4. h[s] = (IF s = {} THEN 0 ELSE f[Chosen(s)] + h[Rest(s)])
  BY <1>2 DEF IsSum
<1>5. s # {} => g[Rest(s)] = h[Rest(s)]
  BY <1>1, ChosenIsMember
<1>6. QED
  BY <1>3, <1>4, <1>5

LEMMA SumExists ==
  ASSUME NEW f, NEW S, IsFiniteSet(S)
  PROVE  \E g : IsSum(g, f, S)
<1> DEFINE Bad == {T \in SUBSET S : ~\E g : IsSum(g, f, T)}
<1> SUFFICES ASSUME Bad # {} PROVE FALSE
  OBVIOUS
<1>1. PICK T \in Bad : \A U \in SUBSET T : U # T => U \notin Bad
  <2>1. Bad \subseteq SUBSET S
    OBVIOUS
  <2> HIDE DEF Bad
  <2>2. QED
    BY <2>1, SmallestSubset
<1> DEFINE G(U) == CHOOSE g : IsSum(g, f, U)
           h == [s \in SUBSET T |-> IF s = {} THEN 0 ELSE f[Chosen(s)] + G(Rest(s))[Rest(s)]]
<1>2. ASSUME NEW U, U \subseteq T, U # T
      PROVE  IsSum(G(U), f, U) /\ IsFiniteSet(U)
  <2>1. \E g : IsSum(g, f, U)
    BY <1>1, <1>2
  <2>2. QED
    BY <1>2, <2>1, FS_Subset
<1> HIDE DEF G
<1>3. ASSUME NEW u, u \subseteq T, u # T
      PROVE  h[u] = G(u)[u]
  <2>1. G(u)[u] = (IF u = {} THEN 0 ELSE f[Chosen(u)] + G(u)[Rest(u)])
    <3>1. IsSum(G(u), f, u) /\ u \in SUBSET u
      BY <1>2, <1>3
    <3>2. QED
      BY <3>1 DEF IsSum
  <2>2. CASE u = {}
    BY <2>1, <2>2
  <2>3. CASE u # {}
    <3>1. Rest(u) \subseteq u /\ Rest(u) # u /\ Rest(u) \subseteq T /\ Rest(u) # T
      BY <1>3, <2>3, ChosenIsMember
    <3>2. G(u)[Rest(u)] = G(Rest(u))[Rest(u)]
      BY <1>2, <1>3, <3>1, SumIsUnique
    <3>3. h[u] = f[Chosen(u)] + G(Rest(u))[Rest(u)]
      BY <1>3, <2>3
    <3>4. QED
      BY <2>1, <2>3, <3>2, <3>3
  <2>4. QED
    BY <2>2, <2>3
<1>4. ASSUME NEW s \in SUBSET T, s # {}
      PROVE  G(Rest(s))[Rest(s)] = h[Rest(s)]
  <2>1. Rest(s) \subseteq T /\ Rest(s) # T
    BY <1>4, ChosenIsMember
  <2> HIDE DEF h
  <2>2. QED
    BY <1>3, <2>1
<1>5. IsSum(h, f, T)
  <2>1. h = [s \in SUBSET T |-> IF s = {} THEN 0 ELSE f[Chosen(s)] + h[Rest(s)]]
    BY <1>4
  <2>2. QED
    BY <2>1 DEF IsSum
<1>6. QED
  BY <1>5

LEMMA SumIsFold ==
  ASSUME NEW f, NEW S, IsFiniteSet(S)
  PROVE  \E g : IsSum(g, f, S) /\ SumFunctionOnSet(f, S) = g[S]
<1>1. SumFunctionOnSet(f, S) = (CHOOSE g : IsSum(g, f, S))[S]
  BY DEF SumFunctionOnSet, FoldFunctionOnSet, MapThenFoldSet, IsSum, Chosen, Rest
<1>2. QED
  BY <1>1, SumExists

\* The recursion of a sum.
THEOREM SumStep ==
  ASSUME NEW f, NEW S, IsFiniteSet(S)
  PROVE  /\ S = {} => SumFunctionOnSet(f, S) = 0
         /\ S # {} => SumFunctionOnSet(f, S) = f[Chosen(S)] + SumFunctionOnSet(f, Rest(S))
<1>1. PICK g : IsSum(g, f, S) /\ SumFunctionOnSet(f, S) = g[S]
  BY SumIsFold
<1>2. g[S] = (IF S = {} THEN 0 ELSE f[Chosen(S)] + g[Rest(S)])
  <2>1. S \in SUBSET S
    OBVIOUS
  <2>2. QED
    BY <1>1, <2>1 DEF IsSum
<1>3. ASSUME S # {}
      PROVE  g[Rest(S)] = SumFunctionOnSet(f, Rest(S))
  <2>1. Rest(S) \subseteq S /\ IsFiniteSet(Rest(S))
    BY <1>3, ChosenIsMember, FS_Subset
  <2>2. PICK h : IsSum(h, f, Rest(S)) /\ SumFunctionOnSet(f, Rest(S)) = h[Rest(S)]
    BY <2>1, SumIsFold
  <2>3. QED
    BY <1>1, <2>1, <2>2, SumIsUnique
<1>4. QED
  BY <1>1, <1>2, <1>3

\* A sum of integers is an integer.
THEOREM SumType ==
  ASSUME NEW f, NEW S, IsFiniteSet(S), \A x \in S : f[x] \in Int
  PROVE  SumFunctionOnSet(f, S) \in Int
<1> DEFINE Bad == {T \in SUBSET S : SumFunctionOnSet(f, T) \notin Int}
<1> SUFFICES ASSUME Bad # {} PROVE FALSE
  OBVIOUS
<1>1. PICK T \in Bad : \A U \in SUBSET T : U # T => U \notin Bad
  <2>1. Bad \subseteq SUBSET S
    OBVIOUS
  <2> HIDE DEF Bad
  <2>2. QED
    BY <2>1, SmallestSubset
<1>2. IsFiniteSet(T)
  BY FS_Subset
<1>3. T # {} => Chosen(T) \in S /\ SumFunctionOnSet(f, Rest(T)) \in Int
  BY <1>1, ChosenIsMember
<1>4. QED
  BY <1>2, <1>3, SumStep

\* Functions that agree on a set have the same sum over it.
THEOREM SameSum ==
  ASSUME NEW f, NEW g, NEW S, IsFiniteSet(S), \A x \in S : f[x] = g[x]
  PROVE  SumFunctionOnSet(f, S) = SumFunctionOnSet(g, S)
<1> DEFINE Bad == {T \in SUBSET S : SumFunctionOnSet(f, T) # SumFunctionOnSet(g, T)}
<1> SUFFICES ASSUME Bad # {} PROVE FALSE
  OBVIOUS
<1>1. PICK T \in Bad : \A U \in SUBSET T : U # T => U \notin Bad
  <2>1. Bad \subseteq SUBSET S
    OBVIOUS
  <2> HIDE DEF Bad
  <2>2. QED
    BY <2>1, SmallestSubset
<1>2. IsFiniteSet(T)
  BY FS_Subset
<1>3. T # {} => f[Chosen(T)] = g[Chosen(T)] /\ SumFunctionOnSet(f, Rest(T)) = SumFunctionOnSet(g, Rest(T))
  BY <1>1, ChosenIsMember
<1>4. QED
  BY <1>2, <1>3, SumStep

THEOREM SumOfZeros ==
  ASSUME NEW f, NEW S, IsFiniteSet(S), \A x \in S : f[x] = 0
  PROVE  SumFunctionOnSet(f, S) = 0
<1> DEFINE Bad == {T \in SUBSET S : SumFunctionOnSet(f, T) # 0}
<1> SUFFICES ASSUME Bad # {} PROVE FALSE
  OBVIOUS
<1>1. PICK T \in Bad : \A U \in SUBSET T : U # T => U \notin Bad
  <2>1. Bad \subseteq SUBSET S
    OBVIOUS
  <2> HIDE DEF Bad
  <2>2. QED
    BY <2>1, SmallestSubset
<1>2. IsFiniteSet(T)
  BY FS_Subset
<1>3. T # {} => f[Chosen(T)] = 0 /\ SumFunctionOnSet(f, Rest(T)) = 0
  BY <1>1, ChosenIsMember
<1>4. QED
  BY <1>2, <1>3, SumStep

\* A sum does not shrink when nothing it adds does.
THEOREM SumMonotone ==
  ASSUME NEW f, NEW g, NEW S, IsFiniteSet(S),
         \A x \in S : f[x] \in Int /\ g[x] \in Int /\ f[x] <= g[x]
  PROVE  SumFunctionOnSet(f, S) <= SumFunctionOnSet(g, S)
<1> DEFINE Bad == {T \in SUBSET S : ~(SumFunctionOnSet(f, T) <= SumFunctionOnSet(g, T))}
<1> SUFFICES ASSUME Bad # {} PROVE FALSE
  OBVIOUS
<1>1. PICK T \in Bad : \A U \in SUBSET T : U # T => U \notin Bad
  <2>1. Bad \subseteq SUBSET S
    OBVIOUS
  <2> HIDE DEF Bad
  <2>2. QED
    BY <2>1, SmallestSubset
<1>2. IsFiniteSet(T)
  BY FS_Subset
<1>3. CASE T = {}
  <2>1. SumFunctionOnSet(f, T) = 0 /\ SumFunctionOnSet(g, T) = 0
    BY <1>2, <1>3, SumStep
  <2>2. QED
    BY <2>1
<1>4. CASE T # {}
  <2>1. /\ f[Chosen(T)] \in Int /\ g[Chosen(T)] \in Int /\ f[Chosen(T)] <= g[Chosen(T)]
        /\ Rest(T) \subseteq S /\ IsFiniteSet(Rest(T))
        /\ SumFunctionOnSet(f, Rest(T)) <= SumFunctionOnSet(g, Rest(T))
    BY <1>1, <1>4, ChosenIsMember, FS_Subset
  <2>2. SumFunctionOnSet(f, Rest(T)) \in Int /\ SumFunctionOnSet(g, Rest(T)) \in Int
    BY <2>1, SumType
  <2>3. /\ SumFunctionOnSet(f, T) = f[Chosen(T)] + SumFunctionOnSet(f, Rest(T))
        /\ SumFunctionOnSet(g, T) = g[Chosen(T)] + SumFunctionOnSet(g, Rest(T))
    BY <1>2, <1>4, SumStep
  <2>4. QED
    BY <2>1, <2>2, <2>3
<1>5. QED
  BY <1>3, <1>4

\* Any element may be taken out of a sum first.
THEOREM SumRemove ==
  ASSUME NEW f, NEW S, IsFiniteSet(S), \A x \in S : f[x] \in Int, NEW a \in S
  PROVE  SumFunctionOnSet(f, S) = f[a] + SumFunctionOnSet(f, S \ {a})
<1> DEFINE Right(T, x) == SumFunctionOnSet(f, T) = f[x] + SumFunctionOnSet(f, T \ {x})
           Bad == {T \in SUBSET S : \E x \in T : ~Right(T, x)}
<1> SUFFICES ASSUME Bad # {} PROVE FALSE
  OBVIOUS
<1>1. PICK T \in Bad : \A U \in SUBSET T : U # T => U \notin Bad
  <2>1. Bad \subseteq SUBSET S
    OBVIOUS
  <2> HIDE DEF Bad
  <2>2. QED
    BY <2>1, SmallestSubset
<1>2. PICK x \in T : ~Right(T, x)
  OBVIOUS
<1> DEFINE z == Chosen(T)
           V == (T \ {x}) \ {z}
<1>3. /\ T \subseteq S /\ T # {} /\ z \in T /\ Rest(T) = T \ {z}
      /\ IsFiniteSet(T) /\ IsFiniteSet(T \ {z}) /\ IsFiniteSet(T \ {x}) /\ IsFiniteSet(V)
  BY <1>1, FS_Subset, ChosenIsMember DEF Rest
<1>4. Right(T, z)
  BY <1>3, SumStep, ZenonT(60)
<1>5. x # z /\ x \in T \ {z} /\ z \in T \ {x}
  BY <1>2, <1>3, <1>4
<1>6. T \ {z} \notin Bad /\ T \ {x} \notin Bad
  BY <1>1, <1>2, <1>3
<1>7. Right(T \ {z}, x) /\ Right(T \ {x}, z)
  BY <1>3, <1>5, <1>6
<1>8. (T \ {z}) \ {x} = V
  OBVIOUS
<1>9. SumFunctionOnSet(f, V) \in Int /\ f[x] \in Int /\ f[z] \in Int
  BY <1>3, SumType
<1>10. QED
  <2>1. SumFunctionOnSet(f, T) = f[z] + (f[x] + SumFunctionOnSet(f, V))
    BY <1>4, <1>7, <1>8
  <2>2. SumFunctionOnSet(f, T \ {x}) = f[z] + SumFunctionOnSet(f, V)
    BY <1>7
  <2>3. QED
    BY <1>2, <1>9, <2>1, <2>2

\* Adding an element to the set adds its value to the sum.
THEOREM SumAdd ==
  ASSUME NEW f, NEW S, IsFiniteSet(S), NEW a, a \notin S,
         \A x \in S \cup {a} : f[x] \in Int
  PROVE  SumFunctionOnSet(f, S \cup {a}) = f[a] + SumFunctionOnSet(f, S)
<1> DEFINE T == S \cup {a}
<1>1. IsFiniteSet(T) /\ a \in T /\ T \ {a} = S /\ \A x \in T : f[x] \in Int
  BY FS_AddElement
<1> HIDE DEF T
<1>2. SumFunctionOnSet(f, T) = f[a] + SumFunctionOnSet(f, T \ {a})
  BY <1>1, SumRemove
<1>3. QED
  BY <1>1, <1>2 DEF T

\* Changing f at one place changes the sum as much.
THEOREM SumUpdate ==
  ASSUME NEW f, NEW g, NEW S, IsFiniteSet(S), NEW a \in S,
         \A x \in S : f[x] \in Int /\ g[x] \in Int,
         \A x \in S \ {a} : f[x] = g[x]
  PROVE  SumFunctionOnSet(g, S) = SumFunctionOnSet(f, S) + (g[a] - f[a])
<1>1. IsFiniteSet(S \ {a}) /\ SumFunctionOnSet(f, S \ {a}) \in Int
  BY FS_Subset, SumType
<1>2. SumFunctionOnSet(g, S \ {a}) = SumFunctionOnSet(f, S \ {a})
  BY <1>1, SameSum
<1>3. /\ SumFunctionOnSet(f, S) = f[a] + SumFunctionOnSet(f, S \ {a})
      /\ SumFunctionOnSet(g, S) = g[a] + SumFunctionOnSet(g, S \ {a})
  BY SumRemove
<1>4. QED
  BY <1>1, <1>2, <1>3

\* Among finitely many there is one whose value is largest.
THEOREM LargestValue ==
  ASSUME NEW g, NEW S, IsFiniteSet(S), S # {}, \A x \in S : g[x] \in Int
  PROVE  \E x \in S : \A y \in S : g[x] >= g[y]
<1> DEFINE Bad == {T \in SUBSET S : T # {} /\ ~\E x \in T : \A y \in T : g[x] >= g[y]}
<1> SUFFICES ASSUME Bad # {} PROVE FALSE
  OBVIOUS
<1>1. PICK T \in Bad : \A U \in SUBSET T : U # T => U \notin Bad
  <2>1. Bad \subseteq SUBSET S
    OBVIOUS
  <2> HIDE DEF Bad
  <2>2. QED
    BY <2>1, SmallestSubset
<1>2. /\ T # {} /\ T \subseteq S /\ Chosen(T) \in T
      /\ Rest(T) \subseteq T /\ Rest(T) # T
  BY <1>1, ChosenIsMember
<1>3. CASE Rest(T) = {}
  <2>1. T = {Chosen(T)} /\ g[Chosen(T)] \in Int
    BY <1>2, <1>3 DEF Rest
  <2>2. QED
    BY <2>1
<1>4. CASE Rest(T) # {}
  <2>1. PICK x \in Rest(T) : \A y \in Rest(T) : g[x] >= g[y]
    BY <1>1, <1>2, <1>4
  <2>2. /\ x \in T /\ g[x] \in Int /\ g[Chosen(T)] \in Int
        /\ \A y \in T : g[y] \in Int /\ (y = Chosen(T) \/ y \in Rest(T))
    BY <1>2, <2>1 DEF Rest
  <2>3. CASE g[x] >= g[Chosen(T)]
    BY <2>1, <2>2, <2>3
  <2>4. CASE ~(g[x] >= g[Chosen(T)])
    <3>1. \A y \in T : g[Chosen(T)] >= g[y]
      BY <2>1, <2>2, <2>4
    <3>2. QED
      BY <1>2, <3>1
  <2>5. QED
    BY <2>3, <2>4
<1>5. QED
  BY <1>3, <1>4
=============================================================================
