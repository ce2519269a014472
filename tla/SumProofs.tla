----------------------------- MODULE SumProofs -----------------------------
(***************************************************************************)
(* Sums over finite sets, SumFunctionOnSet of the community modules, which *)
(* the models of the accounts are built from.                              *)
(*                                                                         *)
(* The library defines the sum by recursion over a set, one element chosen *)
(* at a time.  The lemmas say what it is without the choice: any element   *)
(* may be taken out first, so adding, dropping or changing one element     *)
(* changes the sum by that element.                                        *)
(*                                                                         *)
(* Each proof by induction takes, of the subsets that refute the claim, a  *)
(* smallest one (Smallest) and finds a smaller one.                        *)
(***************************************************************************)
EXTENDS Functions, FiniteSetsExt, FiniteSetTheorems, TLAPS

Pick(s) == CHOOSE x \in s : TRUE

\* g adds f up over every subset of S, as the library does
Adds(g, f, S) == g = [s \in SUBSET S |-> IF s = {} THEN 0 ELSE f[Pick(s)] + g[s \ {Pick(s)}]]

\* The sum is what a function that adds up gives for the whole set.
LEMMA SumIs ==
  ASSUME NEW f, NEW S
  PROVE  SumFunctionOnSet(f, S) = (CHOOSE g : Adds(g, f, S))[S]
BY DEF SumFunctionOnSet, FoldFunctionOnSet, MapThenFoldSet, Adds, Pick

\* Of the subsets of a finite set that are in T, one has no smaller one in T.
LEMMA Smallest ==
  ASSUME NEW S, IsFiniteSet(S), NEW T \in SUBSET (SUBSET S), T # {}
  PROVE  \E U \in T : \A V \in SUBSET U : V # U => V \notin T
<1>1. IsWellFoundedOn(StrictSubsetOrdering(S), SUBSET S)
  BY FS_StrictSubsetOrderingWellFounded, FS_FiniteSubsetsOfFinite
<1>2. PICK U \in T : \A V \in T : <<V, U>> \notin StrictSubsetOrdering(S)
  BY <1>1, WFMin
<1> QED
  BY <1>2 DEF StrictSubsetOrdering

\* What is picked is there, and leaves a smaller set.
LEMMA PickIn ==
  ASSUME NEW s, s # {}
  PROVE  Pick(s) \in s /\ s \ {Pick(s)} \subseteq s /\ s \ {Pick(s)} # s
BY DEF Pick

\* Two functions that add f up over S and over a part of it agree on that part.
LEMMA AddsAgree ==
  ASSUME NEW f, NEW S, IsFiniteSet(S), NEW R \in SUBSET S,
         NEW g, Adds(g, f, S), NEW h, Adds(h, f, R)
  PROVE  \A s \in SUBSET R : g[s] = h[s]
<1> DEFINE T == {s \in SUBSET R : g[s] # h[s]}
<1> SUFFICES ASSUME T # {} PROVE FALSE
  OBVIOUS
<1>1. T \in SUBSET (SUBSET S)
  OBVIOUS
<1>2. PICK U \in T : \A V \in SUBSET U : V # U => V \notin T
  <2> HIDE DEF T
  <2> QED BY <1>1, Smallest
<1>3. /\ \A s \in SUBSET S : g[s] = IF s = {} THEN 0 ELSE f[Pick(s)] + g[s \ {Pick(s)}]
      /\ \A s \in SUBSET R : h[s] = IF s = {} THEN 0 ELSE f[Pick(s)] + h[s \ {Pick(s)}]
  BY Zenon DEF Adds
<1>4. U \in SUBSET R /\ U \in SUBSET S /\ g[U] # h[U]
  OBVIOUS
<1>5. U # {}
  BY <1>3, <1>4
<1>6. g[U \ {Pick(U)}] = h[U \ {Pick(U)}]
  BY <1>2, <1>4, <1>5, PickIn
<1> QED
  BY <1>3, <1>4, <1>5, <1>6

\* Such a function exists for every finite set.
LEMMA AddsExists ==
  ASSUME NEW f, NEW S, IsFiniteSet(S)
  PROVE  \E g : Adds(g, f, S)
<1> DEFINE T == {s \in SUBSET S : \A g : ~Adds(g, f, s)}
<1> SUFFICES ASSUME T # {} PROVE FALSE
  OBVIOUS
<1>1. T \in SUBSET (SUBSET S)
  OBVIOUS
<1>2. PICK U \in T : \A V \in SUBSET U : V # U => V \notin T
  <2> HIDE DEF T
  <2> QED BY <1>1, Smallest
<1>3. U \in SUBSET S /\ \A g : ~Adds(g, f, U)
  OBVIOUS
<1> DEFINE G(V) == CHOOSE g : Adds(g, f, V)
           val(s) == IF s = {} THEN 0 ELSE f[Pick(s)] + G(s \ {Pick(s)})[s \ {Pick(s)}]
           h == [s \in SUBSET U |-> val(s)]
<1>4. ASSUME NEW V \in SUBSET U, V # U
      PROVE  Adds(G(V), f, V)
  <2>1. \E g : Adds(g, f, V)
    BY <1>2, <1>3, <1>4
  <2> QED BY <2>1
<1>5. ASSUME NEW V \in SUBSET U, V # U
      PROVE  h[V] = G(V)[V]
  <2>1. h[V] = val(V)
    OBVIOUS
  <2>2. G(V)[V] = IF V = {} THEN 0 ELSE f[Pick(V)] + G(V)[V \ {Pick(V)}]
    <3> HIDE DEF G
    <3> DEFINE gv == G(V)
    <3>1. gv = [s \in SUBSET V |-> IF s = {} THEN 0 ELSE f[Pick(s)] + gv[s \ {Pick(s)}]]
      BY <1>4, <1>5 DEF Adds
    <3> HIDE DEF gv
    <3>2. gv[V] = IF V = {} THEN 0 ELSE f[Pick(V)] + gv[V \ {Pick(V)}]
      BY <3>1
    <3> QED BY <3>2 DEF gv
  <2>3. CASE V = {}
    BY <2>1, <2>2, <2>3
  <2>4. CASE V # {}
    <3> DEFINE W == V \ {Pick(V)}
    <3>1. W \in SUBSET V /\ W \in SUBSET U /\ W # U
      BY <2>4, PickIn
    <3>2. Adds(G(V), f, V) /\ Adds(G(W), f, W)
      BY <1>4, <1>5, <3>1
    <3>3. IsFiniteSet(V)
      BY <1>3, FS_Subset
    <3> HIDE DEF G
    <3>4. G(V)[W] = G(W)[W]
      BY <3>1, <3>2, <3>3, AddsAgree
    <3> QED BY <2>1, <2>2, <2>4, <3>4
  <2> QED BY <2>3, <2>4
<1>6. \A s \in SUBSET U : val(s) = IF s = {} THEN 0 ELSE f[Pick(s)] + h[s \ {Pick(s)}]
  <2> TAKE s \in SUBSET U
  <2>1. CASE s = {}
    BY <2>1
  <2>2. CASE s # {}
    <3>1. s \ {Pick(s)} \in SUBSET U /\ s \ {Pick(s)} # U
      BY <2>2, PickIn
    <3>2. h[s \ {Pick(s)}] = G(s \ {Pick(s)})[s \ {Pick(s)}]
      <4> HIDE DEF h, G
      <4> QED BY <3>1, <1>5
    <3> HIDE DEF h, G
    <3> QED BY <2>2, <3>2
  <2> QED BY <2>1, <2>2
<1>7. Adds(h, f, U)
  <2> HIDE DEF val
  <2> SUFFICES h = [s \in SUBSET U |-> IF s = {} THEN 0 ELSE f[Pick(s)] + h[s \ {Pick(s)}]]
    BY DEF Adds
  <2> DEFINE k(s) == IF s = {} THEN 0 ELSE f[Pick(s)] + h[s \ {Pick(s)}]
  <2>1. \A s \in SUBSET U : val(s) = k(s)
    BY <1>6
  <2> HIDE DEF k
  <2>2. [s \in SUBSET U |-> val(s)] = [s \in SUBSET U |-> k(s)]
    BY <2>1
  <2> QED BY <2>2 DEF k
<1> QED
  BY <1>3, <1>7

\* The sum over nothing.
LEMMA SumEmpty ==
  ASSUME NEW f
  PROVE  SumFunctionOnSet(f, {}) = 0
<1> DEFINE g == CHOOSE g : Adds(g, f, {})
<1>1. Adds(g, f, {})
  BY AddsExists, FS_EmptySet
<1> HIDE DEF g
<1>2. g[{}] = 0
  <2>1. \A s \in SUBSET {} : g[s] = IF s = {} THEN 0 ELSE f[Pick(s)] + g[s \ {Pick(s)}]
    BY <1>1, Zenon DEF Adds
  <2> QED BY <2>1
<1> QED
  BY <1>2, SumIs DEF g

\* The sum as the library adds it up: the picked element, then the rest.
LEMMA SumPick ==
  ASSUME NEW f, NEW S, IsFiniteSet(S), S # {}
  PROVE  SumFunctionOnSet(f, S) = f[Pick(S)] + SumFunctionOnSet(f, S \ {Pick(S)})
<1> DEFINE R == S \ {Pick(S)}
           g == CHOOSE g : Adds(g, f, S)
           h == CHOOSE h : Adds(h, f, R)
<1>1. R \in SUBSET S /\ IsFiniteSet(R)
  BY PickIn, FS_Subset
<1> HIDE DEF R
<1>2. Adds(g, f, S) /\ Adds(h, f, R)
  BY <1>1, AddsExists
<1>3. SumFunctionOnSet(f, S) = g[S] /\ SumFunctionOnSet(f, R) = h[R]
  BY SumIs
<1> HIDE DEF g, h
<1>4. g[R] = h[R]
  BY <1>1, <1>2, AddsAgree
<1>5. \A s \in SUBSET S : g[s] = IF s = {} THEN 0 ELSE f[Pick(s)] + g[s \ {Pick(s)}]
  BY <1>2, Zenon DEF Adds
<1>6. g[S] = f[Pick(S)] + g[R]
  BY <1>5 DEF R
<1> QED
  BY <1>3, <1>4, <1>6 DEF R

\* A sum of integers is one.
LEMMA SumType ==
  ASSUME NEW f, NEW S, IsFiniteSet(S), \A x \in S : f[x] \in Int
  PROVE  SumFunctionOnSet(f, S) \in Int
<1> DEFINE T == {s \in SUBSET S : SumFunctionOnSet(f, s) \notin Int}
<1> SUFFICES ASSUME T # {} PROVE FALSE
  OBVIOUS
<1>1. T \in SUBSET (SUBSET S)
  OBVIOUS
<1>2. PICK U \in T : \A V \in SUBSET U : V # U => V \notin T
  <2> HIDE DEF T
  <2> QED BY <1>1, Smallest
<1>3. U \in SUBSET S /\ IsFiniteSet(U) /\ SumFunctionOnSet(f, U) \notin Int
  BY FS_Subset
<1>4. U # {}
  BY <1>3, SumEmpty
<1>5. Pick(U) \in U /\ SumFunctionOnSet(f, U \ {Pick(U)}) \in Int
  BY <1>2, <1>3, <1>4, PickIn
<1> QED
  BY <1>3, <1>4, <1>5, SumPick

\* Any element may be taken out of the sum.
LEMMA SumTake ==
  ASSUME NEW f, NEW S, IsFiniteSet(S), \A x \in S : f[x] \in Int, NEW e \in S
  PROVE  SumFunctionOnSet(f, S) = f[e] + SumFunctionOnSet(f, S \ {e})
<1> DEFINE Wrong(s, x) == SumFunctionOnSet(f, s) # f[x] + SumFunctionOnSet(f, s \ {x})
           T == {s \in SUBSET S : \E x \in s : Wrong(s, x)}
<1> SUFFICES ASSUME T # {} PROVE FALSE
  OBVIOUS
<1>1. T \in SUBSET (SUBSET S)
  OBVIOUS
<1>2. PICK U \in T : \A V \in SUBSET U : V # U => V \notin T
  <2> HIDE DEF T
  <2> QED BY <1>1, Smallest
<1>3. PICK x \in U : Wrong(U, x)
  OBVIOUS
<1>4. U \in SUBSET S /\ IsFiniteSet(U)
  BY FS_Subset
<1> DEFINE c == Pick(U)
           W == (U \ {x}) \ {c}
<1>5. c \in U /\ c \in S /\ x \in S
  BY <1>4, PickIn
<1>6. SumFunctionOnSet(f, U) = f[c] + SumFunctionOnSet(f, U \ {c})
  BY <1>3, <1>4, SumPick
<1>7. c # x
  BY <1>3, <1>6
<1> HIDE DEF c
<1>8. \A V \in SUBSET U : V # U => \A y \in V : ~Wrong(V, y)
  BY <1>2, <1>4
<1>9. SumFunctionOnSet(f, U \ {c}) = f[x] + SumFunctionOnSet(f, (U \ {c}) \ {x})
  BY <1>5, <1>7, <1>8
<1>10. SumFunctionOnSet(f, U \ {x}) = f[c] + SumFunctionOnSet(f, W)
  BY <1>5, <1>7, <1>8
<1>11. (U \ {c}) \ {x} = W
  OBVIOUS
<1>12. SumFunctionOnSet(f, W) \in Int
  <2>1. W \in SUBSET S /\ IsFiniteSet(W)
    BY <1>4, FS_Subset
  <2> QED BY <2>1, SumType
<1>13. SumFunctionOnSet(f, U) # f[x] + SumFunctionOnSet(f, U \ {x})
  BY <1>3
<1>14. f[x] \in Int /\ f[c] \in Int
  BY <1>5
<1> HIDE DEF W
<1>15. SumFunctionOnSet(f, U) = f[c] + (f[x] + SumFunctionOnSet(f, W))
  BY <1>6, <1>9, <1>11
<1>16. SumFunctionOnSet(f, U) # f[x] + (f[c] + SumFunctionOnSet(f, W))
  BY <1>10, <1>13
<1> QED
  BY <1>12, <1>14, <1>15, <1>16

\* A new element adds its own amount.
LEMMA SumAdd ==
  ASSUME NEW f, NEW S, IsFiniteSet(S), NEW e, e \notin S, \A x \in S \cup {e} : f[x] \in Int
  PROVE  SumFunctionOnSet(f, S \cup {e}) = f[e] + SumFunctionOnSet(f, S)
<1>1. IsFiniteSet(S \cup {e}) /\ (S \cup {e}) \ {e} = S
  BY FS_AddElement
<1> QED
  BY <1>1, SumTake

\* The sum looks at nothing but the amounts of the elements.
LEMMA SumSame ==
  ASSUME NEW f, NEW g, NEW S, IsFiniteSet(S), \A x \in S : f[x] = g[x]
  PROVE  SumFunctionOnSet(f, S) = SumFunctionOnSet(g, S)
<1> DEFINE T == {s \in SUBSET S : SumFunctionOnSet(f, s) # SumFunctionOnSet(g, s)}
<1> SUFFICES ASSUME T # {} PROVE FALSE
  OBVIOUS
<1>1. T \in SUBSET (SUBSET S)
  OBVIOUS
<1>2. PICK U \in T : \A V \in SUBSET U : V # U => V \notin T
  <2> HIDE DEF T
  <2> QED BY <1>1, Smallest
<1>3. U \in SUBSET S /\ IsFiniteSet(U) /\ SumFunctionOnSet(f, U) # SumFunctionOnSet(g, U)
  BY FS_Subset
<1>4. U # {}
  BY <1>3, SumEmpty
<1>5. /\ Pick(U) \in U
      /\ SumFunctionOnSet(f, U \ {Pick(U)}) = SumFunctionOnSet(g, U \ {Pick(U)})
  BY <1>2, <1>3, <1>4, PickIn
<1> QED
  BY <1>3, <1>4, <1>5, SumPick

\* A changed amount changes the sum by as much.
LEMMA SumChange ==
  ASSUME NEW f, NEW g, NEW S, IsFiniteSet(S), NEW e \in S, \A x \in S : f[x] \in Int /\ g[x] \in Int,
         \A x \in S \ {e} : g[x] = f[x]
  PROVE  /\ SumFunctionOnSet(f, S) \in Int
         /\ SumFunctionOnSet(g, S) = SumFunctionOnSet(f, S) - f[e] + g[e]
<1>1. SumFunctionOnSet(f, S) = f[e] + SumFunctionOnSet(f, S \ {e})
  BY SumTake
<1>2. SumFunctionOnSet(g, S) = g[e] + SumFunctionOnSet(g, S \ {e})
  BY SumTake
<1>3. IsFiniteSet(S \ {e})
  BY FS_RemoveElement
<1>4. SumFunctionOnSet(f, S \ {e}) = SumFunctionOnSet(g, S \ {e})
  BY <1>3, SumSame
<1>5. SumFunctionOnSet(f, S \ {e}) \in Int
  BY <1>3, SumType
<1> QED
  BY <1>1, <1>2, <1>4, <1>5

\* Nothing many times is nothing.
LEMMA SumZero ==
  ASSUME NEW S, IsFiniteSet(S)
  PROVE  SumFunctionOnSet([x \in S |-> 0], S) = 0
<1> DEFINE z == [x \in S |-> 0]
           T == {s \in SUBSET S : SumFunctionOnSet(z, s) # 0}
<1> SUFFICES ASSUME T # {}
             PROVE  FALSE
  OBVIOUS
<1>1. T \in SUBSET (SUBSET S)
  OBVIOUS
<1>2. PICK U \in T : \A V \in SUBSET U : V # U => V \notin T
  <2> HIDE DEF T
  <2> QED BY <1>1, Smallest
<1>3. U \in SUBSET S /\ IsFiniteSet(U) /\ SumFunctionOnSet(z, U) # 0 /\ U # {}
  BY FS_Subset, SumEmpty
<1>4. Pick(U) \in U /\ U \ {Pick(U)} \notin T
  BY <1>2, <1>3, PickIn
<1>5. SumFunctionOnSet(z, U \ {Pick(U)}) = 0 /\ z[Pick(U)] = 0
  BY <1>3, <1>4
<1> QED
  BY <1>3, <1>5, SumPick

\* Amounts below zero aside, a part sums to no more than the whole, and the
\* sum is no less than zero.
LEMMA SumPart ==
  ASSUME NEW f, NEW S, IsFiniteSet(S), \A x \in S : f[x] \in Nat, NEW R \in SUBSET S
  PROVE  /\ SumFunctionOnSet(f, S) \in Nat /\ SumFunctionOnSet(f, R) \in Nat
         /\ SumFunctionOnSet(f, R) <= SumFunctionOnSet(f, S)
<1> DEFINE Ok(s) == SumFunctionOnSet(f, R) <= SumFunctionOnSet(f, s)
           T == {s \in SUBSET S : R \subseteq s /\ ~Ok(s)}
           N == {s \in SUBSET S : SumFunctionOnSet(f, s) \notin Nat}
<1>1. N = {}
  <2> SUFFICES ASSUME N # {} PROVE FALSE
    OBVIOUS
  <2>1. N \in SUBSET (SUBSET S)
    OBVIOUS
  <2>2. PICK U \in N : \A V \in SUBSET U : V # U => V \notin N
    <3> HIDE DEF N
    <3> QED BY <2>1, Smallest
  <2>3. U \in SUBSET S /\ IsFiniteSet(U) /\ SumFunctionOnSet(f, U) \notin Nat
    BY FS_Subset
  <2>4. U # {}
    BY <2>3, SumEmpty
  <2>5. Pick(U) \in U /\ SumFunctionOnSet(f, U \ {Pick(U)}) \in Nat
    BY <2>2, <2>3, <2>4, PickIn
  <2> QED
    BY <2>3, <2>4, <2>5, SumPick
<1>2. T = {}
  <2> SUFFICES ASSUME T # {} PROVE FALSE
    OBVIOUS
  <2>1. T \in SUBSET (SUBSET S)
    OBVIOUS
  <2>2. PICK U \in T : \A V \in SUBSET U : V # U => V \notin T
    <3> HIDE DEF T
    <3> QED BY <2>1, Smallest
  <2>3. U \in SUBSET S /\ IsFiniteSet(U) /\ R \subseteq U /\ ~Ok(U)
    BY FS_Subset
  <2>4. SumFunctionOnSet(f, U) \in Nat /\ SumFunctionOnSet(f, R) \in Nat
    BY <1>1, <2>3
  <2>5. PICK x \in U : x \notin R
    BY <2>3, <2>4
  <2>6. U \ {x} \in SUBSET U /\ U \ {x} # U /\ R \subseteq U \ {x} /\ U \ {x} \in SUBSET S
    BY <2>3, <2>5
  <2>7. Ok(U \ {x})
    BY <2>2, <2>6
  <2>8. SumFunctionOnSet(f, U) = f[x] + SumFunctionOnSet(f, U \ {x})
    BY <2>3, SumTake
  <2>9. f[x] \in Nat /\ SumFunctionOnSet(f, U \ {x}) \in Nat
    BY <1>1, <2>3, <2>6
  <2> QED
    BY <2>3, <2>4, <2>7, <2>8, <2>9
<1> QED
  BY <1>1, <1>2

\* A sum falls apart into those of a part and of the rest.
LEMMA SumSplit ==
  ASSUME NEW f, NEW S, IsFiniteSet(S), \A x \in S : f[x] \in Int, NEW R \in SUBSET S
  PROVE  SumFunctionOnSet(f, S) = SumFunctionOnSet(f, R) + SumFunctionOnSet(f, S \ R)
<1> DEFINE Ok(s) == SumFunctionOnSet(f, s) = SumFunctionOnSet(f, R) + SumFunctionOnSet(f, s \ R)
           T == {s \in SUBSET S : R \subseteq s /\ ~Ok(s)}
<1> SUFFICES ASSUME T # {} PROVE FALSE
  OBVIOUS
<1>1. T \in SUBSET (SUBSET S)
  OBVIOUS
<1>2. PICK U \in T : \A V \in SUBSET U : V # U => V \notin T
  <2> HIDE DEF T
  <2> QED BY <1>1, Smallest
<1>3. U \in SUBSET S /\ IsFiniteSet(U) /\ R \subseteq U /\ ~Ok(U)
  BY FS_Subset
<1>4. \A s \in SUBSET S : SumFunctionOnSet(f, s) \in Int
  BY SumType, FS_Subset
<1>5. PICK x \in U : x \notin R
  <2>1. SumFunctionOnSet(f, R \ R) = 0
    <3>1. R \ R = {}
      OBVIOUS
    <3> QED BY <3>1, SumEmpty
  <2>2. Ok(R)
    BY <2>1, <1>4
  <2> QED BY <2>2, <1>3
<1> DEFINE V == U \ {x}
<1>6. V \in SUBSET U /\ V # U /\ R \subseteq V /\ V \in SUBSET S
  BY <1>3, <1>5
<1>7. Ok(V)
  BY <1>2, <1>6
<1>8. SumFunctionOnSet(f, U) = f[x] + SumFunctionOnSet(f, V)
  BY <1>3, SumTake
<1>9. SumFunctionOnSet(f, U \ R) = f[x] + SumFunctionOnSet(f, V \ R)
  <2>1. IsFiniteSet(U \ R) /\ x \in U \ R /\ (U \ R) \ {x} = V \ R /\ U \ R \in SUBSET S
    BY <1>3, <1>5, FS_Subset
  <2> QED BY <2>1, SumTake
<1>10. f[x] \in Int /\ SumFunctionOnSet(f, R) \in Int /\ SumFunctionOnSet(f, V \ R) \in Int
  BY <1>3, <1>4, <1>6
<1> HIDE DEF V
<1> QED
  BY <1>3, <1>7, <1>8, <1>9, <1>10

\* Counting the same amounts under other names: e gives each element of S a
\* name of its own.
LEMMA SumRenamed ==
  ASSUME NEW S, IsFiniteSet(S), NEW e, NEW f, NEW g,
         \A x, y \in S : e[x] = e[y] => x = y,
         \A x \in S : f[x] \in Int /\ g[e[x]] = f[x]
  PROVE  SumFunctionOnSet(g, {e[x] : x \in S}) = SumFunctionOnSet(f, S)
<1> DEFINE Img(s) == {e[x] : x \in s}
           T == {s \in SUBSET S : SumFunctionOnSet(g, Img(s)) # SumFunctionOnSet(f, s)}
<1> SUFFICES ASSUME T # {} PROVE FALSE
  OBVIOUS
<1>1. T \in SUBSET (SUBSET S)
  OBVIOUS
<1>2. PICK U \in T : \A V \in SUBSET U : V # U => V \notin T
  <2> HIDE DEF T
  <2> QED BY <1>1, Smallest
<1>3. U \in SUBSET S /\ IsFiniteSet(U) /\ SumFunctionOnSet(g, Img(U)) # SumFunctionOnSet(f, U)
  BY FS_Subset
<1>4. U # {}
  BY <1>3, SumEmpty
<1>5. PICK x \in U : TRUE
  BY <1>4
<1> DEFINE V == U \ {x}
<1>6. V \in SUBSET U /\ V # U /\ V \in SUBSET S
  BY <1>3
<1>7. SumFunctionOnSet(g, Img(V)) = SumFunctionOnSet(f, V)
  BY <1>2, <1>6
<1>8. Img(U) \ {e[x]} = Img(V) /\ e[x] \in Img(U)
  BY <1>3
<1>9. IsFiniteSet(Img(U))
  <2>1. IsFiniteSet({[z \in U |-> e[z]][y] : y \in U})
    <3> DEFINE k == [z \in U |-> e[z]]
               K == {k[y] : y \in U}
    <3>1. k \in Surjection(U, K)
      BY DEF Surjection
    <3> QED BY <1>3, <3>1, FS_Surjection
  <2>2. {[z \in U |-> e[z]][y] : y \in U} = Img(U)
    OBVIOUS
  <2> QED BY <2>1, <2>2
<1>10. \A y \in Img(U) : g[y] \in Int
  BY <1>3
<1>11. SumFunctionOnSet(g, Img(U)) = g[e[x]] + SumFunctionOnSet(g, Img(V))
  <2> HIDE DEF Img, V
  <2> QED BY <1>8, <1>9, <1>10, SumTake
<1>12. SumFunctionOnSet(f, U) = f[x] + SumFunctionOnSet(f, V)
  BY <1>3, SumTake
<1>13. g[e[x]] = f[x]
  BY <1>3
<1> HIDE DEF V, Img
<1> QED
  BY <1>3, <1>7, <1>11, <1>12, <1>13

\* The greatest of some numbers, if a bound is known, is one of them.
LEMMA MaxIs ==
  ASSUME NEW S \in SUBSET Nat, S # {}, NEW n \in Nat, \A x \in S : x <= n
  PROVE  Max(S) \in S /\ \A x \in S : x <= Max(S)
<1> DEFINE B == {m \in Nat : \A x \in S : x <= m}
<1>1. B # {} /\ B \subseteq Nat
  OBVIOUS
<1> HIDE DEF B
<1>2. PICK m \in B : \A k \in B : <<k, m>> \notin OpToRel(<, Nat)
  BY <1>1, NatLessThanWellFounded, WFMin
<1>3. \A k \in B : ~(k < m)
  BY <1>1, <1>2 DEF OpToRel
<1>4. m \in Nat /\ \A x \in S : x <= m
  BY <1>1, <1>2 DEF B
<1>5. m \in S
  <2> SUFFICES ASSUME m \notin S PROVE FALSE
    OBVIOUS
  <2>1. PICK x \in S : x \in Nat
    OBVIOUS
  <2>2. m - 1 \in Nat /\ \A y \in S : y <= m - 1
    BY <1>4, <2>1
  <2>3. m - 1 \in B
    BY <2>2 DEF B
  <2> QED BY <1>3, <1>4, <2>3
<1>6. \E y \in S : \A x \in S : y >= x
  BY <1>4, <1>5
<1>7. Max(S) \in S /\ \A x \in S : Max(S) >= x
  BY <1>6 DEF Max
<1> QED
  BY <1>7
=============================================================================
