---------------------------- MODULE FoldTheorems ----------------------------
(***************************************************************************)
(* What MapThenFoldSet of the community modules computes, for any operator *)
(* and any way to pick the next element, and hence what a fold of a        *)
(* sequence does with a concatenation, a first or a last element.          *)
(*                                                                         *)
(* The folds are defined by recursion over the subsets of a finite set.    *)
(* That the recursion has a solution, and only one, is by induction on the *)
(* number of elements; the operator is a constant of this module, which    *)
(* whoever folds with an operator instantiates.                            *)
(***************************************************************************)
EXTENDS Integers, FiniteSets, Sequences, Folds, FiniteSetTheorems, WellFoundedInduction, TLAPS

\* Op(element, accumulator); Pick(S), the element of S that is folded last.
CONSTANTS Op(_, _), Pick(_)

\* The fold of fun over S; what Pick owes it; and the recursion that defines it.
Fold(base, fun, S) == MapThenFoldSet(Op, base, LAMBDA x : fun[x], Pick, S)

Picks(S) == \A s \in SUBSET S : s # {} => Pick(s) \in s

Recursion(g, base, fun, S) ==
    g = [s \in SUBSET S |-> IF s = {} THEN base
                            ELSE Op(fun[Pick(s)], g[s \ {Pick(s)}])]

-----------------------------------------------------------------------------
\* A set of natural numbers that holds 0 and with each its successor is Nat.
LEMMA NatSets ==
    ASSUME NEW T \in SUBSET Nat, 0 \in T, \A n \in T : n + 1 \in T PROVE T = Nat
<1> DEFINE R == OpToRel(<, Nat)
<1> SUFFICES ASSUME Nat \ T # {} PROVE FALSE
  OBVIOUS
<1>1. IsWellFoundedOn(R, Nat)
  BY NatLessThanWellFounded
<1>2. PICK x \in Nat \ T : \A y \in Nat \ T : <<y, x>> \notin R
  <2> HIDE DEF R
  <2>1. Nat \ T \subseteq Nat OBVIOUS
  <2> QED BY <1>1, WFMin, <2>1
<1>3. x # 0 /\ x - 1 \in Nat /\ x - 1 < x
  OBVIOUS
<1>4. <<x - 1, x>> \in R
  BY <1>3 DEF OpToRel
<1>5. x - 1 \in T
  BY <1>2, <1>3, <1>4
<1>6. QED BY <1>5, <1>3

\* A finite set without one of its elements is smaller by one.
LEMMA SmallerSet ==
    ASSUME NEW S, IsFiniteSet(S), NEW x \in S
    PROVE  /\ IsFiniteSet(S \ {x}) /\ Cardinality(S) \in Nat \ {0}
           /\ Cardinality(S \ {x}) = Cardinality(S) - 1
BY FS_RemoveElement, FS_CardinalityType, FS_EmptySet

-----------------------------------------------------------------------------
\* Two solutions of the recursion agree where both are defined.
LEMMA FoldUnique ==
    ASSUME NEW base, NEW fun, NEW S, IsFiniteSet(S), Picks(S), NEW T \in SUBSET S,
           NEW g, Recursion(g, base, fun, S), NEW h, Recursion(h, base, fun, T)
    PROVE  \A t \in SUBSET T : g[t] = h[t]
<1> DEFINE N == {n \in Nat : \A t \in SUBSET T : Cardinality(t) = n => g[t] = h[t]}
<1>1. \A t \in SUBSET T : IsFiniteSet(t) /\ Cardinality(t) \in Nat
  BY FS_Subset, FS_CardinalityType
<1>2. 0 \in N
  <2> SUFFICES ASSUME NEW t \in SUBSET T, Cardinality(t) = 0 PROVE g[t] = h[t]
    OBVIOUS
  <2>1. t = {}
    BY <1>1, FS_EmptySet
  <2>2. QED BY <2>1 DEF Recursion
<1>3. ASSUME NEW n \in N PROVE n + 1 \in N
  <2> SUFFICES ASSUME NEW t \in SUBSET T, Cardinality(t) = n + 1 PROVE g[t] = h[t]
    OBVIOUS
  <2>1. t # {}
    BY <1>1, FS_EmptySet
  <2>2. Pick(t) \in t
    BY <2>1 DEF Picks
  <2>3. Cardinality(t \ {Pick(t)}) = n
    BY <1>1, <2>2, SmallerSet
  <2>4. g[t \ {Pick(t)}] = h[t \ {Pick(t)}]
    BY <2>3
  <2>5. QED BY <2>1, <2>4 DEF Recursion
<1>4. N = Nat
  <2> HIDE DEF N
  <2>1. N \subseteq Nat
    BY DEF N
  <2>2. QED BY <1>2, <1>3, <2>1, NatSets
<1>5. QED BY <1>1, <1>4

\* The recursion has a solution over every finite set.
LEMMA FoldExists ==
    ASSUME NEW base, NEW fun, NEW S, IsFiniteSet(S), Picks(S)
    PROVE  \E g : Recursion(g, base, fun, S)
<1> DEFINE N == {n \in Nat : \A t \in SUBSET S :
                    Cardinality(t) <= n => \E g : Recursion(g, base, fun, t)}
           G(t) == CHOOSE g : Recursion(g, base, fun, t)
<1>1. \A t \in SUBSET S : IsFiniteSet(t) /\ Cardinality(t) \in Nat /\ Picks(t)
  BY FS_Subset, FS_CardinalityType DEF Picks
<1>2. 0 \in N
  <2> SUFFICES ASSUME NEW t \in SUBSET S, Cardinality(t) <= 0
               PROVE  \E g : Recursion(g, base, fun, t)
    OBVIOUS
  <2>1. t = {}
    BY <1>1, FS_EmptySet
  <2>2. Recursion([s \in SUBSET {} |-> base], base, fun, t)
    BY <2>1 DEF Recursion
  <2>3. QED BY <2>2
<1>3. ASSUME NEW n \in N PROVE n + 1 \in N
  <2> SUFFICES ASSUME NEW t \in SUBSET S, Cardinality(t) <= n + 1
               PROVE  \E g : Recursion(g, base, fun, t)
    OBVIOUS
  <2> DEFINE rest(s) == s \ {Pick(s)}
             k == [s \in SUBSET t |-> IF s = {} THEN base ELSE Op(fun[Pick(s)], G(rest(s))[rest(s)])]
  <2>1. ASSUME NEW s \in SUBSET t, s # {}
        PROVE  rest(s) \in SUBSET t /\ Cardinality(rest(s)) <= n /\ Pick(s) \in s
    <3>1. Pick(s) \in s
      BY <1>1, <2>1 DEF Picks
    <3>2. s \in SUBSET S /\ Cardinality(s) <= Cardinality(t)
      BY <1>1, FS_Subset
    <3>3. QED BY <1>1, <3>1, <3>2, SmallerSet
  <2>2. ASSUME NEW s \in SUBSET t, s # {} PROVE Recursion(G(rest(s)), base, fun, rest(s))
    <3>1. \E g : Recursion(g, base, fun, rest(s))
      BY <2>1, <2>2
    <3>2. QED BY <3>1
  <2>3. ASSUME NEW s \in SUBSET t, s # {} PROVE k[rest(s)] = G(rest(s))[rest(s)]
    <3> DEFINE r == rest(s)
    <3>1. r \in SUBSET t /\ Recursion(G(r), base, fun, r)
      BY <2>1, <2>2, <2>3
    <3> HIDE DEF G
    <3>2. CASE r = {}
      BY <3>1, <3>2 DEF Recursion
    <3>3. CASE r # {}
      <4>1. rest(r) \in SUBSET r /\ Recursion(G(rest(r)), base, fun, rest(r))
        BY <2>1, <2>2, <3>1, <3>3
      <4>2. G(r)[rest(r)] = G(rest(r))[rest(r)]
        <5>1. IsFiniteSet(r) /\ Picks(r) /\ rest(r) \in SUBSET rest(r)
          BY <1>1, <3>1
        <5> HIDE DEF r, rest
        <5>2. QED BY <3>1, <4>1, <5>1, FoldUnique
      <4>3. G(r)[r] = Op(fun[Pick(r)], G(r)[rest(r)])
        BY <3>1, <3>3 DEF Recursion
      <4>4. k[r] = Op(fun[Pick(r)], G(rest(r))[rest(r)])
        BY <3>1, <3>3
      <4>5. QED BY <4>2, <4>3, <4>4
    <3>4. QED BY <3>2, <3>3
  <2>4. Recursion(k, base, fun, t)
    <3>1. ASSUME NEW s \in SUBSET t
          PROVE  k[s] = IF s = {} THEN base ELSE Op(fun[Pick(s)], k[rest(s)])
      <4>1. k[s] = IF s = {} THEN base ELSE Op(fun[Pick(s)], G(rest(s))[rest(s)])
        OBVIOUS
      <4>2. s # {} => k[rest(s)] = G(rest(s))[rest(s)]
        BY <2>3
      <4> HIDE DEF k, G
      <4>3. QED BY <4>1, <4>2
    <3>2. k = [s \in SUBSET t |-> k[s]]
      OBVIOUS
    <3> HIDE DEF k
    <3>3. k = [s \in SUBSET t |-> IF s = {} THEN base ELSE Op(fun[Pick(s)], k[s \ {Pick(s)}])]
      BY <3>1, <3>2
    <3>4. QED BY <3>3 DEF Recursion
  <2>5. QED BY <2>4
<1>4. N = Nat
  <2> HIDE DEF N
  <2>1. N \subseteq Nat
    BY DEF N
  <2>2. QED BY <1>2, <1>3, <2>1, NatSets
<1>5. QED BY <1>1, <1>4

\* The fold is the value at S of a solution over S.
LEMMA FoldIsChosen ==
    ASSUME NEW base, NEW fun, NEW S
    PROVE  Fold(base, fun, S) = (CHOOSE g : Recursion(g, base, fun, S))[S]
BY DEF Fold, MapThenFoldSet, Recursion

-----------------------------------------------------------------------------
\* A fold over a set applies the operator to the picked element and the fold
\* over the others.
THEOREM FoldStep ==
    ASSUME NEW base, NEW fun, NEW S, IsFiniteSet(S), Picks(S), S # {}
    PROVE  Fold(base, fun, S) = Op(fun[Pick(S)], Fold(base, fun, S \ {Pick(S)}))
<1> DEFINE T == S \ {Pick(S)}
           G(t) == CHOOSE g : Recursion(g, base, fun, t)
<1>1. IsFiniteSet(T) /\ Picks(T) /\ T \in SUBSET S
  BY FS_Subset DEF Picks
<1>2. Recursion(G(S), base, fun, S) /\ Recursion(G(T), base, fun, T)
  <2>1. (\E g : Recursion(g, base, fun, S)) /\ (\E g : Recursion(g, base, fun, T))
    BY <1>1, FoldExists
  <2>2. QED BY <2>1
<1>3. G(S)[T] = G(T)[T]
  <2> HIDE DEF G, T
  <2>1. T \in SUBSET T OBVIOUS
  <2>2. QED BY <1>1, <1>2, <2>1, FoldUnique
<1>4. G(S)[S] = Op(fun[Pick(S)], G(S)[T])
  <2> HIDE DEF G
  <2>1. QED BY <1>2 DEF Recursion
<1>5. QED BY <1>3, <1>4, FoldIsChosen

\* A fold over nothing is its base.
THEOREM FoldEmpty ==
    ASSUME NEW base, NEW fun PROVE Fold(base, fun, {}) = base
<1>1. IsFiniteSet({}) /\ Picks({})
  BY FS_EmptySet DEF Picks
<1>2. PICK g : Recursion(g, base, fun, {})
  BY <1>1, FoldExists
<1> DEFINE c == CHOOSE f : Recursion(f, base, fun, {})
<1>3. Recursion(c, base, fun, {})
  BY <1>2
<1>4. c[{}] = base
  <2> HIDE DEF c
  <2>1. QED BY <1>3 DEF Recursion
<1>5. QED BY <1>4, FoldIsChosen

\* A fold looks at the function on the set only.
THEOREM FoldAgrees ==
    ASSUME NEW base, NEW fun, NEW gun, NEW S, IsFiniteSet(S), Picks(S),
           \A x \in S : fun[x] = gun[x]
    PROVE  Fold(base, fun, S) = Fold(base, gun, S)
<1> DEFINE N == {n \in Nat : \A t \in SUBSET S :
                    Cardinality(t) = n => Fold(base, fun, t) = Fold(base, gun, t)}
<1>1. \A t \in SUBSET S : IsFiniteSet(t) /\ Cardinality(t) \in Nat /\ Picks(t)
  BY FS_Subset, FS_CardinalityType DEF Picks
<1>2. 0 \in N
  <2> SUFFICES ASSUME NEW t \in SUBSET S, Cardinality(t) = 0
               PROVE  Fold(base, fun, t) = Fold(base, gun, t)
    OBVIOUS
  <2>1. t = {}
    BY <1>1, FS_EmptySet
  <2>2. QED BY <2>1, FoldEmpty
<1>3. ASSUME NEW n \in N PROVE n + 1 \in N
  <2> SUFFICES ASSUME NEW t \in SUBSET S, Cardinality(t) = n + 1
               PROVE  Fold(base, fun, t) = Fold(base, gun, t)
    OBVIOUS
  <2>1. t # {} /\ IsFiniteSet(t) /\ Picks(t)
    BY <1>1, FS_EmptySet
  <2>2. Pick(t) \in t
    BY <2>1 DEF Picks
  <2>3. Cardinality(t \ {Pick(t)}) = n
    BY <1>1, <2>2, SmallerSet
  <2>4. Fold(base, fun, t \ {Pick(t)}) = Fold(base, gun, t \ {Pick(t)})
    BY <2>3
  <2>5. fun[Pick(t)] = gun[Pick(t)]
    BY <2>2
  <2>6. QED BY <2>1, <2>4, <2>5, FoldStep
<1>4. N = Nat
  <2> HIDE DEF N
  <2>1. N \subseteq Nat
    BY DEF N
  <2>2. QED BY <1>2, <1>3, <2>1, NatSets
<1>5. QED BY <1>1, <1>4

-----------------------------------------------------------------------------
\* Sequences are folded from the left: the largest index is picked, and folded
\* last.
PicksMax == \A s : Pick(s) = CHOOSE x \in s : \A y \in s : x >= y

\* Every set of indices has a largest one.
LEMMA MaxPicks == ASSUME PicksMax, NEW n \in Nat PROVE Picks(1 .. n)
<1> DEFINE N == {m \in Nat : \A s \in SUBSET (1 .. m) :
                    s # {} => \E x \in s : \A y \in s : x >= y}
<1>1. 0 \in N
  <2>1. 1 .. 0 = {}
    OBVIOUS
  <2>2. QED BY <2>1
<1>2. ASSUME NEW m \in N PROVE m + 1 \in N
  <2> SUFFICES ASSUME NEW s \in SUBSET (1 .. m + 1), s # {}
               PROVE  \E x \in s : \A y \in s : x >= y
    OBVIOUS
  <2>1. CASE m + 1 \in s
    BY <2>1
  <2>2. CASE m + 1 \notin s
    <3>1. s \in SUBSET (1 .. m)
      BY <2>2
    <3>2. QED BY <3>1
  <2>3. QED BY <2>1, <2>2
<1>3. N = Nat
  <2> HIDE DEF N
  <2>1. N \subseteq Nat
    BY DEF N
  <2>2. QED BY <1>1, <1>2, <2>1, NatSets
<1>4. ASSUME NEW s \in SUBSET (1 .. n), s # {} PROVE Pick(s) \in s
  <2>1. \E x \in s : \A y \in s : x >= y
    BY <1>3, <1>4
  <2>2. QED BY <2>1 DEF PicksMax
<1>5. QED BY <1>4 DEF Picks

\* A fold over one index more.
LEMMA FoldInterval ==
    ASSUME PicksMax, NEW base, NEW fun, NEW n \in Nat
    PROVE  /\ Fold(base, fun, 1 .. 0) = base
           /\ Fold(base, fun, 1 .. n + 1) = Op(fun[n + 1], Fold(base, fun, 1 .. n))
<1>1. 1 .. 0 = {}
  OBVIOUS
<1>2. IsFiniteSet(1 .. n + 1) /\ Picks(1 .. n + 1) /\ 1 .. n + 1 # {}
  <2>1. n + 1 \in Nat /\ 1 \in Int /\ n + 1 \in 1 .. n + 1
    OBVIOUS
  <2>2. IsFiniteSet(1 .. n + 1)
    BY <2>1, FS_Interval
  <2>3. Picks(1 .. n + 1)
    BY <2>1, MaxPicks
  <2>4. QED BY <2>1, <2>2, <2>3
<1>3. Pick(1 .. n + 1) = n + 1
  <2> DEFINE I == 1 .. n + 1
  <2>1. \A y \in I : n + 1 >= y
    OBVIOUS
  <2>2. n + 1 \in I
    OBVIOUS
  <2>3. Pick(I) = CHOOSE x \in I : \A y \in I : x >= y
    BY DEF PicksMax
  <2> HIDE DEF I
  <2>4. Pick(I) \in I /\ \A y \in I : Pick(I) >= y
    BY <2>1, <2>2, <2>3
  <2>5. Pick(I) >= n + 1 /\ n + 1 >= Pick(I)
    BY <2>1, <2>2, <2>4
  <2>6. QED BY <2>4, <2>5 DEF I
<1>4. (1 .. n + 1) \ {n + 1} = 1 .. n
  OBVIOUS
<1>5. QED BY <1>1, <1>2, <1>3, <1>4, FoldStep, FoldEmpty

-----------------------------------------------------------------------------
\* The fold of a sequence, as FoldLeft has it.
FoldSequence(base, s) == Fold(base, s, DOMAIN s)

\* A fold of the empty sequence is its base.
THEOREM FoldNothing ==
    ASSUME NEW base PROVE FoldSequence(base, <<>>) = base
<1>1. DOMAIN <<>> = {}
  OBVIOUS
<1>2. QED BY <1>1, FoldEmpty DEF FoldSequence

\* A concatenation is folded one part after the other.
THEOREM FoldConcat ==
    ASSUME PicksMax, NEW base, NEW S, NEW s \in Seq(S), NEW t \in Seq(S)
    PROVE  FoldSequence(base, s \o t) = FoldSequence(FoldSequence(base, s), t)
<1> DEFINE u == s \o t
           N == {n \in Nat : n <= Len(t) =>
                    Fold(base, u, 1 .. Len(s) + n) = Fold(FoldSequence(base, s), t, 1 .. n)}
<1>1. /\ Len(s) \in Nat /\ Len(t) \in Nat /\ Len(u) = Len(s) + Len(t)
      /\ DOMAIN s = 1 .. Len(s) /\ DOMAIN t = 1 .. Len(t) /\ DOMAIN u = 1 .. Len(s) + Len(t)
      /\ \A i \in 1 .. Len(s) : u[i] = s[i]
      /\ \A i \in 1 .. Len(t) : u[Len(s) + i] = t[i]
  OBVIOUS
<1> HIDE DEF u
<1>2. 0 \in N
  <2>1. Fold(base, u, 1 .. Len(s)) = Fold(base, s, 1 .. Len(s))
    <3> DEFINE I == 1 .. Len(s)
    <3>1. IsFiniteSet(I) /\ Picks(I)
      BY <1>1, FS_Interval, MaxPicks
    <3>2. \A x \in I : u[x] = s[x]
      BY <1>1
    <3> HIDE DEF I
    <3>3. Fold(base, u, I) = Fold(base, s, I)
      BY <3>1, <3>2, FoldAgrees
    <3>4. QED BY <3>3 DEF I
  <2>2. QED BY <1>1, <2>1, FoldInterval DEF FoldSequence
<1>3. ASSUME NEW n \in N PROVE n + 1 \in N
  <2> SUFFICES ASSUME n + 1 <= Len(t)
               PROVE  Fold(base, u, 1 .. Len(s) + (n + 1))
                        = Fold(FoldSequence(base, s), t, 1 .. n + 1)
    OBVIOUS
  <2>1. Fold(base, u, 1 .. Len(s) + n) = Fold(FoldSequence(base, s), t, 1 .. n)
    OBVIOUS
  <2>2. Len(s) + n \in Nat /\ Len(s) + (n + 1) = (Len(s) + n) + 1 /\ n + 1 \in 1 .. Len(t)
    BY <1>1
  <2>3. u[(Len(s) + n) + 1] = t[n + 1]
    BY <1>1, <2>2
  <2>4. n \in Nat
    OBVIOUS
  <2> HIDE DEF N
  <2>5. Fold(base, u, 1 .. (Len(s) + n) + 1) = Op(u[(Len(s) + n) + 1], Fold(base, u, 1 .. Len(s) + n))
    BY <2>2, FoldInterval
  <2>6. Fold(FoldSequence(base, s), t, 1 .. n + 1)
          = Op(t[n + 1], Fold(FoldSequence(base, s), t, 1 .. n))
    BY <2>4, FoldInterval
  <2>7. QED BY <2>1, <2>2, <2>3, <2>5, <2>6
<1>4. N = Nat
  <2> HIDE DEF N
  <2>1. N \subseteq Nat
    BY DEF N
  <2>2. QED BY <1>2, <1>3, <2>1, NatSets
<1>5. Fold(base, u, 1 .. Len(s) + Len(t)) = Fold(FoldSequence(base, s), t, 1 .. Len(t))
  BY <1>1, <1>4
<1>6. DOMAIN (s \o t) = 1 .. Len(s) + Len(t)
  BY <1>1 DEF u
<1>7. QED BY <1>1, <1>5, <1>6 DEF FoldSequence, u

\* A fold of one element applies the operator once.
THEOREM FoldOne ==
    ASSUME PicksMax, NEW base, NEW e PROVE FoldSequence(base, <<e>>) = Op(e, base)
<1> DEFINE s == <<e>>
<1>1. DOMAIN s = 1 .. 0 + 1 /\ s[0 + 1] = e
  OBVIOUS
<1> HIDE DEF s
<1>2. Fold(base, s, 1 .. 0) = base /\ Fold(base, s, 1 .. 0 + 1) = Op(s[0 + 1], Fold(base, s, 1 .. 0))
  BY FoldInterval
<1>3. FoldSequence(base, s) = Op(e, base)
  BY <1>1, <1>2 DEF FoldSequence
<1>4. QED BY <1>3 DEF s

\* The last element is folded last,
THEOREM FoldAppend ==
    ASSUME PicksMax, NEW base, NEW S, NEW s \in Seq(S), NEW e \in S
    PROVE  FoldSequence(base, Append(s, e)) = Op(e, FoldSequence(base, s))
<1> DEFINE t == <<e>>
<1>1. Append(s, e) = s \o t /\ t \in Seq(S)
  OBVIOUS
<1>2. FoldSequence(FoldSequence(base, s), t) = Op(e, FoldSequence(base, s))
  BY FoldOne
<1> HIDE DEF t
<1>3. FoldSequence(base, s \o t) = FoldSequence(FoldSequence(base, s), t)
  BY <1>1, FoldConcat
<1>4. QED BY <1>1, <1>2, <1>3

\* and the first one first.
THEOREM FoldHead ==
    ASSUME PicksMax, NEW base, NEW S, NEW s \in Seq(S), s # <<>>
    PROVE  FoldSequence(base, s) = FoldSequence(Op(Head(s), base), Tail(s))
<1> DEFINE h == <<Head(s)>>
           t == Tail(s)
<1>1. h \in Seq(S) /\ t \in Seq(S) /\ s = h \o t
  <2>1. Head(s) \in S /\ t \in Seq(S) /\ Len(s) \in Nat \ {0} /\ Head(s) = s[1]
    OBVIOUS
  <2>2. h \in Seq(S) /\ h \o t \in Seq(S) /\ Len(h \o t) = Len(s)
    BY <2>1
  <2>3. \A i \in 1 .. Len(s) : s[i] = (h \o t)[i]
    BY <2>1
  <2>4. QED BY <2>1, <2>2, <2>3
<1>2. FoldSequence(base, h) = Op(Head(s), base)
  BY FoldOne
<1> HIDE DEF h, t
<1>3. FoldSequence(base, h \o t) = FoldSequence(FoldSequence(base, h), t)
  BY <1>1, FoldConcat
<1>4. QED BY <1>1, <1>2, <1>3 DEF t

\* What the operator keeps, the fold keeps.
THEOREM FoldStays ==
    ASSUME PicksMax, NEW B, NEW base \in B, NEW S, NEW s \in Seq(S),
           \A b \in B, i \in DOMAIN s : Op(s[i], b) \in B
    PROVE  FoldSequence(base, s) \in B
<1> DEFINE N == {n \in Nat : n <= Len(s) => Fold(base, s, 1 .. n) \in B}
<1>1. Len(s) \in Nat /\ DOMAIN s = 1 .. Len(s)
  OBVIOUS
<1>2. 0 \in N
  BY FoldInterval
<1>3. ASSUME NEW n \in N PROVE n + 1 \in N
  <2>1. n + 1 <= Len(s) => Fold(base, s, 1 .. n) \in B /\ n + 1 \in DOMAIN s
    BY <1>1
  <2>2. Fold(base, s, 1 .. n + 1) = Op(s[n + 1], Fold(base, s, 1 .. n))
    BY FoldInterval
  <2>3. QED BY <2>1, <2>2
<1>4. N = Nat
  <2> HIDE DEF N
  <2>1. N \subseteq Nat
    BY DEF N
  <2>2. QED BY <1>2, <1>3, <2>1, NatSets
<1>5. QED BY <1>1, <1>4 DEF FoldSequence
-----------------------------------------------------------------------------
\* Sums: the operator adds, and any element may be picked.
Sums == (\A x, y : Op(x, y) = x + y) /\ \A S : Picks(S)
Sum(f, S) == Fold(0, f, S)

\* Nothing sums to zero.
LEMMA SumEmpty == ASSUME NEW f PROVE Sum(f, {}) = 0
BY FoldEmpty DEF Sum

\* The sum takes out one element after the other.
LEMMA SumStep ==
    ASSUME Sums, NEW f, NEW S, IsFiniteSet(S), S # {}
    PROVE  /\ Pick(S) \in S
           /\ Sum(f, S) = f[Pick(S)] + Sum(f, S \ {Pick(S)})
<1>1. Picks(S)
  BY DEF Sums
<1>2. Pick(S) \in S
  BY <1>1 DEF Picks
<1>3. Fold(0, f, S) = Op(f[Pick(S)], Fold(0, f, S \ {Pick(S)}))
  BY <1>1, FoldStep
<1>4. QED BY <1>2, <1>3 DEF Sums, Sum

\* A sum looks at the function on the set only.
LEMMA SumAgrees ==
    ASSUME Sums, NEW f, NEW g, NEW S, IsFiniteSet(S), \A x \in S : f[x] = g[x]
    PROVE  Sum(f, S) = Sum(g, S)
BY FoldAgrees DEF Sums, Sum

\* Every finite set can be taken apart into smaller ones.
LEMMA BySize ==
    ASSUME NEW S, IsFiniteSet(S)
    PROVE  /\ \A t \in SUBSET S : IsFiniteSet(t) /\ Cardinality(t) \in Nat
           /\ \A t \in SUBSET S : Cardinality(t) = 0 <=> t = {}
           /\ \A t \in SUBSET S : \A x \in t : Cardinality(t \ {x}) = Cardinality(t) - 1
<1>1. \A t \in SUBSET S : IsFiniteSet(t) /\ Cardinality(t) \in Nat
  BY FS_Subset, FS_CardinalityType
<1>2. QED BY <1>1, FS_EmptySet, FS_RemoveElement

\* What holds of zero and of a value more holds of a sum of values.
LEMMA SumClosed ==
    ASSUME Sums, NEW V, 0 \in V, \A a, b \in V : a + b \in V,
           NEW f, NEW S, IsFiniteSet(S), \A x \in S : f[x] \in V
    PROVE  Sum(f, S) \in V
<1> DEFINE N == {n \in Nat : \A t \in SUBSET S :
                    Cardinality(t) = n => Sum(f, t) \in V}
<1>1. 0 \in N
  BY BySize, SumEmpty
<1>2. ASSUME NEW n \in N PROVE n + 1 \in N
  <2> SUFFICES ASSUME NEW t \in SUBSET S, Cardinality(t) = n + 1
               PROVE  Sum(f, t) \in V
    OBVIOUS
  <2>1. t # {} /\ IsFiniteSet(t)
    BY BySize
  <2>2. Pick(t) \in t /\ Sum(f, t) = f[Pick(t)] + Sum(f, t \ {Pick(t)})
    BY <2>1, SumStep
  <2>3. Sum(f, t \ {Pick(t)}) \in V
    BY <2>2, BySize
  <2>4. f[Pick(t)] \in V
    BY <2>2
  <2>5. QED BY <2>2, <2>3, <2>4
<1>3. N = Nat
  <2> HIDE DEF N
  <2>1. N \subseteq Nat
    BY DEF N
  <2>2. QED BY <1>1, <1>2, <2>1, NatSets
<1>4. QED BY <1>3, BySize

\* Integers sum to an integer, natural numbers to a natural number.
LEMMA SumType ==
    ASSUME Sums, NEW V \in {Nat, Int}, NEW f, NEW S, IsFiniteSet(S), \A x \in S : f[x] \in V
    PROVE  Sum(f, S) \in V
<1>1. 0 \in V /\ \A a, b \in V : a + b \in V
  OBVIOUS
<1>2. QED BY <1>1, SumClosed

\* Zeros sum to zero.
LEMMA SumZero ==
    ASSUME Sums, NEW f, NEW S, IsFiniteSet(S), \A x \in S : f[x] = 0
    PROVE  Sum(f, S) = 0
<1> DEFINE V == {0}
<1>1. 0 \in V /\ (\A a, b \in V : a + b \in V) /\ \A x \in S : f[x] \in V
  OBVIOUS
<1> HIDE DEF V
<1>2. Sum(f, S) \in V
  BY <1>1, SumClosed
<1>3. QED BY <1>2 DEF V

\* Any element may be taken out first.
LEMMA SumRemove ==
    ASSUME Sums, NEW f, NEW S, IsFiniteSet(S), \A x \in S : f[x] \in Int, NEW x \in S
    PROVE  Sum(f, S) = f[x] + Sum(f, S \ {x})
<1> DEFINE Part(t) == Sum(f, t)
           N == {n \in Nat : \A t \in SUBSET S : Cardinality(t) = n =>
                    \A y \in t : Part(t) = f[y] + Part(t \ {y})}
<1>0. \A t \in SUBSET S : Part(t) \in Int
  <2> SUFFICES ASSUME NEW t \in SUBSET S PROVE Part(t) \in Int
    OBVIOUS
  <2>1. IsFiniteSet(t) /\ \A y \in t : f[y] \in Int
    BY BySize
  <2>2. QED BY <2>1, SumType
<1>1. 0 \in N
  BY BySize
<1>2. ASSUME NEW n \in N PROVE n + 1 \in N
  <2> SUFFICES ASSUME NEW t \in SUBSET S, Cardinality(t) = n + 1, NEW y \in t
               PROVE  Part(t) = f[y] + Part(t \ {y})
    OBVIOUS
  <2> DEFINE c == Pick(t)
  <2>1. IsFiniteSet(t) /\ t # {}
    BY BySize
  <2>2. c \in t /\ Part(t) = f[c] + Part(t \ {c})
    BY <2>1, SumStep
  <2> HIDE DEF c
  <2>3. CASE c = y
    BY <2>2, <2>3
  <2>4. CASE c # y
    <3>1. Cardinality(t \ {c}) = n /\ Cardinality(t \ {y}) = n
      BY <2>2, BySize
    <3>2. Part(t \ {c}) = f[y] + Part((t \ {c}) \ {y})
      BY <2>4, <3>1
    <3>3. Part(t \ {y}) = f[c] + Part((t \ {y}) \ {c})
      BY <2>2, <2>4, <3>1
    <3>4. (t \ {c}) \ {y} = (t \ {y}) \ {c}
      OBVIOUS
    <3> DEFINE rest == Part((t \ {y}) \ {c})
    <3>5. f[c] \in Int /\ f[y] \in Int /\ rest \in Int
      BY <1>0, <2>2
    <3>6. /\ Part(t) = f[c] + Part(t \ {c})
          /\ Part(t \ {c}) = f[y] + rest
          /\ Part(t \ {y}) = f[c] + rest
      BY <2>2, <3>2, <3>3, <3>4
    <3> HIDE DEF Part, rest
    <3>7. QED BY <3>5, <3>6
  <2>5. QED BY <2>3, <2>4
<1>3. N = Nat
  <2> HIDE DEF N
  <2>1. N \subseteq Nat
    BY DEF N
  <2>2. QED BY <1>1, <1>2, <2>1, NatSets
<1>4. QED BY <1>3, BySize

\* One more element adds its value.
LEMMA SumAdd ==
    ASSUME Sums, NEW f, NEW S, IsFiniteSet(S), NEW x, x \notin S,
           \A y \in S \cup {x} : f[y] \in Int
    PROVE  Sum(f, S \cup {x}) = f[x] + Sum(f, S)
<1>1. IsFiniteSet(S \cup {x}) /\ (S \cup {x}) \ {x} = S
  BY FS_AddElement
<1>2. QED BY <1>1, SumRemove

\* A function that changes at one element changes the sum by as much.
LEMMA SumChange ==
    ASSUME Sums, NEW f, NEW g, NEW S, IsFiniteSet(S), NEW x \in S,
           \A y \in S : f[y] \in Int /\ g[y] \in Int,
           \A y \in S \ {x} : g[y] = f[y]
    PROVE  Sum(g, S) = Sum(f, S) + g[x] - f[x]
<1>1. IsFiniteSet(S \ {x})
  BY FS_RemoveElement
<1>2. Sum(f, S \ {x}) = Sum(g, S \ {x})
  BY <1>1, SumAgrees
<1>3. Sum(f, S \ {x}) \in Int
  BY <1>1, SumType
<1>4. /\ Sum(f, S) = f[x] + Sum(f, S \ {x})
      /\ Sum(g, S) = g[x] + Sum(g, S \ {x})
  BY SumRemove
<1>5. QED BY <1>2, <1>3, <1>4

\* A union of two sets sums to no more than the two together.
LEMMA SumCover ==
    ASSUME Sums, NEW f, NEW S, NEW A, NEW B, IsFiniteSet(A), IsFiniteSet(B), S \subseteq A \cup B,
           \A x \in A \cup B : f[x] \in Nat
    PROVE  Sum(f, S) <= Sum(f, A) + Sum(f, B)
<1> DEFINE Part(t) == Sum(f, t)
           N == {n \in Nat : \A a \in SUBSET A : \A b \in SUBSET B : \A s \in SUBSET (a \cup b) :
                    Cardinality(s) = n => Part(s) <= Part(a) + Part(b)}
<1>0. ASSUME NEW t \in SUBSET (A \cup B) PROVE IsFiniteSet(t) /\ Part(t) \in Nat
  <2>1. IsFiniteSet(t)
    BY FS_Union, FS_Subset
  <2>2. QED BY <2>1, SumType
<1>1. 0 \in N
  <2> SUFFICES ASSUME NEW a \in SUBSET A, NEW b \in SUBSET B, NEW s \in SUBSET (a \cup b),
                      Cardinality(s) = 0
               PROVE  Part(s) <= Part(a) + Part(b)
    OBVIOUS
  <2>1. IsFiniteSet(s) /\ Part(a) \in Nat /\ Part(b) \in Nat
    BY <1>0
  <2>2. s = {}
    BY <2>1, FS_EmptySet
  <2>3. Part(s) = 0
    BY <2>2, SumEmpty
  <2> HIDE DEF Part
  <2>4. QED BY <2>1, <2>3
<1>2. ASSUME NEW n \in N PROVE n + 1 \in N
  <2> SUFFICES ASSUME NEW a \in SUBSET A, NEW b \in SUBSET B, NEW s \in SUBSET (a \cup b),
                      Cardinality(s) = n + 1
               PROVE  Part(s) <= Part(a) + Part(b)
    OBVIOUS
  <2>1. IsFiniteSet(s) /\ IsFiniteSet(a) /\ IsFiniteSet(b)
    BY <1>0
  <2>2. PICK x \in s : TRUE
    BY <2>1, FS_EmptySet
  <2>3. Part(s) = f[x] + Part(s \ {x}) /\ Cardinality(s \ {x}) = n
    <3>1. \A z \in s : f[z] \in Int
      OBVIOUS
    <3>2. Part(s) = f[x] + Part(s \ {x})
      BY <2>1, <3>1, SumRemove
    <3>3. Cardinality(s \ {x}) = n
      <4>1. n \in Nat
        OBVIOUS
      <4> HIDE DEF N
      <4>2. Cardinality(s \ {x}) = Cardinality(s) - 1
        BY <2>1, FS_RemoveElement
      <4>3. QED BY <4>1, <4>2
    <3>4. QED BY <3>2, <3>3
  <2>4. /\ f[x] \in Nat /\ Part(s \ {x}) \in Nat
        /\ Part(a) \in Nat /\ Part(b) \in Nat /\ Part(a \ {x}) \in Nat /\ Part(b \ {x}) \in Nat
    BY <1>0
  <2>5. CASE x \in a
    <3>1. Part(a) = f[x] + Part(a \ {x})
      BY <2>1, <2>5, SumRemove
    <3>2. s \ {x} \in SUBSET ((a \ {x}) \cup b) /\ a \ {x} \in SUBSET A
      OBVIOUS
    <3> HIDE DEF Part
    <3>3. Part(s \ {x}) <= Part(a \ {x}) + Part(b)
      BY <2>3, <3>2
    <3>4. QED BY <2>3, <2>4, <3>1, <3>3
  <2>6. CASE x \in b
    <3>1. Part(b) = f[x] + Part(b \ {x})
      BY <2>1, <2>6, SumRemove
    <3>2. s \ {x} \in SUBSET (a \cup (b \ {x})) /\ b \ {x} \in SUBSET B
      OBVIOUS
    <3> HIDE DEF Part
    <3>3. Part(s \ {x}) <= Part(a) + Part(b \ {x})
      BY <2>3, <3>2
    <3>4. QED BY <2>3, <2>4, <3>1, <3>3
  <2>7. QED BY <2>5, <2>6
<1>3. N = Nat
  <2> HIDE DEF N
  <2>1. N \subseteq Nat
    BY DEF N
  <2>2. QED BY <1>1, <1>2, <2>1, NatSets
<1>4. IsFiniteSet(S) /\ Cardinality(S) \in Nat
  BY <1>0, FS_CardinalityType
<1>5. QED BY <1>3, <1>4

\* A part of a set sums to no more than the set.
LEMMA SumPart ==
    ASSUME Sums, NEW f, NEW S, NEW A, IsFiniteSet(A), S \subseteq A, \A x \in A : f[x] \in Nat
    PROVE  Sum(f, S) <= Sum(f, A)
<1> DEFINE B == {}
<1>1. IsFiniteSet(B) /\ S \subseteq A \cup B /\ \A x \in A \cup B : f[x] \in Nat
  BY FS_EmptySet
<1>2. Sum(f, B) = 0
  BY SumEmpty
<1>3. Sum(f, A) \in Nat
  BY SumType
<1> HIDE DEF B
<1>4. Sum(f, S) <= Sum(f, A) + Sum(f, B)
  BY <1>1, SumCover
<1>5. QED BY <1>2, <1>3, <1>4
=============================================================================
