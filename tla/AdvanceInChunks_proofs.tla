----------------------- MODULE AdvanceInChunks_proofs -----------------------
(***************************************************************************)
(* The steps of a wait come to what the call computes, and two calls come  *)
(* to what one would have, for every board, every set of pieces and every  *)
(* pair of elapsed times.                                                  *)
(*                                                                         *)
(* A call is a sweep over its arrivals in their order.  The steps are its  *)
(* prefixes.  To compare a call of a + b with one of a and one of b, the   *)
(* same prefixes are followed in both: while the arrivals of the first a   *)
(* are resolved the two differ in the rests alone, by b; then those who    *)
(* fell in the first part skip their arrival in one and have no motion in  *)
(* the other.                                                              *)
(***************************************************************************)
EXTENDS AdvanceInChunks, RealTimeGame_proofs, FiniteSetTheorems, TLAPS

\* The loop over the arrivals, as a fold that takes the latest last.
Sweep == INSTANCE FoldTheorems WITH Op <- Resolved, Pick <- Latest

\* Both modules mean the same by a finite set.
LEMMA SweepFinite == \A S : Sweep!IsFiniteSet(S) <=> IsFiniteSet(S)
BY DEF Sweep!IsFiniteSet, IsFiniteSet

\* The sweep over the arrivals is a fold of the arrivals themselves.
LEMMA SweptIsFold ==
    ASSUME NEW acc, NEW A, Sweep!Picks(A)
    PROVE  Swept(acc, A) = Sweep!Fold(acc, [a \in A |-> a], A)
<1> DEFINE This(g) == g = [S \in SUBSET A |-> IF S = {} THEN acc
                              ELSE Resolved(Latest(S), g[S \ {Latest(S)}])]
           Same == [a \in A |-> a]
           That(g) == g = [S \in SUBSET A |-> IF S = {} THEN acc
                              ELSE Resolved(Same[Latest(S)], g[S \ {Latest(S)}])]
<1>1. ASSUME NEW g PROVE This(g) <=> That(g)
  <2>1. \A S \in SUBSET A : S # {} => Same[Latest(S)] = Latest(S)
    BY DEF Sweep!Picks
  <2> HIDE DEF Same
  <2>2. QED BY <2>1
<1>2. Swept(acc, A) = (CHOOSE g : This(g))[A]
  BY DEF Swept, MapThenFoldSet
<1>3. Sweep!Fold(acc, Same, A) = (CHOOSE g : That(g))[A]
  BY DEF Sweep!Fold, Sweep!MapThenFoldSet
<1>4. (CHOOSE g : This(g)) = (CHOOSE g : That(g))
  <2> HIDE DEF This, That
  <2>1. QED BY <1>1
<1>5. QED BY <1>2, <1>3, <1>4

\* With no arrival the sweep changes nothing;
LEMMA SweptNone == ASSUME NEW acc PROVE Swept(acc, {}) = acc
<1>1. Sweep!Picks({})
  BY DEF Sweep!Picks
<1>2. QED BY <1>1, SweptIsFold, Sweep!FoldEmpty

\* else the latest arrival is resolved after all the others.
LEMMA SweptLast ==
    ASSUME NEW acc, NEW A, IsFiniteSet(A), Sweep!Picks(A), A # {}
    PROVE  Swept(acc, A) = Resolved(Latest(A), Swept(acc, A \ {Latest(A)}))
<1> DEFINE l == Latest(A)
           fun == [a \in A |-> a]
           B == A \ {l}
           gun == [a \in B |-> a]
<1>1. l \in A /\ Sweep!Picks(B) /\ IsFiniteSet(B)
  BY FS_Subset DEF Sweep!Picks
<1>2. fun[l] = l /\ \A x \in B : fun[x] = gun[x]
  BY <1>1
<1>3. Swept(acc, A) = Sweep!Fold(acc, fun, A) /\ Swept(acc, B) = Sweep!Fold(acc, gun, B)
  BY <1>1, SweptIsFold
<1> HIDE DEF fun, gun
<1>4. Sweep!Fold(acc, fun, A) = Resolved(fun[Latest(A)], Sweep!Fold(acc, fun, A \ {Latest(A)}))
  BY SweepFinite, Sweep!FoldStep
<1> HIDE DEF B
<1>5. Sweep!Fold(acc, fun, B) = Sweep!Fold(acc, gun, B)
  BY <1>1, <1>2, SweepFinite, Sweep!FoldAgrees
<1>6. QED BY <1>2, <1>3, <1>4, <1>5 DEF B
-----------------------------------------------------------------------------
\* The order of the arrivals of one wait.

Flying(s) == {p \in Ids : s.motion[p] # None}
Left(s, p) == s.motion[p].duration - s.motion[p].elapsed
Earlier(s, q, p) == \/ Left(s, q) < Left(s, p)
                    \/ Left(s, q) = Left(s, p) /\ <<q, p>> \in s.before

\* Between two calls: motions filed under their pieces, none due, in some order.
Settled(s) ==
    /\ s.motion \in [Ids -> Motion \cup {None}]
    /\ \A p \in Flying(s) : s.motion[p].piece.id = p /\ ~Due(s.motion[p])
    /\ IsFiniteSet(Flying(s))
    /\ \A p, q \in Flying(s) : <<p, q>> \in s.before \/ <<q, p>> \in s.before \/ p = q
    /\ \A p \in Flying(s) : <<p, p>> \notin s.before
    /\ \A p, q, r \in Flying(s) :
          <<p, q>> \in s.before /\ <<q, r>> \in s.before => <<p, r>> \in s.before

\* Between two calls every motion has some time left.
LEMMA LeftType ==
    ASSUME NEW s, Settled(s), NEW p \in Flying(s)
    PROVE  /\ Left(s, p) \in Nat \ {0} /\ p \in Ids /\ s.motion[p] \in Motion
           /\ s.motion[p].duration \in Nat /\ s.motion[p].elapsed \in Nat
<1>1. s.motion[p] \in Motion /\ ~Due(s.motion[p]) /\ p \in Ids
  BY DEF Settled, Flying
<1>2. s.motion[p].duration \in Nat /\ s.motion[p].elapsed \in Nat
  BY <1>1 DEF Motion
<1>3. QED BY <1>1, <1>2 DEF Left, Due

\* The arrivals come one after the other: no two at once, and in one order.
LEMMA EarlierOrders ==
    ASSUME NEW s, Settled(s)
    PROVE  /\ \A p, q \in Flying(s) : Earlier(s, p, q) \/ Earlier(s, q, p) \/ p = q
           /\ \A p, q \in Flying(s) : ~(Earlier(s, p, q) /\ Earlier(s, q, p))
           /\ \A p, q, r \in Flying(s) : Earlier(s, p, q) /\ Earlier(s, q, r) => Earlier(s, p, r)
<1>1. \A p \in Flying(s) : Left(s, p) \in Nat
  BY LeftType
<1>2. \A p, q \in Flying(s) : Earlier(s, p, q) \/ Earlier(s, q, p) \/ p = q
  <2> SUFFICES ASSUME NEW p \in Flying(s), NEW q \in Flying(s)
               PROVE  Earlier(s, p, q) \/ Earlier(s, q, p) \/ p = q
    OBVIOUS
  <2>1. <<p, q>> \in s.before \/ <<q, p>> \in s.before \/ p = q
    BY DEF Settled
  <2>2. Left(s, p) \in Nat /\ Left(s, q) \in Nat
    BY <1>1
  <2> HIDE DEF Left
  <2>3. QED BY <2>1, <2>2 DEF Earlier
<1>3. \A p, q, r \in Flying(s) : Earlier(s, p, q) /\ Earlier(s, q, r) => Earlier(s, p, r)
  <2> SUFFICES ASSUME NEW p \in Flying(s), NEW q \in Flying(s), NEW r \in Flying(s),
                      Earlier(s, p, q), Earlier(s, q, r)
               PROVE  Earlier(s, p, r)
    OBVIOUS
  <2>1. <<p, q>> \in s.before /\ <<q, r>> \in s.before => <<p, r>> \in s.before
    BY DEF Settled
  <2>2. Left(s, p) \in Nat /\ Left(s, q) \in Nat /\ Left(s, r) \in Nat
    BY <1>1
  <2>3. QED BY <2>1, <2>2 DEF Earlier
<1>4. \A p \in Flying(s) : ~Earlier(s, p, p)
  <2> SUFFICES ASSUME NEW p \in Flying(s) PROVE ~Earlier(s, p, p)
    OBVIOUS
  <2>1. <<p, p>> \notin s.before /\ Left(s, p) \in Nat
    BY <1>1 DEF Settled
  <2>2. QED BY <2>1 DEF Earlier
<1>5. QED BY <1>2, <1>3, <1>4

LastOf(s, P, p) == p \in P /\ \A q \in P \ {p} : Earlier(s, q, p)

\* Any set of motions in flight has one that arrives last.
LEMMA LastExists ==
    ASSUME NEW s, Settled(s), NEW P \in SUBSET Flying(s), P # {}
    PROVE  \E p : LastOf(s, P, p)
<1> DEFINE N == {n \in Nat : \A Q \in SUBSET P :
                    Q # {} /\ Cardinality(Q) = n => \E p : LastOf(s, Q, p)}
<1>1. \A Q \in SUBSET P : IsFiniteSet(Q) /\ Cardinality(Q) \in Nat
  BY FS_Subset, FS_CardinalityType DEF Settled
<1>2. 0 \in N
  BY <1>1, FS_EmptySet
<1>3. ASSUME NEW n \in N PROVE n + 1 \in N
  <2> SUFFICES ASSUME NEW Q \in SUBSET P, Q # {}, Cardinality(Q) = n + 1
               PROVE  \E p : LastOf(s, Q, p)
    OBVIOUS
  <2>1. PICK x : x \in Q
    OBVIOUS
  <2> DEFINE R == Q \ {x}
  <2>2. Cardinality(R) = n
    <3>1. Cardinality(R) = Cardinality(Q) - 1
      BY <1>1, <2>1, FS_RemoveElement
    <3>2. QED BY <3>1
  <2>3. CASE R = {}
    <3>1. LastOf(s, Q, x)
      BY <2>1, <2>3 DEF LastOf
    <3>2. QED BY <3>1
  <2>4. CASE R # {}
    <3>1. PICK y : LastOf(s, R, y)
      BY <2>2, <2>4
    <3>2. x \in Flying(s) /\ y \in Flying(s) /\ x # y /\ \A z \in R : z \in Flying(s)
      BY <2>1, <3>1 DEF LastOf
    <3>3. CASE Earlier(s, x, y)
      <4>1. LastOf(s, Q, y)
        BY <3>1, <3>3 DEF LastOf
      <4>2. QED BY <4>1
    <3>4. CASE Earlier(s, y, x)
      <4>1. \A z \in Q \ {x} : Earlier(s, z, x)
        BY <3>1, <3>2, <3>4, EarlierOrders DEF LastOf
      <4>2. LastOf(s, Q, x)
        BY <2>1, <4>1 DEF LastOf
      <4>3. QED BY <4>2
    <3>5. QED BY <3>2, <3>3, <3>4, EarlierOrders
  <2>5. QED BY <2>3, <2>4
<1>4. N = Nat
  <2> HIDE DEF N
  <2>1. N \subseteq Nat
    BY DEF N
  <2>2. QED BY <1>2, <1>3, <2>1, Sweep!NatSets
<1>5. QED BY <1>1, <1>4
-----------------------------------------------------------------------------
\* What arrives in a wait of ms, and the sweep over some of it.

Came(s, ms, p) == Arrival(s, Later(s, ms)[p], ms)
Landing(s, ms) == {p \in Flying(s) : Left(s, p) <= ms}
Coming(s, ms, P) == {Came(s, ms, p) : p \in P}
Swath(s, ms, P) == Swept(Entered(s, ms), Coming(s, ms, P))

\* A call of ms adds ms to what a motion has elapsed, and nothing else.
LEMMA LaterIs ==
    ASSUME NEW s, Settled(s), NEW ms \in Nat, NEW p \in Flying(s)
    PROVE  /\ DOMAIN Later(s, ms) = Flying(s)
           /\ Later(s, ms)[p] = [s.motion[p] EXCEPT !.elapsed = s.motion[p].elapsed + ms]
           /\ Later(s, ms)[p] \in Motion
           /\ Due(Later(s, ms)[p]) <=> Left(s, p) <= ms
<1>1. /\ s.motion[p] \in Motion /\ s.motion[p].duration \in Nat /\ s.motion[p].elapsed \in Nat
  BY LeftType
<1>2. DOMAIN Later(s, ms) = Flying(s)
  BY DEF Later, Flying
<1>3. Later(s, ms)[p] = [s.motion[p] EXCEPT !.elapsed = s.motion[p].elapsed + ms]
  BY DEF Later, Flying
<1>4. Later(s, ms)[p] \in Motion
  BY <1>1, <1>3 DEF Motion
<1>5. /\ Later(s, ms)[p].elapsed = s.motion[p].elapsed + ms
      /\ Later(s, ms)[p].duration = s.motion[p].duration
  BY <1>1, <1>3 DEF Motion
<1>6. QED BY <1>1, <1>2, <1>3, <1>4, <1>5 DEF Due, Left

\* A motion arrives when its time is up, and rests from then on.
LEMMA CameIs ==
    ASSUME NEW s, Settled(s), NEW ms \in Nat, NEW p \in Landing(s, ms)
    PROVE  LET m == s.motion[p]
               n == Came(s, ms, p).motion
           IN  /\ n.piece = m.piece /\ n.piece.id = p /\ n.jump = m.jump
               /\ n.source = m.source /\ n.destination = m.destination
               /\ Came(s, ms, p).at = Left(s, p)
               /\ Came(s, ms, p).rest = Larger(0, m.cooldown - (ms - Left(s, p)))
               /\ Came(s, ms, p).ahead = {q \in Ids : <<q, p>> \in s.before}
<1> DEFINE m == s.motion[p]
           n == Later(s, ms)[p]
<1>1. /\ p \in Flying(s) /\ Left(s, p) \in Nat \ {0} /\ Left(s, p) <= ms /\ m \in Motion
      /\ m.duration \in Nat /\ m.elapsed \in Nat /\ m.piece.id = p
  BY LeftType DEF Landing, Settled
<1>2. n = [m EXCEPT !.elapsed = m.elapsed + ms]
  BY <1>1, LaterIs
<1> HIDE DEF n
<1>3. /\ n.piece = m.piece /\ n.jump = m.jump /\ n.source = m.source
      /\ n.destination = m.destination /\ n.duration = m.duration /\ n.cooldown = m.cooldown
      /\ n.elapsed = m.elapsed + ms
  BY <1>1, <1>2 DEF Motion
<1>4. Came(s, ms, p).motion = n /\ Came(s, ms, p).at = TimeIntoTick(n, ms)
      /\ Came(s, ms, p).rest = RestAfter(n, ms)
      /\ Came(s, ms, p).ahead = {q \in Ids : <<q, n.piece.id>> \in s.before}
  BY DEF Came, Arrival, n
<1>5. TimeIntoTick(n, ms) = Left(s, p)
  <2>1. n.duration - (n.elapsed - ms) = Left(s, p)
    BY <1>1, <1>3 DEF Left
  <2>2. QED BY <1>1, <2>1 DEF TimeIntoTick
<1>6. RestAfter(n, ms) = Larger(0, m.cooldown - (ms - Left(s, p)))
  BY <1>3, <1>5 DEF RestAfter
<1>7. QED BY <1>1, <1>3, <1>4, <1>5, <1>6

\* The sweep takes the last one last.
LEMMA LatestIs ==
    ASSUME NEW s, Settled(s), NEW ms \in Nat, NEW P \in SUBSET Landing(s, ms),
           NEW p, LastOf(s, P, p)
    PROVE  /\ Latest(Coming(s, ms, P)) = Came(s, ms, p)
           /\ Coming(s, ms, P) \ {Came(s, ms, p)} = Coming(s, ms, P \ {p})
<1> DEFINE C == {Came(s, ms, q) : q \in P}
           Last(a) == \A b \in C \ {a} :
                          b.at < a.at \/ (b.at = a.at /\ b.motion.piece.id \in a.ahead)
<1>1. p \in P /\ \A q \in P : q \in Landing(s, ms) /\ q \in Flying(s) /\ q \in Ids
  BY DEF LastOf, Landing, Flying
<1>2. \A q \in P : Came(s, ms, q).motion.piece.id = q
  BY <1>1, CameIs
<1>3. \A q, r \in P : Earlier(s, q, r) <=>
        \/ Came(s, ms, q).at < Came(s, ms, r).at
        \/ Came(s, ms, q).at = Came(s, ms, r).at
              /\ Came(s, ms, q).motion.piece.id \in Came(s, ms, r).ahead
  <2> SUFFICES ASSUME NEW q \in P, NEW r \in P
               PROVE  Earlier(s, q, r) <=>
                        \/ Came(s, ms, q).at < Came(s, ms, r).at
                        \/ Came(s, ms, q).at = Came(s, ms, r).at
                              /\ Came(s, ms, q).motion.piece.id \in Came(s, ms, r).ahead
    OBVIOUS
  <2>1. Came(s, ms, q).at = Left(s, q) /\ Came(s, ms, r).at = Left(s, r)
    BY <1>1, CameIs
  <2>2. Came(s, ms, r).ahead = {x \in Ids : <<x, r>> \in s.before} /\ q \in Ids
    BY <1>1, CameIs
  <2>3. QED BY <1>2, <2>1, <2>2 DEF Earlier
<1>4. Came(s, ms, p) \in C /\ Last(Came(s, ms, p))
  <2> SUFFICES ASSUME NEW q \in P, Came(s, ms, q) # Came(s, ms, p)
               PROVE  Earlier(s, q, p)
    BY <1>1, <1>3
  <2>1. q \in P \ {p}
    OBVIOUS
  <2>2. QED BY <2>1 DEF LastOf
<1>5. ASSUME NEW a \in C, Last(a) PROVE a = Came(s, ms, p)
  <2>1. PICK q \in P : a = Came(s, ms, q)
    OBVIOUS
  <2> SUFFICES ASSUME q # p PROVE FALSE
    BY <2>1
  <2>2. Earlier(s, q, p)
    BY DEF LastOf
  <2>3. Came(s, ms, p) # a
    BY <1>1, <1>2, <2>1
  <2>4. Earlier(s, p, q)
    BY <1>1, <1>3, <1>4, <1>5, <2>1, <2>3
  <2>5. QED BY <1>1, <2>2, <2>4, EarlierOrders
<1>6. Latest(C) = Came(s, ms, p)
  <2>1. Latest(C) = CHOOSE a \in C : Last(a)
    BY DEF Latest
  <2> HIDE DEF Last, C
  <2>2. QED BY <1>4, <1>5, <2>1
<1>7. C \ {Came(s, ms, p)} = {Came(s, ms, q) : q \in P \ {p}}
  BY <1>1, <1>2
<1>8. QED BY <1>6, <1>7 DEF Coming

\* Whatever arrives in a call has a latest arrival.
LEMMA ComingPicks ==
    ASSUME NEW s, Settled(s), NEW ms \in Nat, NEW P \in SUBSET Landing(s, ms)
    PROVE  Sweep!Picks(Coming(s, ms, P)) /\ IsFiniteSet(Coming(s, ms, P))
<1>1. P \in SUBSET Flying(s) /\ IsFiniteSet(P)
  BY FS_Subset DEF Landing, Settled
<1>2. IsFiniteSet(Coming(s, ms, P))
  <2> DEFINE came == [q \in P |-> Came(s, ms, q)]
  <2>1. came \in Surjection(P, Coming(s, ms, P))
    BY DEF Surjection, Coming
  <2> HIDE DEF came
  <2>2. QED BY <1>1, <2>1, FS_Surjection
<1>3. ASSUME NEW t \in SUBSET Coming(s, ms, P), t # {} PROVE Latest(t) \in t
  <2> DEFINE Q == {q \in P : Came(s, ms, q) \in t}
  <2>1. t = Coming(s, ms, Q) /\ Q # {} /\ Q \in SUBSET Flying(s)
    BY <1>1, <1>3 DEF Coming
  <2>2. PICK p : LastOf(s, Q, p)
    BY <2>1, LastExists
  <2>3. Latest(Coming(s, ms, Q)) = Came(s, ms, p)
    BY <2>2, LatestIs
  <2>4. Came(s, ms, p) \in t
    BY <2>2 DEF LastOf
  <2> HIDE DEF Q
  <2>5. QED BY <2>1, <2>3, <2>4
<1>4. QED BY <1>2, <1>3 DEF Sweep!Picks

\* The sweep over some of the arrivals ends in the last of them,
LEMMA SwathStep ==
    ASSUME NEW s, Settled(s), NEW ms \in Nat, NEW P \in SUBSET Landing(s, ms),
           NEW p, LastOf(s, P, p)
    PROVE  Swath(s, ms, P) = Resolved(Came(s, ms, p), Swath(s, ms, P \ {p}))
<1>1. IsFiniteSet(Coming(s, ms, P)) /\ Sweep!Picks(Coming(s, ms, P))
  BY ComingPicks
<1>2. Coming(s, ms, P) # {}
  BY DEF LastOf, Coming
<1>3. /\ Latest(Coming(s, ms, P)) = Came(s, ms, p)
      /\ Coming(s, ms, P) \ {Came(s, ms, p)} = Coming(s, ms, P \ {p})
  BY LatestIs
<1>4. QED BY <1>1, <1>2, <1>3, SweptLast DEF Swath

\* and over none of them is what the call begins with.
LEMMA SwathNone ==
    ASSUME NEW s, NEW ms PROVE Swath(s, ms, {}) = Entered(s, ms)
<1>1. Coming(s, ms, {}) = {}
  BY DEF Coming
<1>2. QED BY <1>1, SweptNone DEF Swath

\* What an ordered sweep keeps from one arrival to the next holds at its end.
LEMMA SwathInduction ==
    ASSUME NEW s, Settled(s), NEW P \in SUBSET Flying(s), NEW Kept \in SUBSET SUBSET P,
           {} \in Kept,
           \A Q \in SUBSET P, p \in P :
               LastOf(s, Q, p) /\ Q \ {p} \in Kept => Q \in Kept
    PROVE  P \in Kept
<1> DEFINE N == {n \in Nat : \A Q \in SUBSET P : Cardinality(Q) = n => Q \in Kept}
<1>1. \A Q \in SUBSET P : IsFiniteSet(Q) /\ Cardinality(Q) \in Nat
  BY FS_Subset, FS_CardinalityType DEF Settled
<1>2. 0 \in N
  BY <1>1, FS_EmptySet
<1>3. ASSUME NEW n \in N PROVE n + 1 \in N
  <2> SUFFICES ASSUME NEW Q \in SUBSET P, Cardinality(Q) = n + 1 PROVE Q \in Kept
    OBVIOUS
  <2>1. Q # {}
    BY <1>1, FS_EmptySet
  <2>2. PICK p : LastOf(s, Q, p)
    BY <2>1, LastExists
  <2>3. p \in Q
    BY <2>2 DEF LastOf
  <2>4. Cardinality(Q \ {p}) = Cardinality(Q) - 1
    BY <1>1, <2>3, FS_RemoveElement
  <2>5. Q \ {p} \in Kept
    BY <2>4
  <2>6. QED BY <2>2, <2>3, <2>5
<1>4. N = Nat
  <2> HIDE DEF N
  <2>1. N \subseteq Nat
    BY DEF N
  <2>2. QED BY <1>2, <1>3, <2>1, Sweep!NatSets
<1>5. QED BY <1>1, <1>4
-----------------------------------------------------------------------------
\* What a call comes to, in terms of the sweep over all its arrivals.

\* Whose motion goes on after a call of ms, in the state the call leaves.
EndOf(s, ms) == Swath(s, ms, Landing(s, ms))
Staying(s, ms) == {p \in Flying(s) : /\ Left(s, p) > ms
                                     /\ ~(p \in EndOf(s, ms).fallen /\ ~s.motion[p].jump)}

\* advance_time, with its arrivals swept.
LEMMA AdvanceIs ==
    ASSUME NEW s, Settled(s), NEW ms \in Nat
    PROVE  Advance(s, ms) =
             [board |-> EndOf(s, ms).board,
              motion |-> [p \in Ids |-> IF p \in Staying(s, ms) THEN Later(s, ms)[p] ELSE None],
              before |-> s.before \cap (Staying(s, ms) \X Staying(s, ms)),
              cooldown |-> [p \in Ids |-> IF p \in EndOf(s, ms).fallen THEN 0
                                          ELSE EndOf(s, ms).cooldown[p]],
              captured |-> EndOf(s, ms).captured,
              verdict |-> EndOf(s, ms).verdict]
<1> DEFINE later == Later(s, ms)
           end == EndOf(s, ms)
           on == {p \in DOMAIN later : ~Due(later[p]) /\ ~(p \in end.fallen /\ ~later[p].jump)}
<1>1. DOMAIN later = Flying(s)
  BY DEF Later, Flying
<1>2. Swept(Entered(s, ms), Arrivals(s, ms)) = end
  <2>1. \A p \in Flying(s) : Due(later[p]) <=> Left(s, p) <= ms
    BY LaterIs
  <2>2. {p \in DOMAIN later : Due(later[p])} = Landing(s, ms)
    BY <1>1, <2>1 DEF Landing
  <2>3. Arrivals(s, ms) = Coming(s, ms, Landing(s, ms))
    BY <2>2 DEF Arrivals, Coming, Came
  <2>4. QED BY <2>3 DEF Swath, EndOf
<1> HIDE DEF end
<1>3. on = Staying(s, ms)
  <2>1. ASSUME NEW p \in Flying(s)
        PROVE  /\ ~Due(later[p]) <=> Left(s, p) > ms
               /\ later[p].jump = s.motion[p].jump
    <3>1. /\ Due(later[p]) <=> Left(s, p) <= ms
          /\ later[p] = [s.motion[p] EXCEPT !.elapsed = s.motion[p].elapsed + ms]
      BY LaterIs
    <3>2. s.motion[p] \in Motion /\ Left(s, p) \in Nat
      BY LeftType
    <3> HIDE DEF later
    <3>3. later[p].jump = s.motion[p].jump
      BY <3>1, <3>2 DEF Motion
    <3>4. QED BY <3>1, <3>2, <3>3
  <2> HIDE DEF later
  <2>2. QED BY <1>1, <2>1 DEF Staying, end
<1>4. Advance(s, ms) = [board |-> end.board,
         motion |-> [p \in Ids |-> IF p \in on THEN later[p] ELSE None],
         before |-> s.before \cap (on \X on),
         cooldown |-> [p \in Ids |-> IF p \in end.fallen THEN 0 ELSE end.cooldown[p]],
         captured |-> end.captured,
         verdict |-> end.verdict]
  BY <1>2 DEF Advance
<1> HIDE DEF on, later
<1>5. QED BY <1>3, <1>4 DEF end, later

-----------------------------------------------------------------------------
\* The steps of a wait.

\* The motions in flight stand in one order.
Ordered ==
    /\ IsFiniteSet(InFlight)
    /\ before \subseteq InFlight \X InFlight
    /\ \A p, q \in InFlight : <<p, q>> \in before \/ <<q, p>> \in before \/ p = q
    /\ \A p \in InFlight : <<p, p>> \notin before
    /\ \A p, q, r \in InFlight : <<p, q>> \in before /\ <<q, r>> \in before => <<p, r>> \in before

\* A motion begins behind all the others.
LEMMA OrderedStart ==
    ASSUME Placement, Ordered, NEW m \in Motion, m.piece.id \in Ids,
           motion[m.piece.id] = None, StartMotion(m)
    PROVE  Ordered'
<1> DEFINE p == m.piece.id
<1>1. m # None /\ p \notin InFlight /\ motion \in [Ids -> Motion \cup {None}]
  BY NoMotionAssumption DEF InFlight, Placement, TypeOK
<1>2. InFlight' = InFlight \cup {p}
  <2>1. motion' = [motion EXCEPT ![p] = m]
    BY DEF StartMotion
  <2>2. QED BY <1>1, <2>1 DEF InFlight
<1>3. before' = before \cup {<<q, p>> : q \in InFlight}
  BY DEF StartMotion
<1>4. IsFiniteSet(InFlight \cup {p})
  BY FS_AddElement DEF Ordered
<1> HIDE DEF p
<1>5. \A q, r \in InFlight : <<q, r>> \in before' <=> <<q, r>> \in before
  BY <1>1, <1>3
<1>6. \A q \in InFlight : <<q, p>> \in before' /\ <<p, q>> \notin before'
  BY <1>1, <1>3 DEF Ordered
<1>7. <<p, p>> \notin before'
  BY <1>1, <1>3 DEF Ordered
<1>8. before' \subseteq (InFlight \cup {p}) \X (InFlight \cup {p})
  BY <1>3 DEF Ordered
<1>9. \A q, r, s \in InFlight \cup {p} :
         <<q, r>> \in before' /\ <<r, s>> \in before' => <<q, s>> \in before'
  <2> SUFFICES ASSUME NEW q \in InFlight \cup {p}, NEW r \in InFlight \cup {p},
                      NEW s \in InFlight \cup {p}, <<q, r>> \in before', <<r, s>> \in before'
               PROVE  <<q, s>> \in before'
    OBVIOUS
  <2>1. q \in InFlight /\ r \in InFlight
    BY <1>6, <1>7
  <2>2. CASE s = p
    BY <1>6, <2>1, <2>2
  <2>3. CASE s \in InFlight
    BY <1>5, <2>1, <2>3 DEF Ordered
  <2>4. QED BY <2>2, <2>3
<1>10. QED BY <1>2, <1>4, <1>5, <1>6, <1>7, <1>8, <1>9 DEF Ordered

\* Every step keeps the motions in one order.
LEMMA OrderedStep == Placement /\ Ordered /\ [Next]_vars => Ordered'
<1> SUFFICES ASSUME Placement, Ordered, [Next]_vars PROVE Ordered'
  OBVIOUS
<1>1. CASE \E c, d \in Cells : RequestMove(c, d)
  <2>1. PICK c \in Cells, d \in Cells : RequestMove(c, d)
    BY <1>1
  <2> DEFINE m == MoveMotion(board[c], c, d)
  <2>2. /\ board[c] \in Piece /\ c # d /\ motion[board[c].id] = None /\ StartMotion(m)
    <3>1. board[c] # None /\ motion[board[c].id] = None /\ StartMotion(m)
      BY <2>1 DEF RequestMove, ValidMove, Occupied, Busy
    <3>2. board[c] \in Piece
      BY <3>1 DEF Placement, TypeOK, Boards
    <3>3. c # d
      BY <2>1, <3>1 DEF RequestMove, ValidMove, FriendAt, Occupied
    <3>4. QED BY <3>1, <3>2, <3>3
  <2>3. m \in Motion /\ m.piece = board[c] /\ board[c].id \in Ids
    BY <2>2, MoveMotionType DEF MoveMotion, Piece
  <2> HIDE DEF m
  <2>4. QED BY <2>2, <2>3, OrderedStart
<1>2. CASE \E c \in Cells : RequestJump(c)
  <2>1. PICK c \in Cells : RequestJump(c)
    BY <1>2
  <2> DEFINE m == JumpMotion(board[c], c)
  <2>2. board[c] \in Piece /\ motion[board[c].id] = None /\ StartMotion(m)
    BY <2>1 DEF RequestJump, Busy, Placement, TypeOK, Boards
  <2>3. m \in Motion /\ m.piece = board[c] /\ board[c].id \in Ids
    BY <2>2, JumpMotionType DEF JumpMotion, Piece
  <2> HIDE DEF m
  <2>4. QED BY <2>2, <2>3, OrderedStart
<1>3. CASE \E ms \in TickSizes : BeginTick(ms)
  <2>1. PICK ms \in TickSizes : BeginTick(ms)
    BY <1>3
  <2>2. InFlight' = InFlight /\ before' = before
    <3>1. motion \in [Ids -> Motion \cup {None}] /\ ms \in Nat
      BY TimeAssumption DEF Placement, TypeOK
    <3>2. \A p \in Ids : motion[p] # None => [motion[p] EXCEPT !.elapsed = @ + ms] \in Motion
      BY <3>1 DEF Motion
    <3>3. \A p \in Ids : motion'[p] = IF motion[p] = None THEN None
                                       ELSE [motion[p] EXCEPT !.elapsed = @ + ms]
      BY <2>1 DEF BeginTick
    <3>4. QED BY <2>1, <3>2, <3>3, NoMotionAssumption DEF InFlight, BeginTick
  <2>3. QED BY <2>2 DEF Ordered
<1>4. CASE \/ \E p \in Ids : SkipArrival(p) \/ ResolveArrival(p)
           \/ UNCHANGED vars
  BY <1>4 DEF SkipArrival, ResolveArrival, Ordered, InFlight, vars
<1>5. CASE EndTick
  <2>1. InFlight' \subseteq InFlight
    BY <1>5 DEF EndTick, InFlight
  <2>2. IsFiniteSet(InFlight')
    BY <2>1, FS_Subset DEF Ordered
  <2>3. before' = {pq \in before : pq[1] \in InFlight' /\ pq[2] \in InFlight'}
    BY <1>5 DEF EndTick, InFlight, Ordered
  <2>4. \A p, q \in InFlight' : <<p, q>> \in before' <=> <<p, q>> \in before
    BY <2>3
  <2>5. before' \subseteq InFlight' \X InFlight'
    BY <2>3 DEF Ordered
  <2>6. QED BY <2>1, <2>2, <2>4, <2>5 DEF Ordered
<1>6. QED BY <1>1, <1>2, <1>3, <1>4, <1>5 DEF Next, WaitAfterGameOver

\* No motion is in flight at first.
LEMMA OrderedInit == Init => Ordered
<1>1. Init => InFlight = {}
  BY DEF Init, InFlight
<1>2. QED BY <1>1, FS_EmptySet DEF Init, Ordered

\* Between two calls the state is settled.
LEMMA NowSettled == Placement /\ Ordered /\ tick = 0 => Settled(Now) /\ Flying(Now) = InFlight
BY DEF Placement, TypeOK, MotionsFiled, BatchPhase, Ordered, Settled, Now, Flying, InFlight

\* What the loop over the arrivals has come to.
Mid == [board |-> board, fallen |-> fallen, captured |-> captured, verdict |-> verdict,
        cooldown |-> cooldown]

\* Of the wait entered in `entry`, the arrivals no longer pending are swept.
Swepts == Landing(entry, tick) \ pending
UnderWay ==
    /\ Settled(entry)
    /\ motion = [p \in Ids |-> IF p \in Flying(entry) THEN Later(entry, tick)[p] ELSE None]
    /\ before = entry.before
    /\ pending \subseteq Landing(entry, tick)
    /\ \A p \in pending, q \in Swepts : Earlier(entry, q, p)
    /\ Mid = Swath(entry, tick, Swepts)
WaitUnderWay == tick > 0 => UnderWay

\* The wait begins with nothing swept.
LEMMA UnderWayBegin ==
    ASSUME Placement, Ordered, NEW ms \in TickSizes, BeginTick(ms), entry' = Now
    PROVE  UnderWay'
<1>1. tick = 0 /\ tick' = ms /\ ms \in Nat /\ Settled(Now) /\ Flying(Now) = InFlight
  BY NowSettled, TimeAssumption DEF BeginTick
<1>2. DOMAIN Later(Now, ms) = InFlight /\ Now.motion = motion
  BY <1>1 DEF Later, Flying, Now
<1>3. motion' = [p \in Ids |-> IF p \in InFlight THEN Later(Now, ms)[p] ELSE None]
  <2>1. \A p \in InFlight : Later(Now, ms)[p] = [motion[p] EXCEPT !.elapsed = @ + ms]
    BY <1>2 DEF Later, InFlight, Now
  <2>2. motion' = [p \in Ids |-> IF motion[p] = None THEN None
                                 ELSE [motion[p] EXCEPT !.elapsed = @ + ms]]
    BY DEF BeginTick
  <2>3. QED BY <2>1, <2>2 DEF InFlight
<1>4. pending' = Landing(Now, ms)
  <2>1. pending' = {p \in InFlight : Due(motion'[p])}
    BY DEF BeginTick
  <2>2. \A p \in InFlight : motion'[p] = Later(Now, ms)[p]
    BY <1>3 DEF InFlight
  <2>3. \A p \in InFlight : Due(motion'[p]) <=> Left(Now, p) <= ms
    BY <1>1, <2>2, LaterIs
  <2>4. QED BY <1>1, <2>1, <2>3 DEF Landing
<1>5. Mid' = Entered(Now, ms)
  BY DEF Mid, Entered, Now, BeginTick
<1>6. Landing(entry', tick') = Landing(Now, ms) /\ Swepts' = {}
  BY <1>1, <1>4 DEF Swepts
<1>7. before' = Now.before
  BY DEF BeginTick, Now
<1>8. Swath(Now, ms, {}) = Entered(Now, ms)
  BY SwathNone
<1>9. QED BY <1>1, <1>3, <1>4, <1>5, <1>6, <1>7, <1>8 DEF UnderWay

\* The next arrival is the one that sorts first among those that wait.
LEMMA NextIsEarliest ==
    ASSUME TypeOK, UnderWay, NEW p \in Ids, NextArrival(p)
    PROVE  /\ LastOf(entry, Swepts \cup {p}, p) /\ p \notin Swepts
           /\ Swepts \cup {p} = Landing(entry, tick) \ pending'
           /\ \A q \in pending' : \A r \in Swepts \cup {p} : Earlier(entry, r, q)
<1>1. /\ tick \in Nat /\ p \in pending /\ pending' = pending \ {p}
      /\ \A q \in pending \ {p} : ArrivesBefore(p, q)
      /\ pending \subseteq Landing(entry, tick) /\ Settled(entry) /\ before = entry.before
  BY DEF TypeOK, NextArrival, UnderWay
<1>2. p \notin Swepts /\ Swepts \cup {p} = Landing(entry, tick) \ pending'
  BY <1>1 DEF Swepts
<1>3. LastOf(entry, Swepts \cup {p}, p)
  BY <1>1 DEF LastOf, UnderWay
<1>4. \A q \in pending : TimeIntoTick(motion[q], tick) = Left(entry, q)
  <2> SUFFICES ASSUME NEW q \in pending
               PROVE  TimeIntoTick(motion[q], tick) = Left(entry, q)
    OBVIOUS
  <2>1. Came(entry, tick, q).at = Left(entry, q) /\ q \in Flying(entry) /\ q \in Ids
    BY <1>1, CameIs DEF Landing, Flying
  <2>2. motion[q] = Later(entry, tick)[q]
    BY <2>1 DEF UnderWay
  <2>3. QED BY <2>1, <2>2 DEF Came, Arrival
<1>5. \A q \in pending' : Earlier(entry, p, q)
  BY <1>1, <1>4 DEF ArrivesBefore, Earlier
<1>6. QED BY <1>1, <1>2, <1>3, <1>5 DEF UnderWay

\* An arrival, resolved or skipped, is one more of the sweep.
LEMMA UnderWayArrival ==
    ASSUME Placement, tick > 0, UnderWay, NEW p \in Ids, SkipArrival(p) \/ ResolveArrival(p),
           entry' = entry
    PROVE  UnderWay'
<1>1. TypeOK /\ NextArrival(p) /\ UNCHANGED <<motion, before, tick>>
  BY DEF Placement, SkipArrival, ResolveArrival
<1>2. /\ Settled(entry) /\ tick \in Nat /\ p \in pending /\ p \in Flying(entry)
      /\ pending \subseteq Landing(entry, tick) /\ pending' = pending \ {p}
      /\ p \in Landing(entry, tick)
  BY <1>1 DEF UnderWay, NextArrival, Landing, TypeOK
<1>3. /\ LastOf(entry, Swepts \cup {p}, p) /\ Swepts' = Swepts \cup {p}
      /\ Swepts \cup {p} \in SUBSET Landing(entry, tick) /\ (Swepts \cup {p}) \ {p} = Swepts
  BY <1>1, <1>2, NextIsEarliest DEF Swepts
<1>4. Swath(entry, tick, Swepts \cup {p}) = Resolved(Came(entry, tick, p), Mid)
  <2>1. Swath(entry, tick, Swepts \cup {p})
          = Resolved(Came(entry, tick, p), Swath(entry, tick, (Swepts \cup {p}) \ {p}))
    BY <1>2, <1>3, SwathStep
  <2>2. QED BY <1>3, <2>1 DEF UnderWay
<1>5. /\ Came(entry, tick, p).motion = motion[p]
      /\ Came(entry, tick, p).at = TimeIntoTick(motion[p], tick)
      /\ Came(entry, tick, p).rest = RestAfter(motion[p], tick)
      /\ motion[p].piece.id = p
  <2>1. motion[p] = Later(entry, tick)[p]
    BY <1>2 DEF UnderWay
  <2>2. Came(entry, tick, p).motion.piece.id = p
    BY <1>2, CameIs
  <2>3. QED BY <2>1, <2>2 DEF Came, Arrival
<1>6. Resolved(Came(entry, tick, p), Mid) = Mid'
  <2>1. CASE SkipArrival(p)
    BY <1>5, <2>1 DEF SkipArrival, Resolved, Mid
  <2>2. CASE ResolveArrival(p)
    <3> DEFINE m == motion[p]
               o == board[m.destination]
               kind == CollisionKind(m.piece, o)
               taken == IF kind = "EnemyCaptured" THEN {o} ELSE {}
               rest == RestAfter(m, tick)
    <3>1. /\ p \notin fallen /\ board' = BoardAfter(board, m)
      BY <2>2 DEF ResolveArrival
    <3>2. /\ fallen' = fallen \cup {x.id : x \in taken}
          /\ captured' = captured \cup taken
          /\ verdict' = IF taken = {} THEN verdict
                        ELSE VerdictAfter(verdict, m.piece, o, TimeIntoTick(m, tick))
      BY <2>2 DEF ResolveArrival
    <3>3. rest \in Nat
      <4>1. m \in Motion
        BY <1>2, LaterIs DEF UnderWay
      <4>2. QED BY <1>2, <4>1, TimeIntoTickRange DEF RestAfter, Larger, Motion
    <3>4. cooldown' = IF kind = "FriendlyBlocked" \/ rest = 0 THEN cooldown
                      ELSE [cooldown EXCEPT ![p] = rest]
      BY <2>2, <3>3 DEF ResolveArrival
    <3>5. Resolved(Came(entry, tick, p), Mid)
            = [board |-> BoardAfter(board, m), fallen |-> fallen \cup {x.id : x \in taken},
               captured |-> captured \cup taken,
               verdict |-> IF taken = {} THEN verdict
                           ELSE VerdictAfter(verdict, m.piece, o, TimeIntoTick(m, tick)),
               cooldown |-> IF kind = "FriendlyBlocked" \/ rest = 0 THEN cooldown
                            ELSE [cooldown EXCEPT ![p] = rest]]
      BY <1>5, <3>1 DEF Resolved, Mid
    <3>6. QED BY <3>1, <3>2, <3>4, <3>5 DEF Mid
  <2>3. QED BY <2>1, <2>2
<1>7. \A q \in pending', r \in Swepts' : Earlier(entry, r, q)
  BY <1>1, <1>3, NextIsEarliest
<1>8. QED BY <1>1, <1>2, <1>3, <1>4, <1>6, <1>7 DEF UnderWay

\* The wait ends in what the call computes.
LEMMA UnderWayEnd ==
    ASSUME Placement, Ordered, UnderWay, EndTick PROVE Now' = Advance(entry, tick)
<1> DEFINE later == Later(entry, tick)
           end == EndOf(entry, tick)
           on == Staying(entry, tick)
<1>1. Settled(entry) /\ tick \in Nat /\ Swepts = Landing(entry, tick)
  BY DEF Placement, TypeOK, UnderWay, EndTick, Swepts
<1>2. end = Mid
  BY <1>1 DEF UnderWay, EndOf
<1>3. ASSUME NEW p \in Flying(entry)
      PROVE  /\ motion[p] = later[p] /\ later[p] \in Motion /\ p \in InFlight
             /\ Due(motion[p]) <=> ~(Left(entry, p) > tick)
             /\ motion[p].jump = entry.motion[p].jump
  <2>1. /\ motion[p] = later[p] /\ later[p] \in Motion /\ p \in Ids
        /\ Due(later[p]) <=> Left(entry, p) <= tick
        /\ later[p] = [entry.motion[p] EXCEPT !.elapsed = entry.motion[p].elapsed + tick]
    <3>1. p \in Ids /\ motion[p] = later[p]
      BY DEF UnderWay, Flying
    <3>2. /\ later[p] \in Motion
          /\ Due(later[p]) <=> Left(entry, p) <= tick
          /\ later[p] = [entry.motion[p] EXCEPT !.elapsed = entry.motion[p].elapsed + tick]
      BY <1>1, LaterIs
    <3>3. QED BY <3>1, <3>2
  <2>2. entry.motion[p] \in Motion /\ Left(entry, p) \in Nat
    BY <1>1, LeftType
  <2> HIDE DEF later
  <2>3. later[p].jump = entry.motion[p].jump
    BY <2>1, <2>2 DEF Motion
  <2>4. QED BY <1>1, <2>1, <2>2, <2>3, NoMotionAssumption DEF InFlight
<1>4. InFlight = Flying(entry)
  BY <1>3 DEF InFlight, UnderWay
<1>5. on = {p \in InFlight : ~Ends(p)}
  <2>1. end.fallen = fallen
    BY <1>2 DEF Mid
  <2>2. on = {p \in Flying(entry) :
                 Left(entry, p) > tick /\ ~(p \in fallen /\ ~entry.motion[p].jump)}
    BY <2>1 DEF Staying
  <2>3. QED BY <1>3, <1>4, <2>2 DEF Ends
<1> HIDE DEF on, later, end
<1>6. motion' = [p \in Ids |-> IF p \in on THEN later[p] ELSE None]
  <2>1. motion' = [p \in Ids |-> IF motion[p] = None \/ Ends(p) THEN None ELSE motion[p]]
    BY DEF EndTick
  <2>2. QED BY <1>3, <1>4, <1>5, <2>1 DEF InFlight
<1>7. before' = entry.before \cap (on \X on)
  <2>1. before' = {pq \in before : motion'[pq[1]] # None /\ motion'[pq[2]] # None}
    BY DEF EndTick
  <2>2. \A p \in InFlight : p \in on <=> motion'[p] # None
    <3>1. \A p \in on : later[p] # None
      BY <1>3, <1>4, <1>5, NoMotionAssumption
    <3>2. QED BY <1>6, <3>1 DEF InFlight
  <2>3. before \subseteq InFlight \X InFlight /\ before = entry.before
    BY DEF Ordered, UnderWay
  <2>4. on \subseteq InFlight
    BY <1>5
  <2>5. QED BY <2>1, <2>2, <2>3, <2>4
<1>8. Advance(entry, tick)
        = [board |-> end.board, motion |-> [p \in Ids |-> IF p \in on THEN later[p] ELSE None],
           before |-> entry.before \cap (on \X on),
           cooldown |-> [p \in Ids |-> IF p \in end.fallen THEN 0 ELSE end.cooldown[p]],
           captured |-> end.captured, verdict |-> end.verdict]
  BY <1>1, AdvanceIs DEF on, later, end
<1>9. /\ end.board = board /\ end.fallen = fallen /\ end.captured = captured
      /\ end.verdict = verdict /\ end.cooldown = cooldown
  BY <1>2 DEF Mid
<1>10. /\ board' = board /\ captured' = captured /\ verdict' = verdict
       /\ cooldown' = [p \in Ids |-> IF p \in fallen THEN 0 ELSE cooldown[p]]
  BY DEF EndTick
<1>11. QED BY <1>6, <1>7, <1>8, <1>9, <1>10 DEF Now

\* Every step of the machine keeps the wait under way in line with the call.
LEMMA UnderWayStep ==
    Placement /\ Ordered /\ WaitUnderWay /\ [NextChunks]_<<vars, entry>> => WaitUnderWay'
<1> SUFFICES ASSUME Placement, Ordered, WaitUnderWay, [NextChunks]_<<vars, entry>>, tick' > 0
             PROVE  UnderWay'
  BY DEF WaitUnderWay
<1>1. CASE UNCHANGED <<vars, entry>>
  <2>1. UnderWay
    BY <1>1 DEF WaitUnderWay, vars
  <2>2. QED BY <1>1, <2>1 DEF UnderWay, Swepts, Mid, vars
<1>2. CASE NextChunks
  <2>1. Next /\ tick' # 0 /\ entry' = IF tick = 0 THEN Now ELSE entry
    BY <1>2 DEF NextChunks
  <2>2. \/ \E ms \in TickSizes : BeginTick(ms)
        \/ \E p \in Ids : SkipArrival(p) \/ ResolveArrival(p)
    BY <2>1 DEF Next, RequestMove, RequestJump, StartMotion, EndTick, WaitAfterGameOver, vars
  <2>3. CASE \E ms \in TickSizes : BeginTick(ms)
    <3>1. tick = 0
      BY <2>3 DEF BeginTick
    <3>2. QED BY <2>1, <2>3, <3>1, UnderWayBegin
  <2>4. CASE \E p \in Ids : SkipArrival(p) \/ ResolveArrival(p)
    <3>1. tick > 0 /\ tick # 0
      BY <2>4 DEF SkipArrival, ResolveArrival, NextArrival, Placement, TypeOK
    <3>2. UnderWay
      BY <3>1 DEF WaitUnderWay
    <3>3. QED BY <2>1, <2>4, <3>1, <3>2, UnderWayArrival
  <2>5. QED BY <2>2, <2>3, <2>4
<1>3. QED BY <1>1, <1>2

\* SpecChunks is Spec with a history variable.
LEMMA ChunksImplement == SpecChunks => Spec
<1>1. InitChunks => Init
  BY DEF InitChunks
<1>2. [NextChunks]_<<vars, entry>> => [Next]_vars
  BY DEF NextChunks
<1>3. QED BY <1>1, <1>2, PTL DEF SpecChunks, Spec

\* In every reachable state the wait has come to the sweep of what has arrived.
LEMMA WaitsInvariant == SpecChunks => [](Placement /\ Ordered /\ WaitUnderWay)
<1>1. InitChunks => Ordered /\ WaitUnderWay
  BY OrderedInit DEF InitChunks, Init, WaitUnderWay
<1>2. Placement /\ Ordered /\ WaitUnderWay /\ [NextChunks]_<<vars, entry>>
        => Ordered' /\ WaitUnderWay'
  <2>1. [NextChunks]_<<vars, entry>> => [Next]_vars
    BY DEF NextChunks
  <2>2. QED BY <2>1, OrderedStep, UnderWayStep
<1>3. QED BY <1>1, <1>2, ChunksImplement, PlacementInvariant, PTL DEF SpecChunks

\* advance_time resolves the arrivals of a call one by one, and what the steps
\* come to is what the call computes from the state it was entered in.
THEOREM StepsComeToOneCall == SpecChunks => StepsMakeOneWait
<1> DEFINE Inv == Placement /\ Ordered /\ WaitUnderWay
           One == tick > 0 /\ tick' = 0 => Now' = Advance(entry, tick)
<1>1. Inv /\ [NextChunks]_<<vars, entry>> => [One]_<<vars, entry>>
  <2> SUFFICES ASSUME Inv, Next, tick > 0, tick' = 0
               PROVE  Now' = Advance(entry, tick)
    BY DEF NextChunks
  <2>1. EndTick
    BY DEF Next, RequestMove, RequestJump, BeginTick, SkipArrival, ResolveArrival, NextArrival,
           WaitAfterGameOver
  <2>2. QED BY <2>1, UnderWayEnd DEF WaitUnderWay
<1>2. QED BY <1>1, WaitsInvariant, PTL DEF SpecChunks, StepsMakeOneWait
-----------------------------------------------------------------------------
\* A state between two calls of a game that goes on.

Undecided(v) == ~v.draw /\ v.winner = None
KingIn(taken) == \E x \in taken : x.kind = "King"
StandsAt(b, c, p) == Holds(b, c, p) /\ b[c].state # "Airborne"
HoversAt(b, c, p) == \A d \in Cells : Holds(b, d, p) => d = c /\ b[d].state = "Airborne"

Sound(s) ==
    /\ Settled(s)
    /\ s.board \in Boards /\ s.cooldown \in [Ids -> Nat] /\ s.verdict \in Verdict
    /\ \A p \in Flying(s) :
          /\ s.cooldown[p] = 0
          /\ s.motion[p].jump => /\ s.motion[p].destination = s.motion[p].source
                                 /\ HoversAt(s.board, s.motion[p].source, p)
          /\ ~s.motion[p].jump => StandsAt(s.board, s.motion[p].source, p)
    /\ \A p, q \in Flying(s) :
          s.motion[p].jump /\ s.motion[q].jump /\ s.motion[p].source = s.motion[q].source
              => p = q
    /\ Undecided(s.verdict) /\ ~KingIn(s.captured)

\* One arrival, told by the motion as it was when the call began.
Met(s, p, acc) == acc.board[s.motion[p].destination]
Collision(s, p, acc) == CollisionKind(s.motion[p].piece, Met(s, p, acc))
Taken(s, p, acc) == IF Collision(s, p, acc) = "EnemyCaptured" THEN {Met(s, p, acc)} ELSE {}
Rest(s, ms, p) == Larger(0, s.motion[p].cooldown - (ms - Left(s, p)))

\* resolve_arrival does what it says of that motion;
LEMMA ResolvedIs ==
    ASSUME NEW s, Settled(s), NEW ms \in Nat, NEW p \in Landing(s, ms), NEW acc
    PROVE  Resolved(Came(s, ms, p), acc) =
             IF p \in acc.fallen THEN acc
             ELSE [board |-> BoardAfter(acc.board, s.motion[p]),
                   fallen |-> acc.fallen \cup {x.id : x \in Taken(s, p, acc)},
                   captured |-> acc.captured \cup Taken(s, p, acc),
                   verdict |-> IF Taken(s, p, acc) = {} THEN acc.verdict
                               ELSE VerdictAfter(acc.verdict, s.motion[p].piece,
                                                 Met(s, p, acc), Left(s, p)),
                   cooldown |-> IF Collision(s, p, acc) = "FriendlyBlocked" \/ Rest(s, ms, p) = 0
                                THEN acc.cooldown
                                ELSE [acc.cooldown EXCEPT ![p] = Rest(s, ms, p)]]
<1> DEFINE m == s.motion[p]
           n == Came(s, ms, p).motion
<1>1. /\ n.piece = m.piece /\ n.piece.id = p /\ n.jump = m.jump
      /\ n.source = m.source /\ n.destination = m.destination
      /\ Came(s, ms, p).at = Left(s, p)
      /\ Came(s, ms, p).rest = Rest(s, ms, p)
  BY CameIs DEF Rest
<1>2. BoardAfter(acc.board, n) = BoardAfter(acc.board, m)
  BY <1>1 DEF BoardAfter, Landed
<1>3. QED BY <1>1, <1>2 DEF Resolved, Met, Collision, Taken

IdsOf(taken) == {x.id : x \in taken}
Resolves(s, ms, p, acc, r) ==
    /\ r.board = BoardAfter(acc.board, s.motion[p])
    /\ r.fallen = acc.fallen \cup IdsOf(Taken(s, p, acc))
    /\ r.captured = acc.captured \cup Taken(s, p, acc)
    /\ r.verdict = IF Taken(s, p, acc) = {} THEN acc.verdict
                   ELSE VerdictAfter(acc.verdict, s.motion[p].piece,
                                     Met(s, p, acc), Left(s, p))
    /\ r.cooldown = IF Collision(s, p, acc) = "FriendlyBlocked" \/ Rest(s, ms, p) = 0
                    THEN acc.cooldown
                    ELSE [acc.cooldown EXCEPT ![p] = Rest(s, ms, p)]

\* member by member:
LEMMA ResolvedParts ==
    ASSUME NEW s, Settled(s), NEW ms \in Nat, NEW p \in Landing(s, ms), NEW acc,
           p \notin acc.fallen
    PROVE  Resolves(s, ms, p, acc, Resolved(Came(s, ms, p), acc))
BY ResolvedIs DEF Resolves, IdsOf

\* An arrival leaves a board of pieces.
LEMMA BoardAfterType ==
    ASSUME NEW b \in Boards, NEW m \in Motion,
           CollisionKind(m.piece, b[m.destination]) = "FriendlyBlocked" => b[m.source] # None
    PROVE  BoardAfter(b, m) \in Boards
<1>1. m.source \in Cells /\ m.destination \in Cells
  BY DEF Motion
<1>2. CASE CollisionKind(m.piece, b[m.destination]) = "FriendlyBlocked"
  <2>1. b[m.source] \in Piece
    BY <1>1, <1>2 DEF Boards
  <2>2. [b[m.source] EXCEPT !.state = "Idle"] \in Piece
    BY <2>1 DEF Piece, States
  <2>3. BoardAfter(b, m) = [b EXCEPT ![m.source] = [b[m.source] EXCEPT !.state = "Idle"]]
    BY <1>2 DEF BoardAfter
  <2>4. QED BY <1>1, <2>2, <2>3 DEF Boards
<1>3. CASE CollisionKind(m.piece, b[m.destination]) # "FriendlyBlocked"
  <2>1. BoardAfter(b, m) = [[b EXCEPT ![m.source] = None] EXCEPT ![m.destination] = Landed(m)]
    BY <1>3 DEF BoardAfter
  <2>2. QED BY <1>1, <2>1, LandedType DEF Boards
<1>4. QED BY <1>2, <1>3

-----------------------------------------------------------------------------
\* The first part of a wait.

\* With P resolved, the others are where they were, and a jumper is untouched.
Steady(s, P, k) ==
    /\ k.board \in Boards /\ k.cooldown \in [Ids -> Nat]
    /\ \A p \in Flying(s) \ P :
          /\ k.cooldown[p] = 0
          /\ s.motion[p].jump => /\ p \notin k.fallen
                                 /\ HoversAt(k.board, s.motion[p].source, p)
          /\ ~s.motion[p].jump /\ p \notin k.fallen => StandsAt(k.board, s.motion[p].source, p)

\* When the call begins everyone is in place.
LEMMA SteadyBegin ==
    ASSUME NEW s, Sound(s), NEW ms \in Nat PROVE Steady(s, {}, Entered(s, ms))
<1>1. \A p \in Ids : s.cooldown[p] \in Nat
  BY DEF Sound
<1>2. /\ \A p \in Ids : Larger(0, s.cooldown[p] - ms) \in Nat
      /\ \A p \in Ids : s.cooldown[p] = 0 => Larger(0, s.cooldown[p] - ms) = 0
  BY <1>1 DEF Larger
<1>3. QED BY <1>2 DEF Steady, Sound, Entered, Flying

\* An arrival leaves the others in place: it captures no jumper, and whom it takes
\* from a source it marks as fallen.
LEMMA SteadyStep ==
    ASSUME NEW s, Sound(s), NEW ms \in Nat, NEW P \in SUBSET Landing(s, ms), NEW p \in P,
           NEW k, Steady(s, P \ {p}, k)
    PROVE  Steady(s, P, Resolved(Came(s, ms, p), k))
<1> DEFINE m == s.motion[p]
           o == Met(s, p, k)
           kind == Collision(s, p, k)
           taken == Taken(s, p, k)
           rest == Rest(s, ms, p)
           r == Resolved(Came(s, ms, p), k)
           b == BoardAfter(k.board, m)
<1> USE NoneAssumption
<1>1. /\ Settled(s) /\ p \in Landing(s, ms) /\ p \in Flying(s) \ (P \ {p}) /\ p \in Ids
      /\ m \in Motion /\ Left(s, p) \in Nat /\ m.piece.id = p
      /\ m.source \in Cells /\ m.destination \in Cells /\ m.piece \in Piece
      /\ m.jump => m.destination = m.source
      /\ m.cooldown \in Nat /\ k.board \in Boards /\ k.cooldown \in [Ids -> Nat]
  BY LeftType DEF Sound, Landing, Settled, Motion, Steady
<1>2. CASE p \in k.fallen
  <2>1. r = k
    BY <1>1, <1>2, ResolvedIs
  <2>2. QED BY <2>1 DEF Steady
<1>3. CASE p \notin k.fallen
  <2>1. /\ r.board = b
        /\ r.fallen = k.fallen \cup {x.id : x \in taken}
        /\ r.cooldown = IF kind = "FriendlyBlocked" \/ rest = 0 THEN k.cooldown
                        ELSE [k.cooldown EXCEPT ![p] = rest]
    BY <1>1, <1>3, ResolvedIs
  <2> USE DEF Met, Collision, Taken, Rest
  <2>2. ~m.jump => StandsAt(k.board, m.source, p)
    BY <1>1, <1>3 DEF Steady
  <2>3. m.jump => HoversAt(k.board, m.source, p)
    BY <1>1, <1>3 DEF Steady
  <2>4. kind = "FriendlyBlocked" => k.board[m.source] # None /\ o # None
    BY <1>1, <2>2 DEF CollisionKind, StandsAt, Holds
  <2>5. b \in Boards
    BY <1>1, <2>4, BoardAfterType
  <2>6. r.cooldown \in [Ids -> Nat] /\ \A q \in Ids \ {p} : r.cooldown[q] = k.cooldown[q]
    <3>1. rest \in Nat
      BY <1>1 DEF Larger, Landing
    <3>2. QED BY <1>1, <2>1, <3>1
  <2>7. ASSUME NEW q \in Flying(s) \ P
        PROVE  q \in Ids /\ q # p /\ q \in Flying(s) \ (P \ {p}) /\ s.motion[q].source \in Cells
    BY LeftType DEF Sound, Flying, Motion
  <2>8. \A d \in Cells : d # m.source /\ d # m.destination => b[d] = k.board[d]
    BY <1>1 DEF BoardAfter, Boards
  <2>9. kind = "FriendlyBlocked" =>
           /\ \A d \in Cells : d # m.source => b[d] = k.board[d]
           /\ b[m.source] = [k.board[m.source] EXCEPT !.state = "Idle"]
    BY <1>1 DEF BoardAfter, Boards
  <2>10. kind # "FriendlyBlocked" =>
           /\ b[m.destination] = Landed(m) /\ b[m.destination].id = p
           /\ m.source # m.destination => b[m.source] = None
    BY <1>1, LandedType DEF BoardAfter, Boards
  <2>11. ASSUME NEW q \in Flying(s) \ P, s.motion[q].jump
         PROVE  q \notin r.fallen /\ HoversAt(r.board, s.motion[q].source, q)
    <3>1. q \notin k.fallen /\ HoversAt(k.board, s.motion[q].source, q)
      BY <2>7, <2>11 DEF Steady
    <3>2. q \notin {x.id : x \in taken}
      <4> SUFFICES ASSUME kind = "EnemyCaptured", o.id = q PROVE FALSE
        BY DEF taken
      <4>1. o # None /\ o.state # "Airborne"
        BY DEF CollisionKind
      <4>2. QED BY <1>1, <3>1, <4>1 DEF HoversAt, Holds
    <3>3. HoversAt(b, s.motion[q].source, q)
      <4> SUFFICES ASSUME NEW d \in Cells, Holds(b, d, q)
                   PROVE  Holds(k.board, d, q) /\ b[d] = k.board[d]
        BY <3>1 DEF HoversAt
      <4>1. CASE kind = "FriendlyBlocked"
        <5>1. Holds(k.board, d, q)
          <6>1. k.board[m.source] \in Piece
            BY <1>1, <2>4, <4>1 DEF Boards
          <6>2. b[m.source].id = k.board[m.source].id
            BY <2>9, <4>1, <6>1 DEF Piece
          <6>3. QED BY <2>4, <2>9, <4>1, <6>2 DEF Holds
        <5>2. d # m.source
          <6> SUFFICES ASSUME d = m.source PROVE FALSE
            OBVIOUS
          <6>1. m.jump
            BY <2>2, <2>7, <5>1 DEF StandsAt, Holds
          <6>2. d = s.motion[q].source
            BY <3>1, <5>1 DEF HoversAt
          <6>3. QED BY <1>1, <2>7, <2>11, <6>1, <6>2 DEF Sound
        <5>3. QED BY <2>9, <4>1, <5>1, <5>2
      <4>2. CASE kind # "FriendlyBlocked"
        <5>1. d # m.destination /\ d # m.source
          BY <2>7, <2>10, <4>2 DEF Holds
        <5>2. QED BY <2>8, <5>1 DEF Holds
      <4>3. QED BY <4>1, <4>2
    <3>4. QED BY <2>1, <3>1, <3>2, <3>3
  <2>12. ASSUME NEW q \in Flying(s) \ P, ~s.motion[q].jump, q \notin r.fallen
         PROVE  StandsAt(r.board, s.motion[q].source, q)
    <3> DEFINE c == s.motion[q].source
    <3>1. StandsAt(k.board, c, q) /\ c \in Cells /\ q # p
      BY <2>1, <2>7, <2>12 DEF Steady
    <3>2. CASE c # m.source /\ c # m.destination
      BY <2>1, <2>8, <3>1, <3>2 DEF StandsAt, Holds
    <3>3. CASE kind = "FriendlyBlocked"
      <4>1. k.board[c] \in Piece
        BY <1>1, <3>1 DEF StandsAt, Holds, Boards
      <4>2. c = m.source => b[c].id = q /\ b[c].state = "Idle" /\ b[c] # None
        <5> SUFFICES ASSUME c = m.source PROVE b[c].id = q /\ b[c].state = "Idle" /\ b[c] # None
          OBVIOUS
        <5>1. b[c] = [k.board[c] EXCEPT !.state = "Idle"]
          BY <2>9, <3>3
        <5>2. k.board[c].id = q
          BY <3>1 DEF StandsAt, Holds
        <5> HIDE DEF c, b
        <5>3. b[c].id = q /\ b[c].state = "Idle" /\ b[c] \in Piece
          BY <4>1, <5>1, <5>2 DEF Piece, States
        <5>4. QED BY <5>3
      <4>3. c # m.source => b[c] = k.board[c]
        BY <2>9, <3>1, <3>3
      <4>4. QED BY <2>1, <3>1, <4>2, <4>3 DEF StandsAt, Holds
    <3>4. CASE kind # "FriendlyBlocked"
      <4>1. c # m.destination
        <5> SUFFICES ASSUME c = m.destination PROVE FALSE
          OBVIOUS
        <5>1. o # None /\ o.id = q /\ o.state # "Airborne"
          BY <3>1 DEF StandsAt, Holds
        <5>2. kind = "EnemyCaptured"
          BY <1>1, <3>1, <3>4, <5>1 DEF CollisionKind
        <5>3. q \in {x.id : x \in taken}
          BY <5>1, <5>2
        <5>4. QED BY <2>1, <2>12, <5>3
      <4>2. c # m.source
        BY <1>1, <2>2, <3>1, <4>1 DEF StandsAt, Holds
      <4>3. QED BY <3>2, <4>1, <4>2
    <3>5. QED BY <3>3, <3>4
  <2>13. QED BY <2>1, <2>5, <2>6, <2>7, <2>11, <2>12 DEF Steady
<1>4. QED BY <1>2, <1>3

\* The observer has decided exactly when a king has been taken, by now at most.
Told(k, ms) ==
    /\ k.verdict \in Verdict
    /\ KingIn(k.captured) <=> ~Undecided(k.verdict)
    /\ ~Undecided(k.verdict) => k.verdict.at <= ms

\* An arrival that takes a king decides, no later than now.
LEMMA ToldStep ==
    ASSUME NEW s, Sound(s), NEW ms \in Nat, NEW p \in Landing(s, ms),
           NEW k, k.board \in Boards, Told(k, ms)
    PROVE  Told(Resolved(Came(s, ms, p), k), ms)
<1> DEFINE o == Met(s, p, k)
           v == k.verdict
           u == VerdictAfter(v, s.motion[p].piece, o, Left(s, p))
           r == Resolved(Came(s, ms, p), k)
<1> USE NoneAssumption
<1>1. /\ Settled(s) /\ s.motion[p] \in Motion /\ Left(s, p) \in Nat /\ Left(s, p) <= ms
      /\ s.motion[p].destination \in Cells /\ s.motion[p].piece \in Piece
  BY LeftType DEF Sound, Landing, Motion
<1>2. CASE p \in k.fallen \/ Taken(s, p, k) = {}
  <2>1. CASE p \in k.fallen
    <3>1. r = k
      BY <1>1, <2>1, ResolvedIs
    <3>2. QED BY <3>1
  <2>2. CASE p \notin k.fallen
    <3>1. Resolves(s, ms, p, k, r)
      BY <1>1, <2>2, ResolvedParts
    <3> HIDE DEF r
    <3>2. r.verdict = v /\ r.captured = k.captured
      BY <1>2, <2>2, <3>1 DEF Resolves
    <3>3. QED BY <3>2 DEF Told, r, v
  <2>3. QED BY <2>1, <2>2
<1>3. CASE p \notin k.fallen /\ Taken(s, p, k) # {}
  <2>0. Resolves(s, ms, p, k, r)
    BY <1>1, <1>3, ResolvedParts
  <2>1. r.verdict = u /\ r.captured = k.captured \cup {o}
    <3> HIDE DEF r
    <3>1. QED BY <1>3, <2>0 DEF Resolves, Taken
  <2>2. o \in Piece
    BY <1>1, <1>3 DEF Taken, Collision, CollisionKind, Met, Boards
  <2>3. ColorOf[s.motion[p].piece.id] \in Colors
    BY <1>1, ColorAssumption DEF Piece
  <2>4. v \in Verdict
    BY DEF Told
  <2> HIDE DEF o, r
  <2>5. CASE o.kind # "King"
    <3>1. u = v /\ (KingIn(r.captured) <=> KingIn(k.captured))
      BY <2>1, <2>5 DEF VerdictAfter, KingIn
    <3>2. QED BY <2>1, <3>1 DEF Told, r
  <2>6. CASE o.kind = "King"
    <3>1. KingIn(r.captured)
      BY <2>1, <2>6 DEF KingIn
    <3>2. u \in Verdict /\ ~Undecided(u) /\ ((u = v /\ ~Undecided(v)) \/ u.at = Left(s, p))
      BY <1>1, <2>3, <2>4, <2>6 DEF VerdictAfter, Verdict, Undecided
    <3>3. u.at <= ms
      BY <1>1, <3>2 DEF Told
    <3>4. QED BY <2>1, <3>1, <3>2, <3>3 DEF Told, r
  <2>7. QED BY <2>5, <2>6
<1>4. QED BY <1>2, <1>3

\* A wait of a + b that has swept P and one of a that has: the rests differ by b.
SameSoFar(w, k, b) ==
    /\ w.board = k.board /\ w.fallen = k.fallen
    /\ w.captured = k.captured /\ w.verdict = k.verdict
    /\ w.cooldown = [q \in Ids |-> Larger(0, k.cooldown[q] - b)]

\* The same arrival does the same in both, and b more of its rest is over in one.
LEMMA SameSoFarStep ==
    ASSUME NEW s, Sound(s), NEW a \in Nat, NEW b \in Nat, NEW P \in SUBSET Landing(s, a),
           NEW p \in P, NEW w, NEW k, Steady(s, P \ {p}, k), SameSoFar(w, k, b)
    PROVE  SameSoFar(Resolved(Came(s, a + b, p), w), Resolved(Came(s, a, p), k), b)
<1> DEFINE x == Resolved(Came(s, a + b, p), w)
           y == Resolved(Came(s, a, p), k)
           c == s.motion[p].cooldown
           l == Left(s, p)
<1>1. /\ Settled(s) /\ p \in Landing(s, a) /\ p \in Landing(s, a + b) /\ a + b \in Nat
      /\ p \in Ids /\ p \in Flying(s) \ (P \ {p})
      /\ c \in Nat /\ l \in Nat /\ l <= a
  BY LeftType DEF Sound, Landing, Motion
<1>2. CASE p \in k.fallen
  BY <1>1, <1>2, ResolvedIs DEF SameSoFar
<1>3. CASE p \notin k.fallen
  <2>1. /\ Met(s, p, w) = Met(s, p, k) /\ Collision(s, p, w) = Collision(s, p, k)
        /\ Taken(s, p, w) = Taken(s, p, k)
    BY DEF SameSoFar, Met, Collision, Taken
  <2>2. Resolves(s, a, p, k, y) /\ Resolves(s, a + b, p, w, x)
    <3>1. Resolves(s, a, p, k, y)
      BY <1>1, <1>3, ResolvedParts
    <3>2. Resolves(s, a + b, p, w, x)
      BY <1>1, <1>3, ResolvedParts DEF SameSoFar
    <3>3. QED BY <3>1, <3>2
  <2> HIDE DEF x, y
  <2>3. /\ x.board = y.board /\ x.fallen = y.fallen
        /\ x.captured = y.captured /\ x.verdict = y.verdict
    BY <2>1, <2>2 DEF SameSoFar, Resolves
  <2>0. /\ y.cooldown = IF Collision(s, p, k) = "FriendlyBlocked" \/ Rest(s, a, p) = 0
                        THEN k.cooldown ELSE [k.cooldown EXCEPT ![p] = Rest(s, a, p)]
        /\ x.cooldown = IF Collision(s, p, k) = "FriendlyBlocked" \/ Rest(s, a + b, p) = 0
                        THEN w.cooldown ELSE [w.cooldown EXCEPT ![p] = Rest(s, a + b, p)]
    BY <2>1, <2>2 DEF Resolves
  <2>4. Rest(s, a, p) \in Nat /\ Rest(s, a + b, p) = Larger(0, Rest(s, a, p) - b)
    BY <1>1 DEF Rest, Larger
  <2>5. k.cooldown \in [Ids -> Nat] /\ k.cooldown[p] = 0
    BY <1>1 DEF Steady
  <2>6. w.cooldown = [q \in Ids |-> Larger(0, k.cooldown[q] - b)]
    BY DEF SameSoFar
  <2> DEFINE ra == Rest(s, a, p)
             rb == Rest(s, a + b, p)
             kc == k.cooldown
             wc == w.cooldown
             xc == x.cooldown
             yc == y.cooldown
  <2> HIDE DEF ra, rb, kc, wc, xc, yc
  <2>7. xc = [q \in Ids |-> Larger(0, yc[q] - b)]
    <3>0. /\ ra \in Nat /\ rb = Larger(0, ra - b) /\ kc \in [Ids -> Nat] /\ kc[p] = 0
          /\ wc = [q \in Ids |-> Larger(0, kc[q] - b)]
      BY <2>4, <2>5, <2>6 DEF ra, rb, kc, wc
    <3>1. CASE Collision(s, p, k) = "FriendlyBlocked"
      BY <2>0, <3>0, <3>1 DEF xc, yc, wc, kc
    <3>2. CASE Collision(s, p, k) # "FriendlyBlocked"
      <4>1. /\ yc = IF ra = 0 THEN kc ELSE [kc EXCEPT ![p] = ra]
            /\ xc = IF rb = 0 THEN wc ELSE [wc EXCEPT ![p] = rb]
        BY <2>0, <3>2 DEF xc, yc, wc, kc, ra, rb
      <4>2. wc[p] = 0
        BY <1>1, <3>0 DEF Larger
      <4>3. yc \in [Ids -> Nat] /\ yc[p] = ra /\ \A q \in Ids \ {p} : yc[q] = kc[q]
        BY <1>1, <3>0, <4>1
      <4>4. /\ xc = [q \in Ids |-> xc[q]] /\ xc[p] = rb
            /\ \A q \in Ids \ {p} : xc[q] = wc[q]
        BY <1>1, <3>0, <4>1, <4>2
      <4>5. \A q \in Ids : xc[q] = Larger(0, yc[q] - b)
        BY <3>0, <4>3, <4>4
      <4>6. QED BY <4>4, <4>5
    <3>3. QED BY <3>1, <3>2
  <2>8. QED BY <2>3, <2>7 DEF SameSoFar, x, y, xc, yc
<1>4. QED BY <1>2, <1>3

\* After the arrivals of the first part the two sweeps agree.
LEMMA FirstPart ==
    ASSUME NEW s, Sound(s), NEW a \in Nat, NEW b \in Nat
    PROVE  LET w == Swath(s, a + b, Landing(s, a))
               k == Swath(s, a, Landing(s, a))
           IN  Steady(s, Landing(s, a), k) /\ Told(k, a) /\ SameSoFar(w, k, b)
<1> DEFINE W(Q) == Swath(s, a + b, Q)
           K(Q) == Swath(s, a, Q)
           P == Landing(s, a)
           Kept == {Q \in SUBSET P :
                       Steady(s, Q, K(Q)) /\ Told(K(Q), a) /\ SameSoFar(W(Q), K(Q), b)}
<1>1. Settled(s) /\ a + b \in Nat /\ P \in SUBSET Flying(s)
  BY DEF Sound, Landing
<1>2. {} \in Kept
  <2>1. K({}) = Entered(s, a) /\ W({}) = Entered(s, a + b)
    BY SwathNone
  <2>2. Steady(s, {}, Entered(s, a))
    BY SteadyBegin
  <2>3. Told(Entered(s, a), a)
    BY DEF Told, Entered, Sound
  <2>4. SameSoFar(Entered(s, a + b), Entered(s, a), b)
    <3>1. \A q \in Ids : s.cooldown[q] \in Nat
      BY DEF Sound
    <3>2. \A q \in Ids : Larger(0, s.cooldown[q] - (a + b))
                           = Larger(0, Larger(0, s.cooldown[q] - a) - b)
      BY <3>1 DEF Larger
    <3>3. QED BY <3>2 DEF SameSoFar, Entered
  <2>5. QED BY <2>1, <2>2, <2>3, <2>4
<1>3. ASSUME NEW Q \in SUBSET P, NEW p \in P, LastOf(s, Q, p), Q \ {p} \in Kept
      PROVE  Q \in Kept
  <2>1. p \in Q /\ Q \in SUBSET Landing(s, a) /\ Q \in SUBSET Landing(s, a + b)
    BY <1>1, <1>3, LeftType DEF LastOf, Landing
  <2>2. /\ K(Q) = Resolved(Came(s, a, p), K(Q \ {p}))
        /\ W(Q) = Resolved(Came(s, a + b, p), W(Q \ {p}))
    BY <1>1, <1>3, <2>1, SwathStep
  <2>3. /\ Steady(s, Q \ {p}, K(Q \ {p})) /\ Told(K(Q \ {p}), a)
        /\ SameSoFar(W(Q \ {p}), K(Q \ {p}), b)
    BY <1>3
  <2> HIDE DEF K, W, P
  <2>4. Steady(s, Q, K(Q))
    BY <2>1, <2>2, <2>3, SteadyStep
  <2>5. Told(K(Q), a)
    BY <2>1, <2>2, <2>3, ToldStep DEF Steady
  <2>6. SameSoFar(W(Q), K(Q), b)
    BY <2>1, <2>2, <2>3, SameSoFarStep
  <2>7. QED BY <2>4, <2>5, <2>6
<1>4. P \in Kept
  <2> HIDE DEF K, W, P
  <2>1. Kept \in SUBSET SUBSET P
    OBVIOUS
  <2> HIDE DEF Kept
  <2>2. QED BY <1>1, <1>2, <1>3, <2>1, SwathInduction
<1>5. QED BY <1>4

-----------------------------------------------------------------------------
\* The second part of a wait.

\* The state the first call leaves is settled, and those that stay on have a less left.
LEMMA StayingOn ==
    ASSUME NEW s, Settled(s), NEW a \in Nat
    PROVE  LET t == Advance(s, a)
           IN  /\ Settled(t) /\ Flying(t) = Staying(s, a)
               /\ \A p \in Staying(s, a) :
                     /\ Left(t, p) = Left(s, p) - a
                     /\ t.motion[p] = [s.motion[p] EXCEPT !.elapsed = s.motion[p].elapsed + a]
               /\ \A p, q \in Staying(s, a) : Earlier(s, p, q) <=> Earlier(t, p, q)
<1> DEFINE on == Staying(s, a)
           t == Advance(s, a)
<1>1. on \subseteq Flying(s) /\ on \subseteq Ids /\ \A p \in on : Left(s, p) > a
  BY DEF Staying, Flying
<1>2. /\ t.motion = [p \in Ids |-> IF p \in on THEN Later(s, a)[p] ELSE None]
      /\ t.before = s.before \cap (on \X on)
  BY AdvanceIs
<1> HIDE DEF t, on
<1>3. \A p \in on : /\ t.motion[p] = [s.motion[p] EXCEPT !.elapsed = s.motion[p].elapsed + a]
                    /\ t.motion[p] \in Motion
  BY <1>1, <1>2, LaterIs
<1>4. Flying(t) = on
  BY <1>1, <1>2, <1>3, NoMotionAssumption DEF Flying
<1>5. \A p \in on : /\ Left(t, p) = Left(s, p) - a /\ ~Due(t.motion[p])
                    /\ t.motion[p].piece.id = p
  <2> SUFFICES ASSUME NEW p \in on
               PROVE  /\ Left(t, p) = Left(s, p) - a /\ ~Due(t.motion[p])
                      /\ t.motion[p].piece.id = p
    OBVIOUS
  <2>1. /\ s.motion[p] \in Motion /\ s.motion[p].duration \in Nat /\ s.motion[p].elapsed \in Nat
        /\ s.motion[p].piece.id = p /\ Left(s, p) > a
    BY <1>1, LeftType DEF Settled
  <2>2. /\ t.motion[p].duration = s.motion[p].duration
        /\ t.motion[p].elapsed = s.motion[p].elapsed + a
        /\ t.motion[p].piece = s.motion[p].piece
    BY <1>3, <2>1 DEF Motion
  <2>3. QED BY <2>1, <2>2 DEF Left, Due
<1>6. Settled(t)
  <2>1. t.motion \in [Ids -> Motion \cup {None}]
    BY <1>2, <1>3
  <2>2. IsFiniteSet(on)
    BY <1>1, FS_Subset DEF Settled
  <2>3. \A p, q \in on : <<p, q>> \in t.before <=> <<p, q>> \in s.before
    BY <1>2
  <2>4. QED BY <1>1, <1>4, <1>5, <2>1, <2>2, <2>3 DEF Settled
<1>7. \A p, q \in on : Earlier(s, p, q) <=> Earlier(t, p, q)
  <2> SUFFICES ASSUME NEW p \in on, NEW q \in on
               PROVE  Earlier(s, p, q) <=> Earlier(t, p, q)
    OBVIOUS
  <2>1. /\ Left(t, p) = Left(s, p) - a /\ Left(t, q) = Left(s, q) - a
        /\ Left(s, p) \in Nat /\ Left(s, q) \in Nat
    BY <1>1, <1>5, LeftType
  <2>2. <<p, q>> \in t.before <=> <<p, q>> \in s.before
    BY <1>2
  <2>3. QED BY <2>1, <2>2 DEF Earlier
<1>8. QED BY <1>3, <1>4, <1>5, <1>6, <1>7 DEF t, on

\* The observer's verdict in the whole wait and in its second part.
Shifted(v, u, a) ==
    /\ v \in Verdict /\ u \in Verdict
    /\ v.winner = u.winner /\ v.draw = u.draw
    /\ v.winner # None => v.at = u.at + a

\* A capture decides alike in both, with instants a apart.
LEMMA VerdictShifts ==
    ASSUME NEW v, NEW u, NEW a \in Nat, Shifted(v, u, a), NEW l \in Nat, l >= a,
           NEW x \in Piece, NEW o
    PROVE  Shifted(VerdictAfter(v, x, o, l), VerdictAfter(u, x, o, l - a), a)
<1>1. ColorOf[x.id] \in Colors /\ l - a \in Nat
  BY ColorAssumption DEF Piece
<1>2. v.at \in Nat /\ u.at \in Nat
  BY DEF Shifted, Verdict
<1>3. CASE v.draw \/ o.kind # "King"
  BY <1>3 DEF VerdictAfter, Shifted
<1>4. CASE ~v.draw /\ o.kind = "King" /\ v.winner = None
  BY <1>1, <1>2, <1>4 DEF VerdictAfter, Shifted, Verdict
<1>5. CASE ~v.draw /\ o.kind = "King" /\ v.winner # None
  <2>1. v.at = l <=> u.at = l - a
    BY <1>1, <1>2, <1>5 DEF Shifted
  <2>2. QED BY <1>1, <1>2, <1>5, <2>1 DEF VerdictAfter, Shifted, Verdict
<1>6. QED BY <1>3, <1>4, <1>5

\* In the whole wait those who fell in the first part are still on the list.
SameSince(first, a, w, k) ==
    /\ w.board = k.board /\ w.captured = k.captured
    /\ w.fallen = first.fallen \cup k.fallen
    /\ w.cooldown \in [Ids -> Nat] /\ k.cooldown \in [Ids -> Nat]
    /\ \A q \in Ids : IF q \in first.fallen THEN k.cooldown[q] = 0
                      ELSE w.cooldown[q] = k.cooldown[q]
    /\ IF Undecided(first.verdict) THEN Shifted(w.verdict, k.verdict, a)
       ELSE w.verdict = first.verdict

\* The second call begins as the whole wait goes on.
LEMMA SameSinceBegin ==
    ASSUME NEW s, Sound(s), NEW a \in Nat, NEW b \in Nat
    PROVE  SameSince(EndOf(s, a), a, Swath(s, a + b, Landing(s, a)),
                     Entered(Advance(s, a), b))
<1> DEFINE first == EndOf(s, a)
           t == Advance(s, a)
           w == Swath(s, a + b, Landing(s, a))
           k == Entered(t, b)
<1>1. Steady(s, Landing(s, a), first) /\ Told(first, a) /\ SameSoFar(w, first, b)
  BY FirstPart DEF EndOf
<1>2. /\ t.board = first.board /\ t.captured = first.captured /\ t.verdict = first.verdict
      /\ t.cooldown = [p \in Ids |-> IF p \in first.fallen THEN 0 ELSE first.cooldown[p]]
  BY AdvanceIs DEF Sound
<1> HIDE DEF first, t, w
<1>3. \A q \in Ids : first.cooldown[q] \in Nat
  BY <1>1 DEF Steady
<1>4. /\ w.cooldown = [q \in Ids |-> Larger(0, first.cooldown[q] - b)]
      /\ k.cooldown = [q \in Ids |-> Larger(0, t.cooldown[q] - b)]
  BY <1>1 DEF SameSoFar, Entered
<1>5. \A q \in Ids : /\ Larger(0, first.cooldown[q] - b) \in Nat
                     /\ Larger(0, 0 - b) = 0
  BY <1>3 DEF Larger
<1>6. \A q \in Ids : Larger(0, t.cooldown[q] - b) =
                       IF q \in first.fallen THEN 0 ELSE Larger(0, first.cooldown[q] - b)
  BY <1>2, <1>5
<1>7. /\ k.board = w.board /\ k.captured = w.captured /\ k.fallen = {}
      /\ w.fallen = first.fallen /\ w.verdict = first.verdict /\ k.verdict = first.verdict
  BY <1>1, <1>2 DEF SameSoFar, Entered
<1>8. Undecided(first.verdict) => Shifted(w.verdict, k.verdict, a)
  BY <1>1, <1>7 DEF Undecided, Shifted, Told
<1> HIDE DEF k
<1>9. w.cooldown \in [Ids -> Nat] /\ k.cooldown \in [Ids -> Nat]
  BY <1>4, <1>5, <1>6
<1>10. \A q \in Ids : IF q \in first.fallen THEN k.cooldown[q] = 0
                      ELSE w.cooldown[q] = k.cooldown[q]
  BY <1>4, <1>6
<1>11. SameSince(first, a, w, k)
  BY <1>7, <1>8, <1>9, <1>10 DEF SameSince
<1>12. QED BY <1>11 DEF first, t, w, k

\* Of the arrivals of the second part, who fell in the first skips his in the
\* whole wait and has no motion any more in the split one;
LEMMA SameSinceSkip ==
    ASSUME NEW s, Sound(s), NEW a \in Nat, NEW b \in Nat,
           NEW p \in Landing(s, a + b), Left(s, p) > a, p \notin Staying(s, a),
           NEW w, NEW k, SameSince(EndOf(s, a), a, w, k)
    PROVE  Resolved(Came(s, a + b, p), w) = w
<1>1. Settled(s) /\ a + b \in Nat /\ p \in Flying(s)
  BY DEF Sound, Landing
<1>2. p \in EndOf(s, a).fallen
  BY <1>1 DEF Staying
<1>3. p \in w.fallen
  BY <1>2 DEF SameSince
<1>4. QED BY <1>1, <1>3, ResolvedIs

\* and who stayed on arrives alike in both.
LEMMA SameSinceStep ==
    ASSUME NEW s, Sound(s), NEW a \in Nat, NEW b \in Nat,
           NEW p \in Landing(s, a + b), p \in Staying(s, a),
           NEW w, NEW k, SameSince(EndOf(s, a), a, w, k)
    PROVE  SameSince(EndOf(s, a), a, Resolved(Came(s, a + b, p), w),
                     Resolved(Came(Advance(s, a), b, p), k))
<1> DEFINE first == EndOf(s, a)
           t == Advance(s, a)
           x == Resolved(Came(s, a + b, p), w)
           y == Resolved(Came(t, b, p), k)
           l == Left(s, p)
           m == s.motion[p]
           n == t.motion[p]
<1>1. /\ Settled(s) /\ a + b \in Nat /\ p \in Flying(s) /\ p \in Ids
      /\ l \in Nat /\ l > a /\ l <= a + b /\ m \in Motion /\ m.cooldown \in Nat
      /\ m.piece \in Piece
  BY LeftType DEF Sound, Landing, Staying, Motion
<1>2. /\ Settled(t) /\ Left(t, p) = l - a /\ p \in Flying(t)
      /\ n = [m EXCEPT !.elapsed = m.elapsed + a]
  BY <1>1, StayingOn
<1>3. p \in Landing(t, b)
  BY <1>1, <1>2 DEF Landing
<1>4. /\ n.piece = m.piece /\ n.source = m.source /\ n.destination = m.destination
      /\ n.jump = m.jump /\ n.cooldown = m.cooldown
  BY <1>1, <1>2 DEF Motion
<1>5. Steady(s, Landing(s, a), first) /\ Told(first, a)
  BY FirstPart DEF EndOf
<1>6. p \notin first.fallen
  <2>1. p \notin Landing(s, a)
    BY <1>1 DEF Landing
  <2>2. CASE m.jump
    BY <1>1, <1>5, <2>1, <2>2 DEF Steady
  <2>3. CASE ~m.jump
    BY <2>3 DEF Staying
  <2>4. QED BY <2>2, <2>3
<1>7. p \in w.fallen <=> p \in k.fallen
  BY <1>6 DEF SameSince
<1>8. CASE p \in k.fallen
  <2>1. x = w /\ y = k
    BY <1>1, <1>2, <1>3, <1>7, <1>8, ResolvedIs
  <2>2. QED BY <2>1
<1>9. CASE p \notin k.fallen
  <2>1. Resolves(s, a + b, p, w, x) /\ Resolves(t, b, p, k, y)
    <3>1. Resolves(s, a + b, p, w, x)
      BY <1>1, <1>7, <1>9, ResolvedParts
    <3>2. Resolves(t, b, p, k, y)
      BY <1>2, <1>3, <1>9, ResolvedParts
    <3>3. QED BY <3>1, <3>2
  <2> HIDE DEF x, y, first, t
  <2>2. /\ Met(s, p, w) = Met(t, p, k) /\ Collision(s, p, w) = Collision(t, p, k)
        /\ Taken(s, p, w) = Taken(t, p, k)
    BY <1>4 DEF Met, Collision, Taken, SameSince, first
  <2>3. Rest(s, a + b, p) = Rest(t, b, p) /\ Rest(t, b, p) \in Nat
    <3>1. b - (l - a) = a + b - l
      BY <1>1
    <3>2. QED BY <1>1, <1>2, <1>4, <3>1 DEF Rest, Larger
  <2>4. BoardAfter(w.board, m) = BoardAfter(k.board, n)
    BY <1>4 DEF BoardAfter, Landed, SameSince
  <2>5. x.board = y.board /\ x.captured = y.captured /\ x.fallen = first.fallen \cup y.fallen
    BY <2>1, <2>2, <2>4 DEF Resolves, SameSince, first
  <2>6. /\ w.cooldown \in [Ids -> Nat] /\ k.cooldown \in [Ids -> Nat]
        /\ \A q \in Ids : IF q \in first.fallen THEN k.cooldown[q] = 0
                          ELSE w.cooldown[q] = k.cooldown[q]
    BY DEF SameSince, first
  <2>7. /\ x.cooldown = IF Collision(t, p, k) = "FriendlyBlocked" \/ Rest(t, b, p) = 0
                        THEN w.cooldown ELSE [w.cooldown EXCEPT ![p] = Rest(t, b, p)]
        /\ y.cooldown = IF Collision(t, p, k) = "FriendlyBlocked" \/ Rest(t, b, p) = 0
                        THEN k.cooldown ELSE [k.cooldown EXCEPT ![p] = Rest(t, b, p)]
    BY <2>1, <2>2, <2>3 DEF Resolves
  <2>8. /\ x.cooldown \in [Ids -> Nat] /\ y.cooldown \in [Ids -> Nat]
        /\ \A q \in Ids : IF q \in first.fallen THEN y.cooldown[q] = 0
                          ELSE x.cooldown[q] = y.cooldown[q]
    <3>1. CASE Collision(t, p, k) = "FriendlyBlocked" \/ Rest(t, b, p) = 0
      BY <2>6, <2>7, <3>1
    <3>2. CASE ~(Collision(t, p, k) = "FriendlyBlocked" \/ Rest(t, b, p) = 0)
      <4> DEFINE r == Rest(t, b, p)
      <4> HIDE DEF r
      <4>1. /\ r \in Nat /\ x.cooldown = [w.cooldown EXCEPT ![p] = r]
            /\ y.cooldown = [k.cooldown EXCEPT ![p] = r]
        BY <2>3, <2>7, <3>2 DEF r
      <4>2. QED BY <1>1, <1>6, <2>6, <4>1
    <3>3. QED BY <3>1, <3>2
  <2>9. IF Undecided(first.verdict) THEN Shifted(x.verdict, y.verdict, a)
        ELSE x.verdict = first.verdict
    <3> DEFINE o == Met(t, p, k)
    <3>1. /\ x.verdict = IF Taken(t, p, k) = {} THEN w.verdict
                         ELSE VerdictAfter(w.verdict, m.piece, o, l)
          /\ y.verdict = IF Taken(t, p, k) = {} THEN k.verdict
                         ELSE VerdictAfter(k.verdict, m.piece, o, l - a)
      BY <1>2, <1>4, <2>1, <2>2 DEF Resolves
    <3>2. CASE Undecided(first.verdict)
      <4>1. Shifted(w.verdict, k.verdict, a)
        BY <3>2 DEF SameSince, first
      <4>2. Shifted(VerdictAfter(w.verdict, m.piece, o, l),
                    VerdictAfter(k.verdict, m.piece, o, l - a), a)
        BY <1>1, <4>1, VerdictShifts
      <4>3. QED BY <3>1, <3>2, <4>1, <4>2
    <3>3. CASE ~Undecided(first.verdict)
      <4>1. w.verdict = first.verdict
        BY <3>3 DEF SameSince, first
      <4>2. first.verdict.at \in Nat /\ first.verdict.at <= a
        BY <1>5, <3>3 DEF Told, Verdict
      <4>3. first.verdict.at # l
        BY <1>1, <4>2
      <4>4. VerdictAfter(first.verdict, m.piece, o, l) = first.verdict
        BY <3>3, <4>3 DEF VerdictAfter, Undecided
      <4>5. QED BY <3>1, <3>3, <4>1, <4>4
    <3>4. QED BY <3>2, <3>3
  <2>10. SameSince(first, a, x, y)
    BY <2>5, <2>8, <2>9 DEF SameSince
  <2>11. QED BY <2>10 DEF first, t, x, y
<1>10. QED BY <1>8, <1>9

\* At the end of the second part the two sweeps agree.
LEMMA SecondPart ==
    ASSUME NEW s, Sound(s), NEW a \in Nat, NEW b \in Nat
    PROVE  SameSince(EndOf(s, a), a, EndOf(s, a + b), EndOf(Advance(s, a), b))
<1> DEFINE t == Advance(s, a)
           first == EndOf(s, a)
           on == Staying(s, a)
           L == Landing(s, a)
           P == {p \in Flying(s) : Left(s, p) > a /\ Left(s, p) <= a + b}
           W(Q) == Swath(s, a + b, L \cup Q)
           K(Q) == Swath(t, b, Q \cap on)
           Kept == {Q \in SUBSET P : SameSince(first, a, W(Q), K(Q))}
<1>1. /\ Settled(s) /\ a + b \in Nat /\ Settled(t) /\ Flying(t) = on /\ on \subseteq Flying(s)
      /\ \A p \in on : Left(t, p) = Left(s, p) - a
      /\ \A p, q \in on : Earlier(s, p, q) <=> Earlier(t, p, q)
  <2>1. Settled(s) /\ a + b \in Nat
    BY DEF Sound
  <2>2. /\ Settled(t) /\ Flying(t) = on
        /\ \A p \in on : Left(t, p) = Left(s, p) - a
        /\ \A p, q \in on : Earlier(s, p, q) <=> Earlier(t, p, q)
    BY <2>1, StayingOn
  <2>3. on \subseteq Flying(s)
    BY DEF Staying
  <2>4. QED BY <2>1, <2>2, <2>3
<1>2. \A p \in Flying(s) : Left(s, p) \in Nat
  BY <1>1, LeftType
<1>3. L \cup P = Landing(s, a + b) /\ P \cap on = Landing(t, b)
  <2>1. \A p \in Flying(s) : Left(s, p) <= a + b <=> Left(s, p) <= a \/
                                (Left(s, p) > a /\ Left(s, p) <= a + b)
    BY <1>2
  <2>2. L \cup P = Landing(s, a + b)
    BY <2>1 DEF Landing
  <2>3. \A p \in on : Left(s, p) > a
    BY DEF Staying
  <2> HIDE DEF t, on
  <2>4. \A p \in on : Left(t, p) <= b <=> Left(s, p) <= a + b
    BY <1>1, <1>2
  <2>5. P \cap on = {p \in on : Left(t, p) <= b}
    BY <1>1, <2>3, <2>4
  <2>6. QED BY <1>1, <2>2, <2>5 DEF Landing
<1>4. {} \in Kept
  <2>1. L \cup {} = L /\ {} \cap on = {}
    OBVIOUS
  <2>2. K({}) = Entered(t, b) /\ W({}) = Swath(s, a + b, L)
    BY <2>1, SwathNone
  <2>3. QED BY <2>2, SameSinceBegin
<1>5. ASSUME NEW Q \in SUBSET P, NEW p \in P, LastOf(s, Q, p), Q \ {p} \in Kept
      PROVE  Q \in Kept
  <2>1. p \in Q /\ p \notin L /\ Left(s, p) > a /\ p \in Landing(s, a + b) /\ p \in Flying(s)
    BY <1>2, <1>3, <1>5 DEF LastOf, Landing
  <2>2. LastOf(s, L \cup Q, p) /\ (L \cup Q) \ {p} = L \cup (Q \ {p})
    <3>1. \A q \in L : Earlier(s, q, p)
      BY <1>2, <2>1 DEF Landing, Earlier
    <3>2. QED BY <1>5, <2>1, <3>1 DEF LastOf
  <2>3. L \cup Q \in SUBSET Landing(s, a + b)
    BY <1>3
  <2>4. W(Q) = Resolved(Came(s, a + b, p), W(Q \ {p}))
    <3>1. Swath(s, a + b, L \cup Q)
            = Resolved(Came(s, a + b, p), Swath(s, a + b, (L \cup Q) \ {p}))
      <4> HIDE DEF L, P
      <4>1. QED BY <1>1, <2>2, <2>3, SwathStep
    <3>2. QED BY <2>2, <3>1
  <2>5. SameSince(first, a, W(Q \ {p}), K(Q \ {p}))
    BY <1>5
  <2>6. CASE p \in on
    <3>1. LastOf(t, Q \cap on, p) /\ (Q \cap on) \ {p} = (Q \ {p}) \cap on
      <4> HIDE DEF t, on
      <4>1. QED BY <1>1, <1>5, <2>1, <2>6 DEF LastOf
    <3>2. Q \cap on \in SUBSET Landing(t, b)
      BY <1>3
    <3>3. Swath(t, b, Q \cap on) = Resolved(Came(t, b, p), Swath(t, b, (Q \cap on) \ {p}))
      <4> HIDE DEF t, on, P
      <4>1. QED BY <1>1, <3>1, <3>2, SwathStep
    <3>4. K(Q) = Resolved(Came(t, b, p), K(Q \ {p}))
      BY <3>1, <3>3
    <3> HIDE DEF W, K
    <3>5. SameSince(first, a, W(Q), K(Q))
      BY <2>1, <2>4, <2>5, <2>6, <3>4, SameSinceStep
    <3>6. QED BY <3>5
  <2>7. CASE p \notin on
    <3>1. Q \cap on = (Q \ {p}) \cap on
      BY <2>7
    <3>2. K(Q) = K(Q \ {p})
      BY <3>1
    <3> HIDE DEF W, K
    <3>3. W(Q) = W(Q \ {p})
      BY <2>1, <2>4, <2>5, <2>7, SameSinceSkip
    <3>4. QED BY <2>5, <3>2, <3>3
  <2>8. QED BY <2>6, <2>7
<1>6. P \in Kept
  <2>1. P \in SUBSET Flying(s) /\ Kept \in SUBSET SUBSET P
    OBVIOUS
  <2> HIDE DEF P, Kept
  <2>2. QED BY <1>1, <1>4, <1>5, <2>1, SwathInduction
<1>7. W(P) = EndOf(s, a + b) /\ K(P) = EndOf(t, b)
  BY <1>3 DEF EndOf
<1>8. QED BY <1>6, <1>7

-----------------------------------------------------------------------------
\* Two calls and one.

\* The motions that go on are the same, in the same order.
LEMMA SplitMotions ==
    ASSUME NEW s, Sound(s), NEW a \in Nat, NEW b \in Nat
    PROVE  LET whole == Advance(s, a + b)
               parts == Advance(Advance(s, a), b)
           IN  whole.motion = parts.motion /\ whole.before = parts.before
<1> DEFINE t == Advance(s, a)
           on == Staying(s, a)
           onW == Staying(s, a + b)
           onK == Staying(t, b)
           w == EndOf(s, a + b)
           k == EndOf(t, b)
<1>1. /\ Settled(s) /\ Settled(t) /\ a + b \in Nat
  BY StayingOn DEF Sound
<1>2. /\ Flying(t) = on
      /\ \A p \in on : /\ Left(t, p) = Left(s, p) - a
                       /\ t.motion[p] = [s.motion[p] EXCEPT !.elapsed = s.motion[p].elapsed + a]
  BY <1>1, StayingOn
<1>3. w.fallen = EndOf(s, a).fallen \cup k.fallen
  <2>1. SameSince(EndOf(s, a), a, w, k)
    BY SecondPart
  <2> HIDE DEF w, k
  <2>2. QED BY <2>1 DEF SameSince
<1>4. /\ Advance(s, a + b).motion
           = [p \in Ids |-> IF p \in onW THEN Later(s, a + b)[p] ELSE None]
      /\ Advance(s, a + b).before = s.before \cap (onW \X onW)
  BY <1>1, AdvanceIs
<1>5. /\ Advance(t, b).motion = [p \in Ids |-> IF p \in onK THEN Later(t, b)[p] ELSE None]
      /\ Advance(t, b).before = t.before \cap (onK \X onK)
  BY <1>1, AdvanceIs
<1>6. t.before = s.before \cap (on \X on)
  BY <1>1, AdvanceIs
<1>7. ASSUME NEW p \in Flying(s)
      PROVE  /\ Left(s, p) \in Nat /\ s.motion[p] \in Motion /\ s.motion[p].elapsed \in Nat
             /\ p \in on => t.motion[p].jump = s.motion[p].jump
  <2>1. Left(s, p) \in Nat /\ s.motion[p] \in Motion /\ s.motion[p].elapsed \in Nat
    BY <1>1, LeftType
  <2> HIDE DEF t, on
  <2>2. QED BY <1>2, <2>1 DEF Motion
<1> HIDE DEF t
<1>8. onW = onK
  <2>1. onW = {p \in Flying(s) : Left(s, p) > a + b /\ ~(p \in w.fallen /\ ~s.motion[p].jump)}
    BY DEF Staying
  <2>2. onK = {p \in on : Left(t, p) > b /\ ~(p \in k.fallen /\ ~t.motion[p].jump)}
    BY <1>2 DEF Staying
  <2>3. on = {p \in Flying(s) : Left(s, p) > a
                                /\ ~(p \in EndOf(s, a).fallen /\ ~s.motion[p].jump)}
    BY DEF Staying
  <2> HIDE DEF onW, onK, on, w, k
  <2>4. \A p \in on : Left(t, p) > b <=> Left(s, p) > a + b
    <3> SUFFICES ASSUME NEW p \in on PROVE Left(t, p) > b <=> Left(s, p) > a + b
      OBVIOUS
    <3>1. Left(t, p) = Left(s, p) - a /\ Left(s, p) \in Nat
      BY <1>2, <1>7, <2>3
    <3>2. QED BY <3>1
  <2>5. \A p \in Flying(s) : Left(s, p) > a + b => Left(s, p) > a
    BY <1>7
  <2>6. onK = {p \in on : Left(s, p) > a + b /\ ~(p \in k.fallen /\ ~s.motion[p].jump)}
    BY <1>7, <2>2, <2>3, <2>4
  <2>7. QED BY <1>3, <2>1, <2>3, <2>5, <2>6
<1>9. onK \subseteq on /\ on \subseteq Flying(s)
  BY <1>2 DEF Staying
<1> HIDE DEF onW, onK, on, w, k
<1>10. ASSUME NEW p \in onK PROVE Later(s, a + b)[p] = Later(t, b)[p]
  <2>1. /\ p \in on /\ p \in Flying(s) /\ p \in Flying(t) /\ s.motion[p] \in Motion
        /\ s.motion[p].elapsed \in Nat
    BY <1>2, <1>7, <1>9
  <2>2. Later(s, a + b)[p] = [s.motion[p] EXCEPT !.elapsed = s.motion[p].elapsed + (a + b)]
    BY <1>1, <2>1, LaterIs
  <2>3. Later(t, b)[p] = [t.motion[p] EXCEPT !.elapsed = t.motion[p].elapsed + b]
    BY <1>1, <2>1, LaterIs
  <2>4. t.motion[p] = [s.motion[p] EXCEPT !.elapsed = s.motion[p].elapsed + a]
    BY <1>2, <2>1
  <2>5. t.motion[p].elapsed = s.motion[p].elapsed + a
    BY <2>1, <2>4 DEF Motion
  <2>6. (s.motion[p].elapsed + a) + b = s.motion[p].elapsed + (a + b)
    BY <2>1
  <2>7. QED BY <2>1, <2>2, <2>3, <2>4, <2>5, <2>6 DEF Motion
<1>11. Advance(s, a + b).motion = Advance(t, b).motion
  BY <1>4, <1>5, <1>8, <1>10
<1>12. Advance(s, a + b).before = Advance(t, b).before
  BY <1>4, <1>5, <1>6, <1>8, <1>9
<1>13. QED BY <1>11, <1>12 DEF t

\* Two calls leave what one leaves.
LEMMA TwoCallsMakeOne ==
    ASSUME NEW s, Sound(s), NEW a \in Nat, NEW b \in Nat
    PROVE  LET whole == Advance(s, a + b)
               parts == Advance(Advance(s, a), b)
               played == WaitFor(s, a + b).verdict
               split == WaitFor(WaitFor(s, a), b).verdict
           IN  /\ \A f \in {"board", "motion", "before", "cooldown", "captured"} :
                      whole[f] = parts[f]
               /\ played.winner = split.winner /\ played.draw = split.draw
<1> DEFINE t == Advance(s, a)
           first == EndOf(s, a)
           w == EndOf(s, a + b)
           k == EndOf(t, b)
           whole == Advance(s, a + b)
           parts == Advance(t, b)
<1>1. Settled(s) /\ Settled(t) /\ a + b \in Nat /\ ~KingIn(s.captured)
  BY StayingOn DEF Sound
<1>2. SameSince(first, a, w, k)
  BY SecondPart
<1>3. whole.motion = parts.motion /\ whole.before = parts.before
  BY SplitMotions
<1>4. /\ whole.board = w.board /\ whole.captured = w.captured /\ whole.verdict = w.verdict
      /\ whole.cooldown = [p \in Ids |-> IF p \in w.fallen THEN 0 ELSE w.cooldown[p]]
  BY <1>1, AdvanceIs
<1>5. /\ parts.board = k.board /\ parts.captured = k.captured /\ parts.verdict = k.verdict
      /\ parts.cooldown = [p \in Ids |-> IF p \in k.fallen THEN 0 ELSE k.cooldown[p]]
  BY <1>1, AdvanceIs
<1>6. t.captured = first.captured /\ t.verdict = first.verdict
  BY <1>1, AdvanceIs
<1>7. Told(first, a)
  BY FirstPart DEF EndOf
<1>8. WaitFor(s, a + b) = whole /\ WaitFor(s, a) = t
  BY <1>1 DEF WaitFor, KingIn
<1>9. WaitFor(t, b) = IF KingIn(t.captured) THEN t ELSE parts
  BY DEF WaitFor, KingIn
<1> HIDE DEF t, first, w, k, whole, parts
<1>10. whole.board = parts.board /\ whole.captured = parts.captured
  BY <1>2, <1>4, <1>5 DEF SameSince
<1>11. whole.cooldown = parts.cooldown
  <2>1. \A p \in Ids : (IF p \in w.fallen THEN 0 ELSE w.cooldown[p])
                         = (IF p \in k.fallen THEN 0 ELSE k.cooldown[p])
    BY <1>2 DEF SameSince
  <2>2. QED BY <1>4, <1>5, <2>1
<1>12. \A f \in {"board", "motion", "before", "cooldown", "captured"} : whole[f] = parts[f]
  BY <1>3, <1>10, <1>11
<1>13. LET played == WaitFor(s, a + b).verdict
           split == WaitFor(t, b).verdict
       IN  played.winner = split.winner /\ played.draw = split.draw
  <2>1. CASE KingIn(t.captured)
    <3>1. w.verdict = first.verdict
      BY <1>2, <1>6, <1>7, <2>1 DEF SameSince, Told
    <3>2. QED BY <1>4, <1>6, <1>8, <1>9, <2>1, <3>1
  <2>2. CASE ~KingIn(t.captured)
    <3>1. Shifted(w.verdict, k.verdict, a)
      BY <1>2, <1>6, <1>7, <2>2 DEF SameSince, Told
    <3>2. QED BY <1>4, <1>5, <1>8, <1>9, <2>2, <3>1 DEF Shifted
  <2>3. QED BY <2>1, <2>2
<1>14. QED BY <1>8, <1>12, <1>13 DEF t, whole, parts

-----------------------------------------------------------------------------
\* A piece in motion has no rest left.
Rested == \A p \in InFlight : Active(p) => cooldown[p] = 0

\* Who is resting begins nothing, and a rest begins where a motion has ended.
LEMMA RestedStep == Placement /\ Rested /\ [Next]_vars => Rested'
<1> SUFFICES ASSUME Placement, Rested, [Next]_vars, NEW p \in InFlight', Active(p)'
             PROVE  cooldown'[p] = 0
  BY DEF Rested
<1>0. p \in Ids /\ cooldown[p] \in Nat
  BY DEF InFlight, Placement, TypeOK
<1>1. CASE \E c, d \in Cells : RequestMove(c, d) \/ RequestJump(c)
  <2>1. PICK c \in Cells, d \in Cells : RequestMove(c, d) \/ RequestJump(c)
    BY <1>1
  <2>2. PICK m : StartMotion(m) /\ m.piece = board[c] /\ ~Busy(board[c].id)
    BY <2>1 DEF RequestMove, RequestJump, MoveMotion, JumpMotion
  <2>3. CASE p = board[c].id
    BY <1>0, <2>2, <2>3 DEF StartMotion, Busy
  <2>4. CASE p # board[c].id
    BY <1>0, <2>2, <2>4
    DEF StartMotion, Rested, InFlight, Active, Placement, TypeOK
  <2>5. QED BY <2>3, <2>4
<1>2. CASE \E ms \in TickSizes : BeginTick(ms)
  <2>1. PICK ms \in TickSizes : BeginTick(ms)
    BY <1>2
  <2>2. p \in InFlight /\ ~Due(motion[p]) /\ ms \in Nat
    BY <2>1, TimeAssumption DEF BeginTick, InFlight, Placement, BatchPhase
  <2>3. cooldown[p] = 0
    BY <2>2 DEF Rested, Active, InFlight
  <2>4. cooldown'[p] = Larger(0, cooldown[p] - ms)
    BY <1>0, <2>1 DEF BeginTick
  <2>5. QED BY <2>2, <2>3, <2>4 DEF Larger
<1>3. CASE \E q \in Ids : SkipArrival(q) \/ ResolveArrival(q)
  <2>1. PICK q \in Ids : SkipArrival(q) \/ ResolveArrival(q)
    BY <1>3
  <2>2. q \in pending /\ pending' = pending \ {q} /\ motion' = motion
    BY <2>1 DEF SkipArrival, ResolveArrival, NextArrival
  <2>3. p # q
    BY <2>2 DEF Active, Placement, BatchPhase
  <2>4. cooldown'[p] = cooldown[p]
    BY <1>0, <2>1, <2>3 DEF SkipArrival, ResolveArrival, Placement, TypeOK
  <2>5. QED BY <2>2, <2>4 DEF Rested, Active, InFlight
<1>4. CASE EndTick
  <2>1. motion'[p] = motion[p] /\ motion[p] # None /\ ~Due(motion[p])
    BY <1>0, <1>4 DEF EndTick, Ends, InFlight
  <2>2. cooldown[p] = 0
    BY <1>0, <2>1 DEF Rested, Active, InFlight
  <2>3. QED BY <1>0, <1>4, <2>2 DEF EndTick
<1>5. CASE UNCHANGED vars
  BY <1>5 DEF vars, Rested, InFlight, Active
<1>6. QED
  BY <1>1, <1>2, <1>3, <1>4, <1>5 DEF Next, WaitAfterGameOver

\* Between two calls of a game that goes on, all this can be said of the state.
LEMMA NowSound ==
    Captures /\ Ordered /\ Rested /\ VerdictFollows /\ tick = 0 /\ ~gameOver => Sound(Now)
<1> SUFFICES ASSUME Captures, Ordered, Rested, VerdictFollows, tick = 0, ~gameOver
             PROVE  Sound(Now)
  OBVIOUS
<1> DEFINE s == Now
<1>1. Placement /\ Settled(s) /\ Flying(s) = InFlight /\ fallen = {}
  BY NowSettled DEF Captures, Placement, BatchPhase
<1>2. /\ s.motion = motion /\ s.board = board /\ s.cooldown = cooldown
      /\ s.verdict = verdict /\ s.captured = captured
  BY DEF Now
<1>3. board \in Boards /\ cooldown \in [Ids -> Nat] /\ verdict \in Verdict
  BY <1>1 DEF Placement, TypeOK
<1>4. \A p \in InFlight : Active(p) /\ p \in Ids
  BY <1>1 DEF Placement, BatchPhase, InFlight, Active
<1> HIDE DEF s
<1>5. ASSUME NEW p \in InFlight
      PROVE  /\ cooldown[p] = 0
             /\ motion[p].jump => /\ motion[p].destination = motion[p].source
                                  /\ HoversAt(board, motion[p].source, p)
             /\ ~motion[p].jump => StandsAt(board, motion[p].source, p)
  <2>1. cooldown[p] = 0
    BY <1>4 DEF Rested
  <2>2. ASSUME motion[p].jump
        PROVE  motion[p].destination = motion[p].source /\ HoversAt(board, motion[p].source, p)
    <3>1. Jumping(p)
      BY <1>4, <2>2 DEF Jumping
    <3>2. QED
      BY <1>1, <1>4, <2>2, <3>1
      DEF Placement, MotionsFiled, JumperHome, Captures, StateMatchesMotion, HoversAt
  <2>3. ASSUME ~motion[p].jump PROVE StandsAt(board, motion[p].source, p)
    BY <1>1, <1>4, <2>3 DEF Placement, MoverGrounded, StandsAt
  <2>4. QED BY <2>1, <2>2, <2>3
<1>6. \A p, q \in InFlight :
         motion[p].jump /\ motion[q].jump /\ motion[p].source = motion[q].source => p = q
  BY <1>4 DEF Captures, JumpCellsDistinct, Jumping
<1>7. Undecided(verdict) /\ ~KingIn(captured)
  BY DEF VerdictFollows, Undecided, KingIn
<1>8. Sound(s)
  BY <1>1, <1>2, <1>3, <1>5, <1>6, <1>7 DEF Sound
<1>9. QED BY <1>8 DEF s

\* However a stretch of time is split into two calls, the board, the motions,
\* the rests, the captures and the outcome are those of one call.
THEOREM SplitsAreInvisible == SpecChunks => []ChunkingIsInvisible
<1>1. Captures /\ Ordered /\ Rested /\ VerdictFollows => ChunkingIsInvisible
  <2> SUFFICES ASSUME Captures, Ordered, Rested, VerdictFollows, tick = 0, ~gameOver,
                      NEW a \in Chunks, NEW b \in Chunks
               PROVE  LET whole == Advance(Now, a + b)
                          parts == Advance(Advance(Now, a), b)
                          played == WaitFor(Now, a + b).verdict
                          split == WaitFor(WaitFor(Now, a), b).verdict
                      IN  /\ \A f \in {"board", "motion", "before", "cooldown", "captured"} :
                                 whole[f] = parts[f]
                          /\ played.winner = split.winner /\ played.draw = split.draw
    BY DEF ChunkingIsInvisible
  <2>1. Sound(Now) /\ a \in Nat /\ b \in Nat
    BY NowSound, ChunksAssumption
  <2>2. QED BY <2>1, TwoCallsMakeOne
<1>2. Init => Rested
  BY DEF Init, Rested, InFlight
<1>3. Spec => [](Ordered /\ Rested)
  <2>1. Init => Ordered /\ Rested
    BY OrderedInit, <1>2
  <2>2. Placement /\ Ordered /\ Rested /\ [Next]_vars => (Ordered /\ Rested)'
    BY OrderedStep, RestedStep
  <2>3. QED BY <2>1, <2>2, PlacementInvariant, PTL DEF Spec
<1>4. Spec => []VerdictFollows
  BY VerdictInvariant
<1>5. QED BY <1>1, <1>3, <1>4, ChunksImplement, CapturesInvariant, PTL
=============================================================================
