-------------------------- MODULE S2PredicateProofs --------------------------
(***************************************************************************)
(* That the predicates on points are consistent, for all points, and that  *)
(* S2EdgeCrosser answers what the four orientations say, whatever the      *)
(* chains, the points and the error of its filters.                        *)
(*                                                                         *)
(* Sign breaks ties by a symbolic perturbation.  The proof carries it out: *)
(* for any five points there are five vectors, no three of them on a great *)
(* circle, whose determinants have the signs that Sign returns             *)
(* (Realizable).  One point is moved after the other, the smallest first,  *)
(* each by steps too small to change the sign of what was not zero         *)
(* (MovedDecides).  Whatever holds for the signs of all determinants, the  *)
(* Grassmann-Pluecker relation above all, holds for Sign therefore, and    *)
(* what the wedge relations and the edge crosser need follows from that.   *)
(*                                                                         *)
(* The difficult part of the edge crosser is the filter with the tangents  *)
(* of ab.  It works with the points as they are, while the orientations    *)
(* are those of the perturbed points.  The points are moved into general   *)
(* position in such a way that they stay on their side of the tangents     *)
(* (Keeps): for the moved points both sides of an identity                 *)
(* (CrossingIdentity) would have to have different signs if there was a    *)
(* crossing.                                                               *)
(***************************************************************************)
EXTENDS S2PredicateLaws, S2EdgeCrosser, FiniteSetTheorems, TLAPS

-----------------------------------------------------------------------------
(* Vectors and determinants *)

Det(p, q, r) == DotProd(CrossProd(p, q), r)

(* A vector is its three coordinates.                                         *)
LEMMA VectorParts ==
  ASSUME NEW p \in Vectors
  PROVE  p[1] \in Int /\ p[2] \in Int /\ p[3] \in Int /\ p = << p[1], p[2], p[3] >>
BY DEF Vectors

(* Vectors with the same coordinates are the same, and a point has one that   *)
(* is not zero.                                                               *)
LEMMA VectorsEqual ==
  ASSUME NEW p \in Vectors, NEW q \in Vectors
  PROVE  /\ p = q <=> p[1] = q[1] /\ p[2] = q[2] /\ p[3] = q[3]
         /\ p # << 0, 0, 0 >> <=> p[1] # 0 \/ p[2] # 0 \/ p[3] # 0
BY VectorParts

(* Products of vectors are numbers and vectors.                               *)
LEMMA ProductTypes ==
  ASSUME NEW p \in Vectors, NEW q \in Vectors, NEW r \in Vectors
  PROVE  /\ DotProd(p, q) \in Int
         /\ CrossProd(p, q) \in Vectors
         /\ Det(p, q, r) \in Int
         /\ Minus(p) \in Vectors
BY VectorParts DEF DotProd, CrossProd, Det, Minus, Vectors

(* A determinant keeps its value when its points are rotated and changes its  *)
(* sign when two of them are exchanged; it is zero if two are equal.          *)
LEMMA DetAlternates ==
  ASSUME NEW p \in Vectors, NEW q \in Vectors, NEW r \in Vectors
  PROVE  /\ Det(q, r, p) = Det(p, q, r)
         /\ Det(q, p, r) = -Det(p, q, r)
         /\ Det(p, r, q) = -Det(p, q, r)
         /\ Det(p, p, r) = 0
         /\ DotProd(p, CrossProd(q, r)) = Det(p, q, r)
BY VectorParts DEF Det, DotProd, CrossProd

(* Signs of numbers: their values, and what a sign says of its number.        *)
LEMMA SignOfNumber ==
  ASSUME NEW m \in Int
  PROVE  /\ Sgn(m) \in {-1, 0, 1}
         /\ Sgn(-m) = -Sgn(m)
         /\ Sgn(m) = 0 <=> m = 0
         /\ Sgn(m) = 1 <=> m > 0
         /\ Sgn(m) = -1 <=> m < 0
BY DEF Sgn

(* What a filter says is the sign or nothing.                                 *)
LEMMA TriageSound ==
  ASSUME NEW m \in Int
  PROVE  /\ Triage(m) \in {0, Sgn(m)}
         /\ Triage(-m) = -Triage(m)
         /\ Triage(0) = 0
         /\ Triage(m) \in {-1, 0, 1}
BY MaxDetErrorIsNat DEF Triage, AbsOf, Sgn

-----------------------------------------------------------------------------
(* The order of points *)

(* Less compares the first coordinates that differ.                           *)
LEMMA LessMeans ==
  ASSUME NEW p \in Vectors, NEW q \in Vectors
  PROVE  Less(p, q) <=> \/ p[1] < q[1]
                        \/ p[1] = q[1] /\ p[2] < q[2]
                        \/ p[1] = q[1] /\ p[2] = q[2] /\ p[3] < q[3]
<1>1. Less(p, q) <=> \/ p[1] < q[1] /\ \A j \in 1 .. 1 - 1 : p[j] = q[j]
                     \/ p[2] < q[2] /\ \A j \in 1 .. 2 - 1 : p[j] = q[j]
                     \/ p[3] < q[3] /\ \A j \in 1 .. 3 - 1 : p[j] = q[j]
  <2>1. \A i \in 1 .. 3 : i = 1 \/ i = 2 \/ i = 3
    OBVIOUS
  <2> QED BY <2>1 DEF Less
<1>2. \A j : /\ j \in 1 .. 1 - 1 <=> FALSE
             /\ j \in 1 .. 2 - 1 <=> j = 1
             /\ j \in 1 .. 3 - 1 <=> j = 1 \/ j = 2
  OBVIOUS
<1> QED BY <1>1, <1>2, Zenon

(* It is a strict total order.                                                *)
LEMMA LessOrders ==
  ASSUME NEW p \in Vectors, NEW q \in Vectors, NEW r \in Vectors
  PROVE  /\ ~Less(p, p)
         /\ Less(p, q) => ~Less(q, p)
         /\ p # q => Less(p, q) \/ Less(q, p)
         /\ Less(p, q) /\ Less(q, r) => Less(p, r)
BY LessMeans, VectorsEqual, VectorParts

-----------------------------------------------------------------------------
(* Moving a point a little *)

\* The sign of v . t for a t that is p, moved by less and less along the third,
\* the second and the first axis.
Leading(v, p) ==
  FirstOf(Sgn(DotProd(v, p)), FirstOf(Sgn(v[3]), FirstOf(Sgn(v[2]), Sgn(v[1]))))

Within(v, C) == \A i \in 1 .. 3 : -C <= v[i] /\ v[i] <= C
Bounded(S) == \E C \in Nat : \A v \in S : v \in Vectors /\ Within(v, C)

\* t is p after a move that changes the sign of the determinant with q and r
\* only if that was zero.
Follows(p, t, q, r) == Sgn(Det(q, r, t)) = Leading(CrossProd(q, r), p)

Moved(p, t, S) == t \in Vectors /\ \A q, r \in S : Follows(p, t, q, r)

(* Adding less than the unit decides the sign only of zero.                   *)
LEMMA SmallerDecides ==
  ASSUME NEW C \in Nat, NEW m \in Int, NEW k \in Int, -C <= k, k <= C
  PROVE  m * (C + 1) + k \in Int /\ Sgn(m * (C + 1) + k) = FirstOf(Sgn(m), Sgn(k))
<1>1. CASE m = 0
  BY <1>1 DEF FirstOf, Sgn
<1>2. CASE m > 0
  <2>1. m * (C + 1) >= C + 1
    BY <1>2
  <2> QED BY <1>2, <2>1 DEF FirstOf, Sgn
<1>3. CASE m < 0
  <2>1. m * (C + 1) <= -(C + 1)
    BY <1>3
  <2> QED BY <1>3, <2>1 DEF FirstOf, Sgn
<1> QED BY <1>1, <1>2, <1>3

(* For vectors of any size there is a move that their products decide.        *)
LEMMA MoveDecides ==
  ASSUME NEW p \in Vectors, NEW C \in Nat
  PROVE  \E t \in Vectors : \A v \in Vectors :
           Within(v, C) => Sgn(DotProd(v, t)) = Leading(v, p)
<1> DEFINE M == C + 1
           t == << M * M * M * p[1] + 1, M * M * M * p[2] + M, M * M * M * p[3] + M * M >>
<1>1. t \in Vectors
  BY VectorParts DEF Vectors
<1>2. ASSUME NEW v \in Vectors, Within(v, C)
      PROVE  Sgn(DotProd(v, t)) = Leading(v, p)
  <2> DEFINE f == DotProd(v, p)
             f1 == f * M + v[3]
             f2 == f1 * M + v[2]
             f3 == f2 * M + v[1]
  <2>1. f \in Int /\ v[1] \in Int /\ v[2] \in Int /\ v[3] \in Int
    BY ProductTypes, VectorParts
  <2>2. /\ -C <= v[1] /\ v[1] <= C
        /\ -C <= v[2] /\ v[2] <= C
        /\ -C <= v[3] /\ v[3] <= C
    BY <1>2 DEF Within
  <2>3. f1 \in Int /\ Sgn(f1) = FirstOf(Sgn(f), Sgn(v[3]))
    BY <2>1, <2>2, SmallerDecides
  <2>4. f2 \in Int /\ Sgn(f2) = FirstOf(Sgn(f1), Sgn(v[2]))
    <3> HIDE DEF f1
    <3> QED BY <2>1, <2>2, <2>3, SmallerDecides
  <2>5. Sgn(f3) = FirstOf(Sgn(f2), Sgn(v[1]))
    <3> HIDE DEF f2
    <3> QED BY <2>1, <2>2, <2>4, SmallerDecides
  <2>6. DotProd(v, t) = f3
    <3>1. PICK v1 \in Int, v2 \in Int, v3 \in Int : v = << v1, v2, v3 >>
      BY VectorParts
    <3>2. PICK p1 \in Int, p2 \in Int, p3 \in Int : p = << p1, p2, p3 >>
      BY VectorParts
    <3>3. PICK n \in Int : n = M
      OBVIOUS
    <3> HIDE DEF M
    <3> QED BY <3>1, <3>2, <3>3 DEF DotProd
  <2>7. Leading(v, p) = FirstOf(FirstOf(FirstOf(Sgn(f), Sgn(v[3])), Sgn(v[2])), Sgn(v[1]))
    BY DEF Leading, FirstOf
  <2> HIDE DEF f, f1, f2, f3
  <2> QED BY <2>3, <2>4, <2>5, <2>6, <2>7
<1> HIDE DEF t
<1> QED BY <1>1, <1>2

(* The vectors of a set that is extended by one vector stay bounded.          *)
LEMMA BoundedExtends ==
  ASSUME NEW S, Bounded(S), NEW p \in Vectors
  PROVE  Bounded({}) /\ Bounded(S \cup {p})
<1>1. PICK C \in Nat : \A v \in S : v \in Vectors /\ Within(v, C)
  BY DEF Bounded
<1>2. PICK D \in Nat : Within(p, D)
  <2>1. PICK p1 \in Int, p2 \in Int, p3 \in Int : p = << p1, p2, p3 >>
    BY VectorParts
  <2> DEFINE D == AbsOf(p1) + AbsOf(p2) + AbsOf(p3)
  <2>2. D \in Nat /\ Within(p, D)
    BY <2>1 DEF Within, AbsOf
  <2> QED BY <2>2
<1>3. ASSUME NEW v \in S \cup {p}
      PROVE  v \in Vectors /\ Within(v, C + D)
  <2>1. v \in Vectors /\ (Within(v, C) \/ Within(v, D))
    BY <1>1, <1>2
  <2> QED BY <2>1, VectorParts DEF Within
<1>4. C + D \in Nat
  OBVIOUS
<1> QED BY <1>3, <1>4 DEF Bounded

(* The cross products of vectors of a bounded set are bounded.                *)
LEMMA CrossProductsBounded ==
  ASSUME NEW C \in Nat, NEW q \in Vectors, NEW r \in Vectors, Within(q, C), Within(r, C)
  PROVE  Within(CrossProd(q, r), 2 * (C * C))
<1>1. \A n \in Nat : \A x, y \in Int : -n <= x /\ x <= n /\ -n <= y /\ y <= n
                        => -(n * n) <= x * y /\ x * y <= n * n
  <2>1. \A n \in Nat : \A x, y \in Int :
          0 <= x /\ x <= n /\ 0 <= y /\ y <= n => 0 <= x * y /\ x * y <= n * n
    OBVIOUS
  <2> SUFFICES ASSUME NEW n \in Nat, NEW x \in Int, NEW y \in Int,
                      -n <= x, x <= n, -n <= y, y <= n
               PROVE  -(n * n) <= x * y /\ x * y <= n * n
    OBVIOUS
  <2>2. 0 <= AbsOf(x) * AbsOf(y) /\ AbsOf(x) * AbsOf(y) <= n * n
    BY <2>1 DEF AbsOf
  <2> QED BY <2>2 DEF AbsOf
<1>2. PICK q1 \in Int, q2 \in Int, q3 \in Int : q = << q1, q2, q3 >>
  BY VectorParts
<1>3. PICK r1 \in Int, r2 \in Int, r3 \in Int : r = << r1, r2, r3 >>
  BY VectorParts
<1>4. /\ -C <= q1 /\ q1 <= C /\ -C <= q2 /\ q2 <= C /\ -C <= q3 /\ q3 <= C
      /\ -C <= r1 /\ r1 <= C /\ -C <= r2 /\ r2 <= C /\ -C <= r3 /\ r3 <= C
  BY <1>2, <1>3 DEF Within
<1>5. \A x, y \in {q1, q2, q3, r1, r2, r3} : -(C * C) <= x * y /\ x * y <= C * C
  BY <1>1, <1>4
<1>6. \A k \in Nat : \A m, n \in Int : -k <= m /\ m <= k /\ -k <= n /\ n <= k
                                         => -(2 * k) <= m - n /\ m - n <= 2 * k
  OBVIOUS
<1>8. \A x, y, z, w \in {q1, q2, q3, r1, r2, r3} :
        -(2 * (C * C)) <= x * y - z * w /\ x * y - z * w <= 2 * (C * C)
  <2> SUFFICES ASSUME NEW x \in {q1, q2, q3, r1, r2, r3}, NEW y \in {q1, q2, q3, r1, r2, r3},
                      NEW z \in {q1, q2, q3, r1, r2, r3}, NEW w \in {q1, q2, q3, r1, r2, r3}
               PROVE  -(2 * (C * C)) <= x * y - z * w /\ x * y - z * w <= 2 * (C * C)
    OBVIOUS
  <2> DEFINE k == C * C
             m == x * y
             n == z * w
  <2>1. k \in Nat /\ m \in Int /\ n \in Int
    OBVIOUS
  <2>2. -k <= m /\ m <= k /\ -k <= n /\ n <= k
    BY <1>5
  <2>3. -(2 * k) <= m - n /\ m - n <= 2 * k
    <3> HIDE DEF k, m, n
    <3> QED BY <1>6, <2>1, <2>2
  <2> QED BY <2>3
<1>7. CrossProd(q, r) = << q2 * r3 - q3 * r2, q3 * r1 - q1 * r3, q1 * r2 - q2 * r1 >>
  BY <1>2, <1>3 DEF CrossProd
<1> QED BY <1>7, <1>8 DEF Within

(* Every point can be moved within what a bounded set of vectors decides.     *)
LEMMA Moves ==
  ASSUME NEW p \in Vectors, NEW S, Bounded(S)
  PROVE  \E t : Moved(p, t, S)
<1>1. PICK C \in Nat : \A v \in S : v \in Vectors /\ Within(v, C)
  BY DEF Bounded
<1>2. 2 * (C * C) \in Nat
  OBVIOUS
<1>3. PICK t \in Vectors : \A v \in Vectors :
             Within(v, 2 * (C * C)) => Sgn(DotProd(v, t)) = Leading(v, p)
  BY <1>2, MoveDecides
<1>4. ASSUME NEW q \in S, NEW r \in S
      PROVE  Follows(p, t, q, r)
  BY <1>1, <1>3, CrossProductsBounded, ProductTypes DEF Det, Follows
<1> QED BY <1>3, <1>4 DEF Moved

-----------------------------------------------------------------------------
(* Sign is the sign of the determinant of moved points *)

\* The axes along which a point is moved first.
North == << 0, 0, 1 >>
East == << 0, 1, 0 >>

(* FirstSign finds the first number that is not zero.                         *)
LEMMA FirstSignFinds ==
  ASSUME NEW s, NEW i \in DOMAIN s, s[i] # 0, DOMAIN s \subseteq Nat \ {0},
         \A j \in 1 .. i - 1 : s[j] = 0
  PROVE  FirstSign(s) = Sgn(s[i])
<1>1. ASSUME NEW k \in DOMAIN s, s[k] # 0, \A j \in 1 .. k - 1 : s[j] = 0
      PROVE  k = i
  <2>1. k \in Nat \ {0} /\ i \in Nat \ {0}
    OBVIOUS
  <2>2. ~(k < i) /\ ~(i < k)
    BY <1>1, <2>1
  <2> QED BY <2>1, <2>2
<1> DEFINE first == CHOOSE k \in DOMAIN s : s[k] # 0 /\ \A j \in 1 .. k - 1 : s[j] = 0
<1>2. first \in DOMAIN s /\ s[first] # 0 /\ \A j \in 1 .. first - 1 : s[j] = 0
  OBVIOUS
<1>3. first = i
  BY <1>1, <1>2
<1> HIDE DEF first
<1>4. FirstSign(s) = Sgn(s[first])
  BY DEF FirstSign, first
<1> QED BY <1>3, <1>4

\* The first coefficients of the perturbation of p, q and r that is not zero.
Coefficient(p, q, r) ==
  LET u == CrossProd(q, r) IN
  FirstOf(FirstOf(Sgn(u[3]), FirstOf(Sgn(u[2]), Sgn(u[1]))),
    FirstOf(FirstOf(Sgn(r[1] * p[2] - r[2] * p[1]), FirstOf(Sgn(r[1]), Sgn(-r[2]))),
            FirstOf(Sgn(r[3] * p[1] - r[1] * p[3]), Sgn(r[3]))))

(* Where the largest point is not the centre, SymbolicallyPerturbedSign needs *)
(* no more than these coefficients, and is not zero.                          *)
LEMMA SymbolicSign ==
  ASSUME NEW p \in Vectors, NEW q \in Vectors, NEW r \in Vectors, r # << 0, 0, 0 >>
  PROVE  /\ SymbolicallyPerturbedSign(p, q, r) = Coefficient(p, q, r)
         /\ Coefficient(p, q, r) \in {-1, 1}
<1> DEFINE u == CrossProd(q, r)
           s == << u[3], u[2], u[1], r[1] * p[2] - r[2] * p[1], r[1], -r[2],
                   r[3] * p[1] - r[1] * p[3], r[3],
                   p[1] * q[2] - p[2] * q[1], -q[1], q[2], p[1], 1 >>
<1>1. SymbolicallyPerturbedSign(p, q, r) = FirstSign(s)
  BY DEF SymbolicallyPerturbedSign
<1>2. /\ p[1] \in Int /\ p[2] \in Int /\ p[3] \in Int
      /\ r[1] \in Int /\ r[2] \in Int /\ r[3] \in Int
      /\ u[1] \in Int /\ u[2] \in Int /\ u[3] \in Int
      /\ r[1] # 0 \/ r[2] # 0 \/ r[3] # 0
  BY VectorParts, ProductTypes, VectorsEqual
<1>3. DOMAIN s = 1 .. 13
  OBVIOUS
<1> DEFINE e == r[1] * p[2] - r[2] * p[1]
           f == r[3] * p[1] - r[1] * p[3]
<1>4. e \in Int /\ f \in Int
  BY <1>2
<1>5. /\ s[1] = u[3] /\ s[2] = u[2] /\ s[3] = u[1] /\ s[4] = e
      /\ s[5] = r[1] /\ s[6] = -r[2] /\ s[7] = f /\ s[8] = r[3]
  OBVIOUS
<1>6. ASSUME NEW i \in 1 .. 8, s[i] # 0, \A j \in 1 .. i - 1 : s[j] = 0
      PROVE  FirstSign(s) = Sgn(s[i])
  <2> HIDE DEF s
  <2> QED BY <1>3, <1>6, FirstSignFinds
<1>7. \E i \in 1 .. 8 : s[i] # 0 /\ \A j \in 1 .. i - 1 : s[j] = 0
  <2> DEFINE none(i) == \A j \in 1 .. i : s[j] = 0
  <2> SUFFICES ASSUME \A i \in 1 .. 8 : s[i] # 0 => \E j \in 1 .. i - 1 : s[j] # 0
               PROVE  FALSE
    OBVIOUS
  <2> HIDE DEF s
  <2>1. s[1] = 0 /\ s[2] = 0 /\ s[3] = 0
    OBVIOUS
  <2>2. s[4] = 0 /\ s[5] = 0
    BY <2>1
  <2>3. s[6] = 0 /\ s[7] = 0
    BY <2>1, <2>2
  <2>4. s[8] = 0
    BY <2>1, <2>2, <2>3
  <2> QED BY <1>2, <1>5, <2>2, <2>3, <2>4
<1>8. PICK i \in 1 .. 8 : s[i] # 0 /\ \A j \in 1 .. i - 1 : s[j] = 0
  BY <1>7
<1>9. Coefficient(p, q, r) = Sgn(s[i])
  <2>1. Coefficient(p, q, r) =
          FirstOf(FirstOf(Sgn(u[3]), FirstOf(Sgn(u[2]), Sgn(u[1]))),
            FirstOf(FirstOf(Sgn(e), FirstOf(Sgn(r[1]), Sgn(-r[2]))),
                    FirstOf(Sgn(f), Sgn(r[3]))))
    BY DEF Coefficient
  <2>2. \A m \in Int : Sgn(m) = 0 <=> m = 0
    BY SignOfNumber
  <2> HIDE DEF s, e, f, u
  <2>3. \A j \in 1 .. i - 1 : s[j] = 0
    BY <1>8
  <2>4. i = 1 \/ i = 2 \/ i = 3 \/ i = 4 \/ i = 5 \/ i = 6 \/ i = 7 \/ i = 8
    OBVIOUS
  <2> QED BY <1>2, <1>4, <1>5, <1>8, <2>1, <2>2, <2>3, <2>4 DEF FirstOf
<1> HIDE DEF s
<1>10. s[i] \in Int
  <2>1. i = 1 \/ i = 2 \/ i = 3 \/ i = 4 \/ i = 5 \/ i = 6 \/ i = 7 \/ i = 8
    OBVIOUS
  <2> HIDE DEF u, e, f
  <2> QED BY <1>2, <1>4, <1>5, <2>1
<1> QED BY <1>1, <1>6, <1>8, <1>9, <1>10, SignOfNumber

\* How three points p < q < r turn, with the perturbation.
Turn(p, q, r) == FirstOf(Sgn(DotProd(p, CrossProd(q, r))), Coefficient(p, q, r))

\* Three points were moved one after the other, each so little that it still
\* turns as it did with the points before it that have moved and those after it.
InTurn(p, pp, q, qq, r, rr) ==
  /\ p \in Vectors /\ q \in Vectors /\ r \in Vectors /\ IsPoint(r)
  /\ pp \in Vectors /\ qq \in Vectors /\ rr \in Vectors
  /\ Follows(p, pp, q, r) /\ Follows(p, pp, North, r) /\ Follows(p, pp, East, r)
  /\ Follows(q, qq, r, pp) /\ Follows(r, rr, pp, qq)

(* The determinant of three points that were moved one after the other, the   *)
(* first one first, has the sign that the perturbation gives to the three.    *)
LEMMA MovedSign ==
  ASSUME NEW p, NEW q, NEW r, NEW pp, NEW qq, NEW rr, InTurn(p, pp, q, qq, r, rr)
  PROVE  Sgn(Det(pp, qq, rr)) = Turn(p, q, r)
<1> p \in Vectors /\ q \in Vectors /\ r \in Vectors
  BY DEF InTurn
<1> pp \in Vectors /\ qq \in Vectors /\ rr \in Vectors
  BY DEF InTurn
<1>1. North \in Vectors /\ East \in Vectors /\ r # << 0, 0, 0 >>
  BY DEF North, East, Vectors, IsPoint, InTurn
<1> DEFINE u == CrossProd(q, r)
           w == CrossProd(r, pp)
           v == CrossProd(pp, qq)
           e == r[1] * p[2] - r[2] * p[1]
           f == r[3] * p[1] - r[1] * p[3]
<1>2. /\ u \in Vectors /\ w \in Vectors /\ v \in Vectors
      /\ e \in Int /\ f \in Int /\ r[1] \in Int /\ r[2] \in Int /\ r[3] \in Int
      /\ u[1] \in Int /\ u[2] \in Int /\ u[3] \in Int
      /\ w[1] \in Int /\ w[2] \in Int /\ w[3] \in Int
      /\ r[1] # 0 \/ r[2] # 0 \/ r[3] # 0
  <2>1. u \in Vectors /\ w \in Vectors /\ v \in Vectors
    BY <1>1, ProductTypes
  <2>2. e \in Int /\ f \in Int
    BY VectorParts
  <2> HIDE DEF u, w, v, e, f
  <2> QED BY <1>1, <2>1, <2>2, VectorParts, VectorsEqual
<1>3. /\ Sgn(Det(pp, qq, rr)) = Leading(v, r)
      /\ Sgn(Det(r, pp, qq)) = Leading(w, q)
      /\ Sgn(Det(q, r, pp)) = Leading(u, p)
      /\ Sgn(Det(North, r, pp)) = Leading(CrossProd(North, r), p)
      /\ Sgn(Det(East, r, pp)) = Leading(CrossProd(East, r), p)
  BY DEF InTurn, Follows
<1>4. /\ DotProd(v, r) = Det(r, pp, qq)
      /\ DotProd(w, q) = Det(q, r, pp)
      /\ DotProd(u, p) = DotProd(p, u)
  <2>1. DotProd(v, r) = Det(pp, qq, r) /\ DotProd(w, q) = Det(r, pp, q)
    BY DEF Det
  <2>2. Det(pp, qq, r) = Det(r, pp, qq) /\ Det(r, pp, q) = Det(q, r, pp)
    BY <1>1, DetAlternates
  <2>3. DotProd(u, p) = DotProd(p, u)
    BY <1>2, VectorParts DEF DotProd
  <2> QED BY <2>1, <2>2, <2>3
<1>5. w[3] = Det(North, r, pp) /\ w[2] = Det(East, r, pp)
  BY <1>1, VectorParts DEF Det, DotProd, CrossProd, North, East
<1>6. /\ CrossProd(North, r) = << -r[2], r[1], 0 >>
      /\ CrossProd(East, r) = << r[3], 0, -r[1] >>
      /\ DotProd(CrossProd(North, r), p) = e
      /\ DotProd(CrossProd(East, r), p) = f
  BY <1>1, VectorParts DEF DotProd, CrossProd, North, East
<1>7. Sgn(w[3]) = FirstOf(Sgn(e), FirstOf(0, FirstOf(Sgn(r[1]), Sgn(-r[2]))))
  BY <1>3, <1>5, <1>6 DEF Leading, Sgn
<1>8. Sgn(w[2]) = FirstOf(Sgn(f), FirstOf(Sgn(-r[1]), FirstOf(0, Sgn(r[3]))))
  BY <1>3, <1>5, <1>6 DEF Leading, Sgn
<1>9. FirstOf(Sgn(w[3]), FirstOf(Sgn(w[2]), Sgn(w[1])))
        = FirstOf(FirstOf(Sgn(e), FirstOf(Sgn(r[1]), Sgn(-r[2]))), FirstOf(Sgn(f), Sgn(r[3])))
  <2>1. /\ Sgn(r[1]) = 0 <=> r[1] = 0
        /\ Sgn(-r[1]) = 0 <=> r[1] = 0
        /\ Sgn(-r[2]) = 0 <=> r[2] = 0
        /\ Sgn(r[3]) = 0 <=> r[3] = 0
    BY <1>2 DEF Sgn
  <2> HIDE DEF e, f, w
  <2> QED BY <1>2, <1>7, <1>8, <2>1 DEF FirstOf
<1>10. Sgn(Det(q, r, pp)) = FirstOf(Sgn(DotProd(p, u)), FirstOf(Sgn(u[3]), FirstOf(Sgn(u[2]), Sgn(u[1]))))
  BY <1>3, <1>4 DEF Leading
<1>11. Sgn(Det(r, pp, qq))
         = FirstOf(Sgn(Det(q, r, pp)), FirstOf(Sgn(w[3]), FirstOf(Sgn(w[2]), Sgn(w[1]))))
  BY <1>3, <1>4 DEF Leading
<1>12. Sgn(Det(r, pp, qq)) = FirstOf(Sgn(DotProd(p, u)), Coefficient(p, q, r))
  <2>1. Coefficient(p, q, r)
          = FirstOf(FirstOf(Sgn(u[3]), FirstOf(Sgn(u[2]), Sgn(u[1]))),
              FirstOf(FirstOf(Sgn(e), FirstOf(Sgn(r[1]), Sgn(-r[2]))), FirstOf(Sgn(f), Sgn(r[3]))))
    BY DEF Coefficient
  <2> HIDE DEF e, f, u, w
  <2> QED BY <1>9, <1>10, <1>11, <2>1 DEF FirstOf
<1>13. Sgn(Det(pp, qq, rr))
         = FirstOf(Sgn(Det(r, pp, qq)), FirstOf(Sgn(v[3]), FirstOf(Sgn(v[2]), Sgn(v[1]))))
  BY <1>3, <1>4 DEF Leading
<1>14. Coefficient(p, q, r) # 0
  BY <1>1, SymbolicSign
<1>15. Sgn(Det(r, pp, qq)) # 0
  BY <1>12, <1>14 DEF FirstOf
<1> QED BY <1>12, <1>13, <1>15 DEF FirstOf, Turn

-----------------------------------------------------------------------------
(* Sign and the order of its points *)

(* Three points in order always turn.                                         *)
LEMMA TurnDecides ==
  ASSUME NEW p \in Vectors, NEW q \in Vectors, NEW r \in Vectors, r # << 0, 0, 0 >>
  PROVE  /\ Turn(p, q, r) \in {-1, 1}
         /\ Sgn(Det(p, q, r)) \in {0, Turn(p, q, r)}
<1>1. DotProd(p, CrossProd(q, r)) \in Int /\ DotProd(p, CrossProd(q, r)) = Det(p, q, r)
  BY ProductTypes, DetAlternates
<1>2. Sgn(Det(p, q, r)) \in {-1, 0, 1}
  BY <1>1, SignOfNumber
<1>3. Coefficient(p, q, r) \in {-1, 1}
  BY SymbolicSign
<1> QED BY <1>1, <1>2, <1>3 DEF Turn, FirstOf

(* However three points are given, ExactSign sorts them and counts exchanges. *)
LEMMA ExactSignSorts ==
  ASSUME NEW p \in Vectors, NEW q \in Vectors, NEW r \in Vectors, r # << 0, 0, 0 >>,
         Less(p, q), Less(q, r)
  PROVE  /\ ExactSign(p, q, r) = Turn(p, q, r)
         /\ ExactSign(q, r, p) = Turn(p, q, r)
         /\ ExactSign(r, p, q) = Turn(p, q, r)
         /\ ExactSign(q, p, r) = -Turn(p, q, r)
         /\ ExactSign(p, r, q) = -Turn(p, q, r)
         /\ ExactSign(r, q, p) = -Turn(p, q, r)
<1>1. Less(p, r) /\ ~Less(q, p) /\ ~Less(r, q) /\ ~Less(r, p)
  BY LessOrders
<1> DEFINE Sorted(t) == SwapFirst(SwapLast(SwapFirst(t)))
<1>3. Sorted(<< p, q, r, 1 >>) = << p, q, r, 1 >>
  <2>1. SwapFirst(<< p, q, r, 1 >>) = << p, q, r, 1 >>
    BY <1>1 DEF SwapFirst
  <2>2. SwapLast(<< p, q, r, 1 >>) = << p, q, r, 1 >>
    BY <1>1 DEF SwapLast
  <2>3. SwapFirst(<< p, q, r, 1 >>) = << p, q, r, 1 >>
    BY <1>1 DEF SwapFirst
  <2> QED BY <2>1, <2>2, <2>3
<1>4. Sorted(<< q, r, p, 1 >>) = << p, q, r, 1 >>
  <2>1. SwapFirst(<< q, r, p, 1 >>) = << q, r, p, 1 >>
    BY <1>1 DEF SwapFirst
  <2>2. SwapLast(<< q, r, p, 1 >>) = << q, p, r, -1 >>
    BY <1>1 DEF SwapLast
  <2>3. SwapFirst(<< q, p, r, -1 >>) = << p, q, r, 1 >>
    BY <1>1 DEF SwapFirst
  <2> QED BY <2>1, <2>2, <2>3
<1>5. Sorted(<< r, p, q, 1 >>) = << p, q, r, 1 >>
  <2>1. SwapFirst(<< r, p, q, 1 >>) = << p, r, q, -1 >>
    BY <1>1 DEF SwapFirst
  <2>2. SwapLast(<< p, r, q, -1 >>) = << p, q, r, 1 >>
    BY <1>1 DEF SwapLast
  <2>3. SwapFirst(<< p, q, r, 1 >>) = << p, q, r, 1 >>
    BY <1>1 DEF SwapFirst
  <2> QED BY <2>1, <2>2, <2>3
<1>6. Sorted(<< q, p, r, 1 >>) = << p, q, r, -1 >>
  <2>1. SwapFirst(<< q, p, r, 1 >>) = << p, q, r, -1 >>
    BY <1>1 DEF SwapFirst
  <2>2. SwapLast(<< p, q, r, -1 >>) = << p, q, r, -1 >>
    BY <1>1 DEF SwapLast
  <2>3. SwapFirst(<< p, q, r, -1 >>) = << p, q, r, -1 >>
    BY <1>1 DEF SwapFirst
  <2> QED BY <2>1, <2>2, <2>3
<1>7. Sorted(<< p, r, q, 1 >>) = << p, q, r, -1 >>
  <2>1. SwapFirst(<< p, r, q, 1 >>) = << p, r, q, 1 >>
    BY <1>1 DEF SwapFirst
  <2>2. SwapLast(<< p, r, q, 1 >>) = << p, q, r, -1 >>
    BY <1>1 DEF SwapLast
  <2>3. SwapFirst(<< p, q, r, -1 >>) = << p, q, r, -1 >>
    BY <1>1 DEF SwapFirst
  <2> QED BY <2>1, <2>2, <2>3
<1>8. Sorted(<< r, q, p, 1 >>) = << p, q, r, -1 >>
  <2>1. SwapFirst(<< r, q, p, 1 >>) = << q, r, p, -1 >>
    BY <1>1 DEF SwapFirst
  <2>2. SwapLast(<< q, r, p, -1 >>) = << q, p, r, 1 >>
    BY <1>1 DEF SwapLast
  <2>3. SwapFirst(<< q, p, r, 1 >>) = << p, q, r, -1 >>
    BY <1>1 DEF SwapFirst
  <2> QED BY <2>1, <2>2, <2>3
<1> DEFINE turn == Turn(p, q, r)
<1>9. turn \in Int
  BY TurnDecides
<1>10. SortedSign(<< p, q, r, 1 >>) = 1 * turn /\ SortedSign(<< p, q, r, -1 >>) = (-1) * turn
  BY SymbolicSign DEF SortedSign, Turn
<1>11. 1 * turn = turn /\ (-1) * turn = -turn
  <2>1. \A k \in Int : 1 * k = k /\ (-1) * k = -k
    OBVIOUS
  <2> HIDE DEF turn
  <2> QED BY <1>9, <2>1
<1> QED BY <1>3, <1>4, <1>5, <1>6, <1>7, <1>8, <1>10, <1>11, Zenon DEF ExactSign

(* Distinct points can be put in order, and their determinant and ExactSign   *)
(* follow each other through every exchange: the exact sign is not zero, it   *)
(* is the sign of the determinant where that is not zero, and it alternates.  *)
LEMMA ExactSignAlternates ==
  ASSUME NEW p, NEW q, NEW r, IsPoint(p), IsPoint(q), IsPoint(r), p # q, q # r, r # p
  PROVE  /\ ExactSign(p, q, r) \in {-1, 1}
         /\ Sgn(Det(p, q, r)) \in {0, ExactSign(p, q, r)}
         /\ ExactSign(q, r, p) = ExactSign(p, q, r)
         /\ ExactSign(q, p, r) = -ExactSign(p, q, r)
<1> DEFINE Claim(x, y, z) ==
             /\ ExactSign(x, y, z) \in {-1, 1}
             /\ Sgn(Det(x, y, z)) \in {0, ExactSign(x, y, z)}
             /\ ExactSign(y, z, x) = ExactSign(x, y, z)
             /\ ExactSign(y, x, z) = -ExactSign(x, y, z)
<1>1. ASSUME NEW x, NEW y, NEW z, IsPoint(x), IsPoint(y), IsPoint(z), Less(x, y), Less(y, z)
      PROVE  /\ Claim(x, y, z) /\ Claim(y, z, x) /\ Claim(z, x, y)
             /\ Claim(y, x, z) /\ Claim(x, z, y) /\ Claim(z, y, x)
  <2> USE <1>1 DEF IsPoint
  <2>1. /\ ExactSign(x, y, z) = Turn(x, y, z)
        /\ ExactSign(y, z, x) = Turn(x, y, z)
        /\ ExactSign(z, x, y) = Turn(x, y, z)
        /\ ExactSign(y, x, z) = -Turn(x, y, z)
        /\ ExactSign(x, z, y) = -Turn(x, y, z)
        /\ ExactSign(z, y, x) = -Turn(x, y, z)
    BY ExactSignSorts
  <2>2. Turn(x, y, z) \in {-1, 1} /\ Sgn(Det(x, y, z)) \in {0, Turn(x, y, z)}
    BY TurnDecides
  <2>3. Det(x, y, z) \in Int
    BY ProductTypes
  <2>4. /\ Det(y, z, x) = Det(x, y, z)
        /\ Det(y, x, z) = -Det(x, y, z)
        /\ Det(x, z, y) = -Det(x, y, z)
    BY DetAlternates
  <2>5. Det(z, x, y) = Det(x, y, z)
    BY DetAlternates
  <2>6. Det(z, y, x) = -Det(x, y, z)
    BY <2>4, DetAlternates
  <2>7. Sgn(-Det(x, y, z)) = -Sgn(Det(x, y, z))
    BY <2>3, SignOfNumber
  <2>8. /\ Sgn(Det(y, z, x)) \in {0, Turn(x, y, z)}
        /\ Sgn(Det(z, x, y)) \in {0, Turn(x, y, z)}
        /\ Sgn(Det(y, x, z)) \in {0, -Turn(x, y, z)}
        /\ Sgn(Det(x, z, y)) \in {0, -Turn(x, y, z)}
        /\ Sgn(Det(z, y, x)) \in {0, -Turn(x, y, z)}
    BY <2>2, <2>4, <2>5, <2>6, <2>7
  <2> DEFINE t == Turn(x, y, z)
  <2>9. -t \in {-1, 1} /\ -(-t) = t
    BY <2>2
  <2> HIDE <1>1 DEF t
  <2> QED BY <2>1, <2>2, <2>8, <2>9 DEF t
<1>2. \/ Less(p, q) /\ Less(q, r)
      \/ Less(q, r) /\ Less(r, p)
      \/ Less(r, p) /\ Less(p, q)
      \/ Less(q, p) /\ Less(p, r)
      \/ Less(p, r) /\ Less(r, q)
      \/ Less(r, q) /\ Less(q, p)
  BY LessOrders DEF IsPoint
<1>3. Claim(p, q, r)
  <2> HIDE DEF Claim
  <2> QED BY <1>1, <1>2
<1> QED BY <1>3
(* What everything else needs to know of Sign: the filter and the exact steps *)
(* agree, it is zero only if two points are equal, it keeps its value when    *)
(* the points are rotated and changes it when two are exchanged.              *)
LEMMA SignAlternates ==
  ASSUME NEW p, NEW q, NEW r, IsPoint(p), IsPoint(q), IsPoint(r)
  PROVE  /\ Sign(p, q, r) = ExpensiveSign(p, q, r)
         /\ Sign(p, q, r) \in {-1, 0, 1}
         /\ TriageSign(p, q, r) \in {0, Sign(p, q, r)}
         /\ Sgn(Det(p, q, r)) \in {0, Sign(p, q, r)}
         /\ Sign(p, q, r) = 0 <=> p = q \/ q = r \/ r = p
         /\ Sign(q, r, p) = Sign(p, q, r)
         /\ Sign(q, p, r) = -Sign(p, q, r)
<1> DEFINE Claim(x, y, z) ==
             /\ Sign(x, y, z) = ExpensiveSign(x, y, z)
             /\ TriageSign(x, y, z) \in {0, Sign(x, y, z)}
             /\ Sgn(Det(x, y, z)) \in {0, Sign(x, y, z)}
             /\ (x = y \/ y = z \/ z = x) => Sign(x, y, z) = 0
             /\ ~(x = y \/ y = z \/ z = x) =>
                  Sign(x, y, z) = ExactSign(x, y, z) /\ Sign(x, y, z) \in {-1, 1}
<1>1. ASSUME NEW x, NEW y, NEW z, IsPoint(x), IsPoint(y), IsPoint(z)
      PROVE  Claim(x, y, z)
  <2> USE <1>1 DEF IsPoint
  <2>1. Det(x, y, z) \in Int
    BY ProductTypes
  <2>2. TriageSign(x, y, z) = Triage(Det(x, y, z))
    BY DEF TriageSign, Det
  <2>3. TriageSign(x, y, z) \in {0, Sgn(Det(x, y, z))}
    BY <2>1, <2>2, TriageSound
  <2>4. CASE x = y \/ y = z \/ z = x
    <3>1. Det(x, y, z) = 0
      <4>1. Det(x, y, z) = Det(y, z, x) /\ Det(y, z, x) = Det(z, x, y)
        BY DetAlternates
      <4>2. Det(x, x, z) = 0 /\ Det(y, y, x) = 0 /\ Det(z, z, y) = 0
        BY DetAlternates
      <4> QED BY <2>4, <4>1, <4>2
    <3>2. TriageSign(x, y, z) = 0 /\ Sgn(Det(x, y, z)) = 0
      BY <2>3, <3>1 DEF Sgn
    <3>3. Sign(x, y, z) = 0 /\ ExpensiveSign(x, y, z) = 0
      BY <2>4, <3>2 DEF Sign, ExpensiveSign, FirstOf
    <3> QED BY <2>4, <3>2, <3>3
  <2>5. CASE ~(x = y \/ y = z \/ z = x)
    <3>1. ExactSign(x, y, z) \in {-1, 1} /\ Sgn(Det(x, y, z)) \in {0, ExactSign(x, y, z)}
      BY <2>5, ExactSignAlternates
    <3>2. ExpensiveSign(x, y, z) = ExactSign(x, y, z)
      BY <2>5 DEF ExpensiveSign
    <3>3. Sign(x, y, z) = ExactSign(x, y, z)
      BY <2>3, <3>1, <3>2 DEF Sign, FirstOf
    <3> QED BY <2>3, <2>5, <3>1, <3>2, <3>3
  <2> QED BY <2>4, <2>5
<1>2. Claim(p, q, r) /\ Claim(q, r, p) /\ Claim(q, p, r)
  <2> HIDE DEF Claim
  <2> QED BY <1>1
<1>3. CASE p = q \/ q = r \/ r = p
  BY <1>2, <1>3
<1>4. CASE ~(p = q \/ q = r \/ r = p)
  <2>1. ExactSign(q, r, p) = ExactSign(p, q, r) /\ ExactSign(q, p, r) = -ExactSign(p, q, r)
    BY <1>4, ExactSignAlternates
  <2> QED BY <1>2, <1>4, <2>1
<1> QED BY <1>3, <1>4

-----------------------------------------------------------------------------
(* Configurations of points in general position *)

Axes == {North, East}

\* Five points moved one after the other, each within what the others, moved or
\* not, and a further vector decide.
Configured(s1, s2, s3, s4, s5, n, t1, t2, t3, t4, t5) ==
  /\ Moved(s1, t1, {s2, s3, s4, s5, n} \cup Axes)
  /\ Moved(s2, t2, {t1, s3, s4, s5, n} \cup Axes)
  /\ Moved(s3, t3, {t1, t2, s4, s5, n} \cup Axes)
  /\ Moved(s4, t4, {t1, t2, t3, s5, n} \cup Axes)
  /\ Moved(s5, t5, {t1, t2, t3, t4, n} \cup Axes)

(* Any five points can be.                                                    *)
LEMMA Configuration ==
  ASSUME NEW s1 \in Vectors, NEW s2 \in Vectors, NEW s3 \in Vectors, NEW s4 \in Vectors,
         NEW s5 \in Vectors, NEW n \in Vectors
  PROVE  \E t1, t2, t3, t4, t5 : Configured(s1, s2, s3, s4, s5, n, t1, t2, t3, t4, t5)
<1>1. ASSUME NEW p \in Vectors, NEW v1 \in Vectors, NEW v2 \in Vectors, NEW v3 \in Vectors,
             NEW v4 \in Vectors
      PROVE  \E t \in Vectors : Moved(p, t, {v1, v2, v3, v4, n} \cup Axes)
  <2>1. Bounded({})
    BY DEF Bounded
  <2>2. North \in Vectors /\ East \in Vectors
    BY DEF North, East, Vectors
  <2>3. Bounded({} \cup {North})
    BY <2>1, <2>2, BoundedExtends
  <2>4. Bounded(({} \cup {North}) \cup {East})
    BY <2>2, <2>3, BoundedExtends
  <2>5. Bounded(Axes)
    BY <2>4 DEF Axes
  <2>6. Bounded((Axes \cup {n}) \cup {v1})
    BY <2>5, BoundedExtends
  <2>7. Bounded((((((Axes \cup {n}) \cup {v1}) \cup {v2}) \cup {v3}) \cup {v4}))
    BY <2>6, BoundedExtends
  <2>8. ((((Axes \cup {n}) \cup {v1}) \cup {v2}) \cup {v3}) \cup {v4} = {v1, v2, v3, v4, n} \cup Axes
    OBVIOUS
  <2>9. \E t : Moved(p, t, {v1, v2, v3, v4, n} \cup Axes)
    BY <2>7, <2>8, Moves
  <2> QED BY <2>9 DEF Moved
<1>2. PICK t1 \in Vectors : Moved(s1, t1, {s2, s3, s4, s5, n} \cup Axes)
  BY <1>1
<1>3. PICK t2 \in Vectors : Moved(s2, t2, {t1, s3, s4, s5, n} \cup Axes)
  BY <1>1
<1>4. PICK t3 \in Vectors : Moved(s3, t3, {t1, t2, s4, s5, n} \cup Axes)
  BY <1>1
<1>5. PICK t4 \in Vectors : Moved(s4, t4, {t1, t2, t3, s5, n} \cup Axes)
  BY <1>1
<1>6. PICK t5 \in Vectors : Moved(s5, t5, {t1, t2, t3, t4, n} \cup Axes)
  BY <1>1
<1> QED BY <1>2, <1>3, <1>4, <1>5, <1>6 DEF Configured

(* The moved points turn as the perturbation says of the points.              *)
LEMMA ConfiguredTurns ==
  ASSUME NEW s1 \in Vectors, NEW s2 \in Vectors, NEW s3 \in Vectors, NEW s4 \in Vectors,
         NEW s5 \in Vectors, NEW n, NEW t1, NEW t2, NEW t3, NEW t4, NEW t5,
         IsPoint(s3), IsPoint(s4), IsPoint(s5),
         Configured(s1, s2, s3, s4, s5, n, t1, t2, t3, t4, t5)
  PROVE  /\ Sgn(Det(t1, t2, t3)) = Turn(s1, s2, s3)
         /\ Sgn(Det(t1, t2, t4)) = Turn(s1, s2, s4)
         /\ Sgn(Det(t1, t2, t5)) = Turn(s1, s2, s5)
         /\ Sgn(Det(t1, t3, t4)) = Turn(s1, s3, s4)
         /\ Sgn(Det(t1, t3, t5)) = Turn(s1, s3, s5)
         /\ Sgn(Det(t1, t4, t5)) = Turn(s1, s4, s5)
         /\ Sgn(Det(t2, t3, t4)) = Turn(s2, s3, s4)
         /\ Sgn(Det(t2, t3, t5)) = Turn(s2, s3, s5)
         /\ Sgn(Det(t2, t4, t5)) = Turn(s2, s4, s5)
         /\ Sgn(Det(t3, t4, t5)) = Turn(s3, s4, s5)
<1>1. /\ t1 \in Vectors /\ t2 \in Vectors /\ t3 \in Vectors /\ t4 \in Vectors /\ t5 \in Vectors
  BY DEF Configured, Moved
<1>2. Sgn(Det(t1, t2, t3)) = Turn(s1, s2, s3)
  <2>1. InTurn(s1, t1, s2, t2, s3, t3)
    BY <1>1 DEF Configured, Moved, Axes, InTurn
  <2> QED BY <2>1, MovedSign
<1>3. Sgn(Det(t1, t2, t4)) = Turn(s1, s2, s4)
  <2>1. InTurn(s1, t1, s2, t2, s4, t4)
    BY <1>1 DEF Configured, Moved, Axes, InTurn
  <2> QED BY <2>1, MovedSign
<1>4. Sgn(Det(t1, t2, t5)) = Turn(s1, s2, s5)
  <2>1. InTurn(s1, t1, s2, t2, s5, t5)
    BY <1>1 DEF Configured, Moved, Axes, InTurn
  <2> QED BY <2>1, MovedSign
<1>5. Sgn(Det(t1, t3, t4)) = Turn(s1, s3, s4)
  <2>1. InTurn(s1, t1, s3, t3, s4, t4)
    BY <1>1 DEF Configured, Moved, Axes, InTurn
  <2> QED BY <2>1, MovedSign
<1>6. Sgn(Det(t1, t3, t5)) = Turn(s1, s3, s5)
  <2>1. InTurn(s1, t1, s3, t3, s5, t5)
    BY <1>1 DEF Configured, Moved, Axes, InTurn
  <2> QED BY <2>1, MovedSign
<1>7. Sgn(Det(t1, t4, t5)) = Turn(s1, s4, s5)
  <2>1. InTurn(s1, t1, s4, t4, s5, t5)
    BY <1>1 DEF Configured, Moved, Axes, InTurn
  <2> QED BY <2>1, MovedSign
<1>8. Sgn(Det(t2, t3, t4)) = Turn(s2, s3, s4)
  <2>1. InTurn(s2, t2, s3, t3, s4, t4)
    BY <1>1 DEF Configured, Moved, Axes, InTurn
  <2> QED BY <2>1, MovedSign
<1>9. Sgn(Det(t2, t3, t5)) = Turn(s2, s3, s5)
  <2>1. InTurn(s2, t2, s3, t3, s5, t5)
    BY <1>1 DEF Configured, Moved, Axes, InTurn
  <2> QED BY <2>1, MovedSign
<1>10. Sgn(Det(t2, t4, t5)) = Turn(s2, s4, s5)
  <2>1. InTurn(s2, t2, s4, t4, s5, t5)
    BY <1>1 DEF Configured, Moved, Axes, InTurn
  <2> QED BY <2>1, MovedSign
<1>11. Sgn(Det(t3, t4, t5)) = Turn(s3, s4, s5)
  <2>1. InTurn(s3, t3, s4, t4, s5, t5)
    BY <1>1 DEF Configured, Moved, Axes, InTurn
  <2> QED BY <2>1, MovedSign
<1> QED BY <1>2, <1>3, <1>4, <1>5, <1>6, <1>7, <1>8, <1>9, <1>10, <1>11

\* Two points were moved, each so little that it still turns with the other and
\* the vector n as it did.
InTurnWith(n, p, pp, q, qq) ==
  /\ n \in Vectors /\ p \in Vectors /\ q \in Vectors /\ pp \in Vectors /\ qq \in Vectors
  /\ Follows(p, pp, q, n) /\ Follows(q, qq, n, pp)

(* The moved points turn with n as the move of the first one decides.         *)
LEMMA MovedWith ==
  ASSUME NEW n, NEW p, NEW pp, NEW q, NEW qq, InTurnWith(n, p, pp, q, qq),
         Leading(CrossProd(q, n), p) # 0
  PROVE  Sgn(Det(pp, qq, n)) = Leading(CrossProd(q, n), p)
<1> /\ n \in Vectors /\ p \in Vectors /\ q \in Vectors /\ pp \in Vectors /\ qq \in Vectors
  BY DEF InTurnWith
<1>1. /\ Sgn(Det(q, n, pp)) = Leading(CrossProd(q, n), p)
      /\ Sgn(Det(n, pp, qq)) = Leading(CrossProd(n, pp), q)
  BY DEF InTurnWith, Follows
<1>2. /\ Det(n, pp, q) = Det(q, n, pp)
      /\ Det(pp, qq, n) = Det(n, pp, qq)
  BY DetAlternates
<1>3. Leading(CrossProd(n, pp), q) = FirstOf(Sgn(Det(n, pp, q)), Leading(CrossProd(n, pp), q))
  BY DEF Leading, FirstOf, Det
<1>4. Sgn(Det(n, pp, q)) # 0
  BY <1>1, <1>2
<1> QED BY <1>1, <1>2, <1>3, <1>4 DEF FirstOf

\* The points of S in order.
Two(S, s1, s2) == S = {s1, s2} /\ Less(s1, s2)
Three(S, s1, s2, s3) == S = {s1, s2, s3} /\ Less(s1, s2) /\ Less(s2, s3)
Four(S, s1, s2, s3, s4) ==
  S = {s1, s2, s3, s4} /\ Less(s1, s2) /\ Less(s2, s3) /\ Less(s3, s4)
Five(S, s1, s2, s3, s4, s5) ==
  S = {s1, s2, s3, s4, s5} /\ Less(s1, s2) /\ Less(s2, s3) /\ Less(s3, s4) /\ Less(s4, s5)

(* A further point has its place among two points in order.                    *)
LEMMA AmongTwo ==
  ASSUME NEW S \in SUBSET Vectors, NEW x \in Vectors, x \notin S,
         NEW s1, NEW s2, Two(S, s1, s2)
  PROVE  \E t1, t2, t3 : Three(S \cup {x}, t1, t2, t3)
<1>1. \A s \in S : Less(x, s) \/ Less(s, x)
  BY LessOrders
<1>2. CASE Less(x, s1)
  <2>1. Three(S \cup {x}, x, s1, s2)
    BY <1>2 DEF Two, Three
  <2> QED BY <2>1
<1>3. CASE Less(s1, x) /\ Less(x, s2)
  <2>1. Three(S \cup {x}, s1, x, s2)
    BY <1>3 DEF Two, Three
  <2> QED BY <2>1
<1>4. CASE Less(s2, x)
  <2>1. Three(S \cup {x}, s1, s2, x)
    BY <1>4 DEF Two, Three
  <2> QED BY <2>1
<1>5. {s1, s2} \subseteq S
  BY DEF Two
<1> QED BY <1>1, <1>2, <1>3, <1>4, <1>5

(* A further point has its place among three points in order.                    *)
LEMMA AmongThree ==
  ASSUME NEW S \in SUBSET Vectors, NEW x \in Vectors, x \notin S,
         NEW s1, NEW s2, NEW s3, Three(S, s1, s2, s3)
  PROVE  \E t1, t2, t3, t4 : Four(S \cup {x}, t1, t2, t3, t4)
<1>1. \A s \in S : Less(x, s) \/ Less(s, x)
  BY LessOrders
<1>2. CASE Less(x, s1)
  <2>1. Four(S \cup {x}, x, s1, s2, s3)
    BY <1>2 DEF Three, Four
  <2> QED BY <2>1
<1>3. CASE Less(s1, x) /\ Less(x, s2)
  <2>1. Four(S \cup {x}, s1, x, s2, s3)
    BY <1>3 DEF Three, Four
  <2> QED BY <2>1
<1>4. CASE Less(s2, x) /\ Less(x, s3)
  <2>1. Four(S \cup {x}, s1, s2, x, s3)
    BY <1>4 DEF Three, Four
  <2> QED BY <2>1
<1>5. CASE Less(s3, x)
  <2>1. Four(S \cup {x}, s1, s2, s3, x)
    BY <1>5 DEF Three, Four
  <2> QED BY <2>1
<1>6. {s1, s2, s3} \subseteq S
  BY DEF Three
<1> QED BY <1>1, <1>2, <1>3, <1>4, <1>5, <1>6

(* A further point has its place among four points in order.                    *)
LEMMA AmongFour ==
  ASSUME NEW S \in SUBSET Vectors, NEW x \in Vectors, x \notin S,
         NEW s1, NEW s2, NEW s3, NEW s4, Four(S, s1, s2, s3, s4)
  PROVE  \E t1, t2, t3, t4, t5 : Five(S \cup {x}, t1, t2, t3, t4, t5)
<1>1. \A s \in S : Less(x, s) \/ Less(s, x)
  BY LessOrders
<1>2. CASE Less(x, s1)
  <2>1. Five(S \cup {x}, x, s1, s2, s3, s4)
    BY <1>2 DEF Four, Five
  <2> QED BY <2>1
<1>3. CASE Less(s1, x) /\ Less(x, s2)
  <2>1. Five(S \cup {x}, s1, x, s2, s3, s4)
    BY <1>3 DEF Four, Five
  <2> QED BY <2>1
<1>4. CASE Less(s2, x) /\ Less(x, s3)
  <2>1. Five(S \cup {x}, s1, s2, x, s3, s4)
    BY <1>4 DEF Four, Five
  <2> QED BY <2>1
<1>5. CASE Less(s3, x) /\ Less(x, s4)
  <2>1. Five(S \cup {x}, s1, s2, s3, x, s4)
    BY <1>5 DEF Four, Five
  <2> QED BY <2>1
<1>6. CASE Less(s4, x)
  <2>1. Five(S \cup {x}, s1, s2, s3, s4, x)
    BY <1>6 DEF Four, Five
  <2> QED BY <2>1
<1>7. {s1, s2, s3, s4} \subseteq S
  BY DEF Four
<1> QED BY <1>1, <1>2, <1>3, <1>4, <1>5, <1>6, <1>7

\* Five different points.
FivePoints(p1, p2, p3, p4, p5) ==
  /\ IsPoint(p1) /\ IsPoint(p2) /\ IsPoint(p3) /\ IsPoint(p4) /\ IsPoint(p5)
  /\ p1 # p2 /\ p1 # p3 /\ p1 # p4 /\ p1 # p5 /\ p2 # p3 /\ p2 # p4 /\ p2 # p5
  /\ p3 # p4 /\ p3 # p5 /\ p4 # p5

(* Any five points can be put in order.                                       *)
LEMMA Sorting ==
  ASSUME NEW p1, NEW p2, NEW p3, NEW p4, NEW p5, FivePoints(p1, p2, p3, p4, p5)
  PROVE  \E s1, s2, s3, s4, s5 : Five({p1, p2, p3, p4, p5}, s1, s2, s3, s4, s5)
<1> /\ p1 \in Vectors /\ p2 \in Vectors /\ p3 \in Vectors /\ p4 \in Vectors /\ p5 \in Vectors
    /\ p1 # p2 /\ p1 # p3 /\ p1 # p4 /\ p1 # p5 /\ p2 # p3 /\ p2 # p4 /\ p2 # p5
    /\ p3 # p4 /\ p3 # p5 /\ p4 # p5
  BY DEF FivePoints, IsPoint
<1>1. PICK x1, x2 : Two({p1, p2}, x1, x2)
  <2>1. CASE Less(p1, p2)
    BY <2>1 DEF Two
  <2>2. CASE Less(p2, p1)
    <3>1. Two({p1, p2}, p2, p1)
      BY <2>2 DEF Two
    <3> QED BY <3>1
  <2> QED BY <2>1, <2>2, LessOrders
<1>2. PICK y1, y2, y3 : Three({p1, p2} \cup {p3}, y1, y2, y3)
  BY <1>1, AmongTwo
<1>3. PICK z1, z2, z3, z4 : Four(({p1, p2} \cup {p3}) \cup {p4}, z1, z2, z3, z4)
  BY <1>2, AmongThree
<1>4. PICK s1, s2, s3, s4, s5 : Five((({p1, p2} \cup {p3}) \cup {p4}) \cup {p5}, s1, s2, s3, s4, s5)
  BY <1>3, AmongFour
<1>5. (({p1, p2} \cup {p3}) \cup {p4}) \cup {p5} = {p1, p2, p3, p4, p5}
  OBVIOUS
<1> QED BY <1>4, <1>5

\* The vectors R[p] are in general position, and turn as Sign says of the points.
Realizes(R, P) ==
  /\ \A p \in P : R[p] \in Vectors
  /\ \A p, q, r \in P :
       p # q /\ q # r /\ r # p => Sgn(Det(R[p], R[q], R[r])) = Sign(p, q, r)

\* They turn with n as the points do, or as the move of the smaller one decides.
Keeps(R, P, n) ==
  \A p, q \in P : Less(p, q) /\ Leading(CrossProd(q, n), p) # 0 =>
                     Sgn(Det(R[p], R[q], n)) = Leading(CrossProd(q, n), p)

(* If vectors turn as Sign says of three points in order, they do so for the  *)
(* points in any order.                                                       *)
LEMMA RealizesSorted ==
  ASSUME NEW R, NEW P, \A p \in P : IsPoint(p) /\ R[p] \in Vectors,
         \A p, q, r \in P :
           Less(p, q) /\ Less(q, r) => Sgn(Det(R[p], R[q], R[r])) = Turn(p, q, r)
  PROVE  Realizes(R, P)
<1> DEFINE Good(x, y, z) == Sgn(Det(R[x], R[y], R[z])) = Sign(x, y, z)
<1> SUFFICES ASSUME NEW p \in P, NEW q \in P, NEW r \in P, p # q, q # r, r # p
             PROVE  Good(p, q, r)
  BY DEF Realizes
<1>1. ASSUME NEW x \in P, NEW y \in P, NEW z \in P, x # y, y # z, z # x, Good(x, y, z)
      PROVE  Good(y, z, x) /\ Good(y, x, z)
  <2>1. /\ Det(R[y], R[z], R[x]) = Det(R[x], R[y], R[z])
        /\ Det(R[y], R[x], R[z]) = -Det(R[x], R[y], R[z])
        /\ Det(R[x], R[y], R[z]) \in Int
    BY DetAlternates, ProductTypes
  <2>2. Sign(y, z, x) = Sign(x, y, z) /\ Sign(y, x, z) = -Sign(x, y, z)
    BY SignAlternates
  <2>3. Sgn(-Det(R[x], R[y], R[z])) = -Sgn(Det(R[x], R[y], R[z]))
    BY <2>1, SignOfNumber
  <2> QED BY <1>1, <2>1, <2>2, <2>3
<1>2. ASSUME NEW x \in P, NEW y \in P, NEW z \in P, Less(x, y), Less(y, z)
      PROVE  /\ x # y /\ y # z /\ z # x
             /\ Good(x, y, z)
  <2>1. x \in Vectors /\ y \in Vectors /\ z \in Vectors /\ z # << 0, 0, 0 >>
    BY DEF IsPoint
  <2>2. x # y /\ y # z /\ z # x
    BY <1>2, <2>1, LessOrders
  <2>3. Sign(x, y, z) = ExactSign(x, y, z)
    BY <2>2, SignAlternates DEF ExpensiveSign
  <2>4. ExactSign(x, y, z) = Turn(x, y, z)
    BY <1>2, <2>1, ExactSignSorts
  <2> QED BY <1>2, <2>2, <2>3, <2>4
<1>3. ASSUME NEW x \in P, NEW y \in P, NEW z \in P, Less(x, y), Less(y, z)
      PROVE  /\ Good(x, y, z) /\ Good(y, z, x) /\ Good(z, x, y)
             /\ Good(y, x, z) /\ Good(x, z, y) /\ Good(z, y, x)
  <2> HIDE DEF Good
  <2> QED BY <1>1, <1>2, <1>3
<1>4. \/ Less(p, q) /\ Less(q, r)
      \/ Less(q, r) /\ Less(r, p)
      \/ Less(r, p) /\ Less(p, q)
      \/ Less(q, p) /\ Less(p, r)
      \/ Less(p, r) /\ Less(r, q)
      \/ Less(r, q) /\ Less(q, p)
  BY LessOrders DEF IsPoint
<1> HIDE DEF Good
<1> QED BY <1>3, <1>4

(* Whatever five points are given, there are vectors without three on a great *)
(* circle that turn as Sign says of the points.                               *)
LEMMA Realizable ==
  ASSUME NEW p1, NEW p2, NEW p3, NEW p4, NEW p5, NEW n \in Vectors,
         FivePoints(p1, p2, p3, p4, p5)
  PROVE  \E R : Realizes(R, {p1, p2, p3, p4, p5}) /\ Keeps(R, {p1, p2, p3, p4, p5}, n)
<1> DEFINE P == {p1, p2, p3, p4, p5}
<1>1. \A p \in P : IsPoint(p)
  BY DEF FivePoints
<1>2. PICK s1, s2, s3, s4, s5 : Five(P, s1, s2, s3, s4, s5)
  BY Sorting
<1> HIDE DEF P
<1>3. P = {s1, s2, s3, s4, s5} /\ {s1, s2, s3, s4, s5} \subseteq P
  BY <1>2 DEF Five
<1>4. /\ s1 \in Vectors /\ s2 \in Vectors /\ s3 \in Vectors /\ s4 \in Vectors /\ s5 \in Vectors
      /\ IsPoint(s3) /\ IsPoint(s4) /\ IsPoint(s5)
  BY <1>1, <1>3 DEF IsPoint
<1>5. PICK t1, t2, t3, t4, t5 : Configured(s1, s2, s3, s4, s5, n, t1, t2, t3, t4, t5)
  BY <1>4, Configuration
<1>6. /\ t1 \in Vectors /\ t2 \in Vectors /\ t3 \in Vectors /\ t4 \in Vectors /\ t5 \in Vectors
  BY <1>5 DEF Configured, Moved
<1>7. /\ Sgn(Det(t1, t2, t3)) = Turn(s1, s2, s3)
      /\ Sgn(Det(t1, t2, t4)) = Turn(s1, s2, s4)
      /\ Sgn(Det(t1, t2, t5)) = Turn(s1, s2, s5)
      /\ Sgn(Det(t1, t3, t4)) = Turn(s1, s3, s4)
      /\ Sgn(Det(t1, t3, t5)) = Turn(s1, s3, s5)
      /\ Sgn(Det(t1, t4, t5)) = Turn(s1, s4, s5)
      /\ Sgn(Det(t2, t3, t4)) = Turn(s2, s3, s4)
      /\ Sgn(Det(t2, t3, t5)) = Turn(s2, s3, s5)
      /\ Sgn(Det(t2, t4, t5)) = Turn(s2, s4, s5)
      /\ Sgn(Det(t3, t4, t5)) = Turn(s3, s4, s5)
  BY <1>4, <1>5, ConfiguredTurns
<1> DEFINE R == [p \in P |-> CASE p = s1 -> t1 [] p = s2 -> t2 [] p = s3 -> t3
                                [] p = s4 -> t4 [] p = s5 -> t5]
<1>8. ~Less(s1, s1) /\ ~Less(s2, s2) /\ ~Less(s3, s3) /\ ~Less(s4, s4) /\ ~Less(s5, s5)
  BY <1>4, LessOrders
<1>9. /\ Less(s1, s2) /\ Less(s1, s3) /\ Less(s1, s4) /\ Less(s1, s5)
      /\ Less(s2, s3) /\ Less(s2, s4) /\ Less(s2, s5)
      /\ Less(s3, s4) /\ Less(s3, s5) /\ Less(s4, s5)
  <2>1. Less(s1, s2) /\ Less(s2, s3) /\ Less(s3, s4) /\ Less(s4, s5)
    BY <1>2 DEF Five
  <2>2. Less(s1, s3) /\ Less(s2, s4) /\ Less(s3, s5)
    BY <1>4, <2>1, LessOrders
  <2>3. Less(s1, s4) /\ Less(s2, s5)
    BY <1>4, <2>1, <2>2, LessOrders
  <2>4. Less(s1, s5)
    BY <1>4, <2>1, <2>3, LessOrders
  <2> QED BY <2>1, <2>2, <2>3, <2>4
<1>10. /\ ~Less(s2, s1) /\ ~Less(s3, s1) /\ ~Less(s4, s1) /\ ~Less(s5, s1)
       /\ ~Less(s3, s2) /\ ~Less(s4, s2) /\ ~Less(s5, s2)
       /\ ~Less(s4, s3) /\ ~Less(s5, s3) /\ ~Less(s5, s4)
  BY <1>4, <1>9, LessOrders
<1>11. R[s1] = t1 /\ R[s2] = t2 /\ R[s3] = t3 /\ R[s4] = t4 /\ R[s5] = t5
  <2>1. /\ s1 # s2 /\ s1 # s3 /\ s1 # s4 /\ s1 # s5 /\ s2 # s3 /\ s2 # s4
        /\ s2 # s5 /\ s3 # s4 /\ s3 # s5 /\ s4 # s5
    BY <1>9, <1>10
  <2> QED BY <1>3, <2>1
<1> HIDE DEF R
<1>12. \A p \in P : IsPoint(p) /\ R[p] \in Vectors
  BY <1>1, <1>3, <1>6, <1>11
<1>13. ASSUME NEW p \in P, NEW q \in P, NEW r \in P, Less(p, q), Less(q, r)
       PROVE  Sgn(Det(R[p], R[q], R[r])) = Turn(p, q, r)
  <2>1. /\ p = s1 \/ p = s2 \/ p = s3 \/ p = s4 \/ p = s5
        /\ q = s1 \/ q = s2 \/ q = s3 \/ q = s4 \/ q = s5
        /\ r = s1 \/ r = s2 \/ r = s3 \/ r = s4 \/ r = s5
    BY <1>3
  <2>2. q # s5
    BY <1>8, <1>10, <1>13, <2>1
  <2> QED BY <1>7, <1>8, <1>10, <1>11, <1>13, <2>1, <2>2
<1>14. Realizes(R, P)
  BY <1>12, <1>13, RealizesSorted
<1>15. /\ InTurnWith(n, s1, t1, s2, t2) /\ InTurnWith(n, s1, t1, s3, t3)
       /\ InTurnWith(n, s1, t1, s4, t4) /\ InTurnWith(n, s1, t1, s5, t5)
       /\ InTurnWith(n, s2, t2, s3, t3) /\ InTurnWith(n, s2, t2, s4, t4)
       /\ InTurnWith(n, s2, t2, s5, t5) /\ InTurnWith(n, s3, t3, s4, t4)
       /\ InTurnWith(n, s3, t3, s5, t5) /\ InTurnWith(n, s4, t4, s5, t5)
  BY <1>4, <1>5, <1>6 DEF Configured, Moved, Axes, InTurnWith
<1>16. ASSUME NEW p \in P, NEW q \in P, Less(p, q)
       PROVE  InTurnWith(n, p, R[p], q, R[q])
  <2>1. /\ p = s1 \/ p = s2 \/ p = s3 \/ p = s4 \/ p = s5
        /\ q = s1 \/ q = s2 \/ q = s3 \/ q = s4 \/ q = s5
    BY <1>3
  <2> QED BY <1>8, <1>10, <1>11, <1>15, <1>16, <2>1
<1>17. Keeps(R, P, n)
  BY <1>16, MovedWith DEF Keeps
<1> QED BY <1>14, <1>17 DEF P

(* The three-term Grassmann-Pluecker relation of the triangles at p.          *)
LEMMA GrassmannPluecker ==
  ASSUME NEW p \in Vectors, NEW q1 \in Vectors, NEW q2 \in Vectors, NEW q3 \in Vectors,
         NEW q4 \in Vectors
  PROVE  Det(p, q1, q2) * Det(p, q3, q4) - Det(p, q1, q3) * Det(p, q2, q4)
           + Det(p, q1, q4) * Det(p, q2, q3) = 0
<1>1. PICK a1 \in Int, a2 \in Int, a3 \in Int : p = << a1, a2, a3 >>
  BY VectorParts
<1>2. PICK b1 \in Int, b2 \in Int, b3 \in Int : q1 = << b1, b2, b3 >>
  BY VectorParts
<1>3. PICK c1 \in Int, c2 \in Int, c3 \in Int : q2 = << c1, c2, c3 >>
  BY VectorParts
<1>4. PICK d1 \in Int, d2 \in Int, d3 \in Int : q3 = << d1, d2, d3 >>
  BY VectorParts
<1>5. PICK e1 \in Int, e2 \in Int, e3 \in Int : q4 = << e1, e2, e3 >>
  BY VectorParts
<1> QED BY <1>1, <1>2, <1>3, <1>4, <1>5 DEF Det, DotProd, CrossProd

(* The sign of a product is the product of the signs.                         *)
LEMMA SignOfProduct ==
  ASSUME NEW m \in Int, NEW n \in Int
  PROVE  m * n \in Int /\ Sgn(m * n) = Sgn(m) * Sgn(n)
<1>1. m > 0 /\ n > 0 => m * n > 0
  OBVIOUS
<1>2. m < 0 /\ n < 0 => m * n > 0
  OBVIOUS
<1>3. m > 0 /\ n < 0 => m * n < 0
  OBVIOUS
<1>4. m < 0 /\ n > 0 => m * n < 0
  OBVIOUS
<1>5. m = 0 \/ n = 0 => m * n = 0
  OBVIOUS
<1>6. m * n \in Int
  OBVIOUS
<1> QED BY <1>1, <1>2, <1>3, <1>4, <1>5, <1>6 DEF Sgn

(* Three numbers of sum zero, none of them zero, have both signs.             *)
LEMMA SignsOfSum ==
  ASSUME NEW x \in Int, NEW y \in Int, NEW z \in Int,
         x - y + z = 0, x # 0, y # 0, z # 0
  PROVE  {-1, 1} \subseteq {Sgn(x), -Sgn(y), Sgn(z)}
<1>1. /\ Sgn(x) \in {-1, 1} /\ Sgn(y) \in {-1, 1} /\ Sgn(z) \in {-1, 1}
      /\ Sgn(x) = 1 <=> x > 0
      /\ Sgn(y) = 1 <=> y > 0
      /\ Sgn(z) = 1 <=> z > 0
  BY DEF Sgn
<1>2. ~(x > 0 /\ ~(y > 0) /\ z > 0) /\ ~(~(x > 0) /\ y > 0 /\ ~(z > 0))
  OBVIOUS
<1>3. /\ 1 = Sgn(x) \/ 1 = -Sgn(y) \/ 1 = Sgn(z)
      /\ -1 = Sgn(x) \/ -1 = -Sgn(y) \/ -1 = Sgn(z)
  BY <1>1, <1>2
<1> QED BY <1>3

(* The signs of the triangles at one of five points obey the Grassmann-       *)
(* Pluecker relation.                                                         *)
LEMMA SignsObeyRelation ==
  ASSUME NEW o, NEW p1, NEW p2, NEW p3, NEW p4,
         FivePoints(o, p1, p2, p3, p4)
  PROVE  {-1, 1} \subseteq {Sign(o, p1, p2) * Sign(o, p3, p4),
                            -(Sign(o, p1, p3) * Sign(o, p2, p4)),
                            Sign(o, p1, p4) * Sign(o, p2, p3)}
<1>1. PICK R : Realizes(R, {o, p1, p2, p3, p4})
  BY Realizable DEF FivePoints, IsPoint
<1> DEFINE d(q, r) == Det(R[o], R[q], R[r])
           P == {o, p1, p2, p3, p4}
<1>2. \A p \in P : R[p] \in Vectors /\ IsPoint(p)
  BY <1>1 DEF Realizes, FivePoints
<1>3. ASSUME NEW q \in P, NEW r \in P, o # q, q # r, r # o
      PROVE  d(q, r) \in Int /\ d(q, r) # 0 /\ Sign(o, q, r) = Sgn(d(q, r))
  <2>1. R[o] \in Vectors /\ R[q] \in Vectors /\ R[r] \in Vectors
    BY <1>2
  <2>2. d(q, r) \in Int
    BY <2>1, ProductTypes
  <2>3. Sgn(d(q, r)) = Sign(o, q, r)
    BY <1>1, <1>3 DEF Realizes
  <2>4. IsPoint(o) /\ IsPoint(q) /\ IsPoint(r)
    BY <1>2
  <2>5. Sign(o, q, r) # 0
    BY <1>3, <2>4, SignAlternates
  <2> QED BY <2>2, <2>3, <2>5, SignOfNumber
<1>4. d(p1, p2) * d(p3, p4) - d(p1, p3) * d(p2, p4) + d(p1, p4) * d(p2, p3) = 0
  BY <1>2, GrassmannPluecker DEF FivePoints
<1>5. /\ d(p1, p2) \in Int /\ d(p1, p2) # 0 /\ Sign(o, p1, p2) = Sgn(d(p1, p2))
      /\ d(p3, p4) \in Int /\ d(p3, p4) # 0 /\ Sign(o, p3, p4) = Sgn(d(p3, p4))
      /\ d(p1, p3) \in Int /\ d(p1, p3) # 0 /\ Sign(o, p1, p3) = Sgn(d(p1, p3))
      /\ d(p2, p4) \in Int /\ d(p2, p4) # 0 /\ Sign(o, p2, p4) = Sgn(d(p2, p4))
      /\ d(p1, p4) \in Int /\ d(p1, p4) # 0 /\ Sign(o, p1, p4) = Sgn(d(p1, p4))
      /\ d(p2, p3) \in Int /\ d(p2, p3) # 0 /\ Sign(o, p2, p3) = Sgn(d(p2, p3))
  <2> HIDE DEF d
  <2> QED BY <1>3 DEF FivePoints
<1> DEFINE x == d(p1, p2) * d(p3, p4)
           y == d(p1, p3) * d(p2, p4)
           z == d(p1, p4) * d(p2, p3)
<1>6. /\ x \in Int /\ Sgn(x) = Sign(o, p1, p2) * Sign(o, p3, p4)
      /\ y \in Int /\ Sgn(y) = Sign(o, p1, p3) * Sign(o, p2, p4)
      /\ z \in Int /\ Sgn(z) = Sign(o, p1, p4) * Sign(o, p2, p3)
  <2> HIDE DEF d
  <2>1. x \in Int /\ Sgn(x) = Sgn(d(p1, p2)) * Sgn(d(p3, p4))
    BY <1>5, SignOfProduct
  <2>2. y \in Int /\ Sgn(y) = Sgn(d(p1, p3)) * Sgn(d(p2, p4))
    BY <1>5, SignOfProduct
  <2>3. z \in Int /\ Sgn(z) = Sgn(d(p1, p4)) * Sgn(d(p2, p3))
    BY <1>5, SignOfProduct
  <2> HIDE DEF x, y, z
  <2> QED BY <1>5, <2>1, <2>2, <2>3
<1>7. x # 0 /\ y # 0 /\ z # 0
  <2> HIDE DEF d
  <2> QED BY <1>5
<1>8. x - y + z = 0
  BY <1>4
<1> HIDE DEF x, y, z
<1>9. {-1, 1} \subseteq {Sgn(x), -Sgn(y), Sgn(z)}
  BY <1>6, <1>7, <1>8, SignsOfSum
<1> QED BY <1>6, <1>9

-----------------------------------------------------------------------------
(* Sign is that of points in general position *)

(* Sets of a few elements.                                                    *)
LEMMA SmallSets ==
  ASSUME NEW p, NEW q, NEW r
  PROVE  /\ IsFiniteSet({p, q}) /\ Cardinality({p, q}) = IF p = q THEN 1 ELSE 2
         /\ IsFiniteSet({p, q, r}) /\ Cardinality({p, q, r}) \in 1 .. 3
         /\ Cardinality({p, q, r}) < 3 <=> p = q \/ q = r \/ r = p
<1>1. IsFiniteSet({p}) /\ Cardinality({p}) = 1
  BY FS_Singleton
<1>2. /\ IsFiniteSet({p} \cup {q})
      /\ Cardinality({p} \cup {q}) = IF q \in {p} THEN Cardinality({p}) ELSE Cardinality({p}) + 1
  BY <1>1, FS_AddElement
<1>3. {p} \cup {q} = {p, q}
  OBVIOUS
<1>4. IsFiniteSet({p, q}) /\ Cardinality({p, q}) = IF p = q THEN 1 ELSE 2
  BY <1>1, <1>2, <1>3
<1>5. /\ IsFiniteSet({p, q} \cup {r})
      /\ Cardinality({p, q} \cup {r})
           = IF r \in {p, q} THEN Cardinality({p, q}) ELSE Cardinality({p, q}) + 1
  BY <1>4, FS_AddElement
<1>6. {p, q} \cup {r} = {p, q, r}
  OBVIOUS
<1>7. IsFiniteSet({p, q, r}) /\ (Cardinality({p, q, r}) < 3 <=> p = q \/ q = r \/ r = p)
      /\ Cardinality({p, q, r}) \in 1 .. 3
  BY <1>4, <1>5, <1>6
<1> QED BY <1>4, <1>7

(* A set of five has five different elements.                                 *)
LEMMA FiveDiffer ==
  ASSUME NEW p, NEW q, NEW r, NEW d, NEW e, Cardinality({p, q, r, d, e}) = 5
  PROVE  /\ p # q /\ p # r /\ p # d /\ p # e /\ q # r /\ q # d /\ q # e
         /\ r # d /\ r # e /\ d # e
<1>1. ASSUME NEW x, NEW y, NEW z, NEW w
      PROVE  Cardinality({x, y, z, w}) < 5
  <2>1. IsFiniteSet({x, y, z}) /\ Cardinality({x, y, z}) \in 1 .. 3
    BY SmallSets
  <2>2. Cardinality({x, y, z} \cup {w})
          = IF w \in {x, y, z} THEN Cardinality({x, y, z}) ELSE Cardinality({x, y, z}) + 1
    BY <2>1, FS_AddElement
  <2>3. {x, y, z} \cup {w} = {x, y, z, w}
    OBVIOUS
  <2> QED BY <2>1, <2>2, <2>3
<1> DEFINE S == {p, q, r, d, e}
<1>2. /\ S # {q, r, d, e} /\ S # {p, r, d, e} /\ S # {p, q, d, e} /\ S # {p, q, r, d}
  <2>1. Cardinality(S) = 5 /\ ~(5 < 5)
    OBVIOUS
  <2>2. /\ Cardinality({q, r, d, e}) < 5 /\ Cardinality({p, r, d, e}) < 5
        /\ Cardinality({p, q, d, e}) < 5 /\ Cardinality({p, q, r, d}) < 5
    BY <1>1
  <2> HIDE DEF S
  <2> QED BY <2>1, <2>2
<1>3. p # q /\ p # r /\ p # d /\ p # e
  BY <1>2
<1>4. q # r /\ q # d /\ q # e
  BY <1>2
<1>5. r # d /\ r # e
  BY <1>2
<1>6. d # e
  BY <1>2
<1> QED BY <1>3, <1>4, <1>5, <1>6

(* Only points are drawn.                                                     *)
LEMMA DrawnArePoints ==
  ASSUME drawn \in Seq(LawPoints), NEW i \in 1 .. Len(drawn)
  PROVE  IsPoint(drawn[i])
<1>1. drawn[i] \in LawPoints
  OBVIOUS
<1> QED BY <1>1, LawPointsArePoints

(* Sign is antisymmetric, and its answers are those of points in general      *)
(* position: what SignsRealizable says of the points that were drawn.         *)
LEMMA Realized ==
  ASSUME drawn \in Seq(LawPoints)
  PROVE  SignsRealizable
<1> SUFFICES ASSUME Len(drawn) = 5
             PROVE  LET o == drawn[1]
                        p(i) == drawn[i + 1] IN
                    /\ Sign(o, p(1), p(2)) = 0 <=> Cardinality({o, p(1), p(2)}) < 3
                    /\ Sign(o, p(1), p(2)) = Sign(p(1), p(2), o)
                    /\ Sign(o, p(1), p(2)) = -Sign(p(1), o, p(2))
                    /\ Cardinality(ToSet(drawn)) = 5 =>
                         {-1, 1} \subseteq {Sign(o, p(1), p(2)) * Sign(o, p(3), p(4)),
                                            -Sign(o, p(1), p(3)) * Sign(o, p(2), p(4)),
                                            Sign(o, p(1), p(4)) * Sign(o, p(2), p(3))}
  BY DEF SignsRealizable
<1> DEFINE o == drawn[1]
           p1 == drawn[2]
           p2 == drawn[3]
           p3 == drawn[4]
           p4 == drawn[5]
<1>1. IsPoint(o) /\ IsPoint(p1) /\ IsPoint(p2) /\ IsPoint(p3) /\ IsPoint(p4)
  BY DrawnArePoints
<1>2. drawn[1 + 1] = p1 /\ drawn[2 + 1] = p2 /\ drawn[3 + 1] = p3 /\ drawn[4 + 1] = p4
  OBVIOUS
<1>3. ToSet(drawn) = {o, p1, p2, p3, p4}
  <2>1. DOMAIN drawn = {1, 2, 3, 4, 5}
    OBVIOUS
  <2> QED BY <2>1 DEF ToSet
<1> HIDE DEF o, p1, p2, p3, p4
<1>4. Sign(o, p1, p2) = 0 <=> Cardinality({o, p1, p2}) < 3
  <2>1. Sign(o, p1, p2) = 0 <=> o = p1 \/ p1 = p2 \/ p2 = o
    BY <1>1, SignAlternates
  <2>2. Cardinality({o, p1, p2}) < 3 <=> o = p1 \/ p1 = p2 \/ p2 = o
    BY SmallSets
  <2> QED BY <2>1, <2>2
<1>5. Sign(o, p1, p2) = Sign(p1, p2, o) /\ Sign(o, p1, p2) = -Sign(p1, o, p2)
  BY <1>1, SignAlternates
<1>6. ASSUME Cardinality(ToSet(drawn)) = 5
      PROVE  {-1, 1} \subseteq {Sign(o, p1, p2) * Sign(o, p3, p4),
                                -Sign(o, p1, p3) * Sign(o, p2, p4),
                                Sign(o, p1, p4) * Sign(o, p2, p3)}
  <2>1. /\ o # p1 /\ o # p2 /\ o # p3 /\ o # p4 /\ p1 # p2 /\ p1 # p3 /\ p1 # p4
        /\ p2 # p3 /\ p2 # p4 /\ p3 # p4
    <3>1. Cardinality({o, p1, p2, p3, p4}) = 5
      BY <1>3, <1>6
    <3> QED BY <3>1, FiveDiffer
  <2>2. {-1, 1} \subseteq {Sign(o, p1, p2) * Sign(o, p3, p4),
                           -(Sign(o, p1, p3) * Sign(o, p2, p4)),
                           Sign(o, p1, p4) * Sign(o, p2, p3)}
    BY <1>1, <2>1, SignsObeyRelation DEF FivePoints
  <2> QED BY <2>2
<1> QED BY <1>2, <1>4, <1>5, <1>6 DEF o, p1, p2, p3, p4

-----------------------------------------------------------------------------
(* Wedges *)

(* Of the numbers up to three that meet a condition each, two at least.       *)
LEMMA TwoOfThree ==
  ASSUME NEW A \in BOOLEAN, NEW B \in BOOLEAN, NEW C \in BOOLEAN
  PROVE  Cardinality({ i \in 1 .. 3 : \/ i = 1 /\ A
                                      \/ i = 2 /\ B
                                      \/ i = 3 /\ C }) >= 2 <=> (A /\ B) \/ (B /\ C) \/ (C /\ A)
<1> DEFINE S == { i \in 1 .. 3 : \/ i = 1 /\ A
                                 \/ i = 2 /\ B
                                 \/ i = 3 /\ C }
<1>1. /\ 1 \in S <=> A
      /\ 2 \in S <=> B
      /\ 3 \in S <=> C
      /\ S \subseteq {1, 2, 3}
  OBVIOUS
<1> HIDE DEF S
<1>2. IsFiniteSet({1, 2, 3}) /\ \A T \in SUBSET S : IsFiniteSet(T) /\ IsFiniteSet(S) /\ Cardinality(T) <= Cardinality(S)
  <2>1. IsFiniteSet({1, 2, 3})
    <3>1. \A x, y, z : IsFiniteSet({x, y, z})
      BY SmallSets
    <3> QED BY <3>1
  <2>2. IsFiniteSet(S)
    BY <1>1, <2>1, FS_Subset
  <2> QED BY <2>1, <2>2, FS_Subset
<1>3. Cardinality(S) \in Nat
  BY <1>2, FS_CardinalityType
<1>4. CASE (A /\ B) \/ (B /\ C) \/ (C /\ A)
  <2>1. PICK i \in S, j \in S : i # j
    BY <1>1, <1>4
  <2>2. Cardinality({i, j}) = 2 /\ {i, j} \subseteq S
    BY <2>1, SmallSets
  <2>3. Cardinality(S) >= 2
    BY <1>2, <1>3, <2>2
  <2> QED BY <1>4, <2>3 DEF S
<1>5. CASE ~((A /\ B) \/ (B /\ C) \/ (C /\ A))
  <2>1. S = {} \/ S = {1} \/ S = {2} \/ S = {3}
    BY <1>1, <1>5
  <2>2. Cardinality(S) = 0 \/ Cardinality(S) = 1
    <3>1. Cardinality({1}) = 1 /\ Cardinality({2}) = 1 /\ Cardinality({3}) = 1
      BY FS_Singleton
    <3>2. Cardinality({}) = 0
      BY FS_EmptySet
    <3> QED BY <2>1, <3>1, <3>2
  <2>3. ~(Cardinality(S) >= 2)
    BY <2>2
  <2> QED BY <1>5, <2>3 DEF S
<1> QED BY <1>4, <1>5

(* Which way OrderedCCW goes round, in the signs of the triangles at o.       *)
LEMMA OrderedMeans ==
  ASSUME NEW p, NEW q, NEW r, NEW o, IsPoint(p), IsPoint(q), IsPoint(r), IsPoint(o)
  PROVE  OrderedCCW(p, q, r, o) <=> \/ Sign(o, p, q) >= 0 /\ Sign(o, q, r) >= 0
                                    \/ Sign(o, q, r) >= 0 /\ Sign(o, r, p) > 0
                                    \/ Sign(o, r, p) > 0 /\ Sign(o, p, q) >= 0
<1>1. Sign(q, o, p) = Sign(o, p, q) /\ Sign(r, o, q) = Sign(o, q, r) /\ Sign(p, o, r) = Sign(o, r, p)
  BY SignAlternates
<1> DEFINE A == Sign(q, o, p) >= 0
           B == Sign(r, o, q) >= 0
           C == Sign(p, o, r) > 0
<1>2. A \in BOOLEAN /\ B \in BOOLEAN /\ C \in BOOLEAN
  BY <1>1, SignAlternates
<1>3. OrderedCCW(p, q, r, o) <=> Cardinality({ i \in 1 .. 3 : \/ i = 1 /\ A
                                                              \/ i = 2 /\ B
                                                              \/ i = 3 /\ C }) >= 2
  BY DEF OrderedCCW
<1>4. OrderedCCW(p, q, r, o) <=> (A /\ B) \/ (B /\ C) \/ (C /\ A)
  <2> HIDE DEF A, B, C
  <2> QED BY <1>2, <1>3, TwoOfThree
<1> QED BY <1>1, <1>4

\* The relation of two wedges at o is that of the sets of directions in them,
\* and WedgeContains and WedgeIntersects say the same of these sets.
WedgesAgree(o, a0, a2, b0, b2) ==
  LET wa == Between(o, a0, a2, {a0, a2, b0, b2})
      wb == Between(o, b0, b2, {a0, a2, b0, b2}) IN
  /\ GetWedgeRelation(a0, o, a2, b0, b2)
       = (CASE wa = wb -> "equals"
            [] wa # wb /\ wb \subseteq wa -> "properly_contains"
            [] wa # wb /\ wa \subseteq wb -> "is_properly_contained"
            [] wa \cap wb = {} -> "is_disjoint"
            [] OTHER -> "properly_overlaps")
  /\ WedgeContains(a0, o, a2, b0, b2) = (wb \subseteq wa)
  /\ WedgeIntersects(a0, o, a2, b0, b2) = (wa \cap wb # {})

(* So it is at any point, whatever the directions.                            *)
LEMMA WedgesCompared ==
  ASSUME NEW o, NEW a0, NEW a2, NEW b0, NEW b2, IsPoint(o), IsPoint(a0), IsPoint(a2),
         IsPoint(b0), IsPoint(b2), o # a0, o # a2, o # b0, o # b2, a0 # a2, b0 # b2
  PROVE  WedgesAgree(o, a0, a2, b0, b2)
<1> DEFINE wa == Between(o, a0, a2, {a0, a2, b0, b2})
           wb == Between(o, b0, b2, {a0, a2, b0, b2})
<1> DEFINE D == {a0, a2, b0, b2}
           s(x, y) == Sign(o, x, y)
           In(d, x, y) == d # x /\ OrderedCCW(y, d, x, o)
<1>1. ASSUME NEW x \in D, NEW y \in D
      PROVE  /\ s(x, y) \in {-1, 0, 1}
             /\ s(y, x) = -s(x, y)
             /\ s(x, y) = 0 <=> x = y
  <2>1. IsPoint(x) /\ IsPoint(y) /\ o # x /\ o # y
    OBVIOUS
  <2>2. Sign(o, x, y) \in {-1, 0, 1} /\ (Sign(o, x, y) = 0 <=> x = y)
    BY <2>1, SignAlternates
  <2>3. /\ Sign(x, y, o) = Sign(o, x, y) /\ Sign(y, x, o) = -Sign(x, y, o)
        /\ Sign(o, y, x) = Sign(y, x, o)
    BY <2>1, SignAlternates
  <2> QED BY <2>2, <2>3
<1>2. ASSUME NEW x \in D, NEW y \in D, NEW z \in D
      PROVE  OrderedCCW(x, y, z, o) <=> \/ s(x, y) >= 0 /\ s(y, z) >= 0
                                        \/ s(y, z) >= 0 /\ s(z, x) > 0
                                        \/ s(z, x) > 0 /\ s(x, y) >= 0
  BY OrderedMeans
<1>3. ASSUME a0 # b0, a0 # b2, a2 # b0, a2 # b2
      PROVE  {-1, 1} \subseteq {s(a0, a2) * s(b0, b2), -(s(a0, b0) * s(a2, b2)),
                                s(a0, b2) * s(a2, b0)}
  BY <1>3, SignsObeyRelation DEF FivePoints
<1>4. /\ wa \in SUBSET D /\ wb \in SUBSET D
      /\ \A d \in D : (d \in wa <=> In(d, a0, a2)) /\ (d \in wb <=> In(d, b0, b2))
  BY DEF Between
<1> DEFINE A(d) == d \in wa
           B(d) == d \in wb
<1>5. /\ wb \subseteq wa <=> /\ B(a0) => A(a0)
                             /\ B(a2) => A(a2)
                             /\ B(b0) => A(b0)
                             /\ B(b2) => A(b2)
      /\ wa \subseteq wb <=> /\ A(a0) => B(a0)
                             /\ A(a2) => B(a2)
                             /\ A(b0) => B(b0)
                             /\ A(b2) => B(b2)
      /\ wa = wb <=> wb \subseteq wa /\ wa \subseteq wb
      /\ wa \cap wb = {} <=> /\ ~(A(a0) /\ B(a0))
                             /\ ~(A(a2) /\ B(a2))
                             /\ ~(A(b0) /\ B(b0))
                             /\ ~(A(b2) /\ B(b2))
  <2>1. wa \in SUBSET {a0, a2, b0, b2} /\ wb \in SUBSET {a0, a2, b0, b2}
    BY <1>4
  <2>2. wb \subseteq wa <=> /\ B(a0) => A(a0)
                            /\ B(a2) => A(a2)
                            /\ B(b0) => A(b0)
                            /\ B(b2) => A(b2)
    BY <2>1
  <2>3. wa \subseteq wb <=> /\ A(a0) => B(a0)
                            /\ A(a2) => B(a2)
                            /\ A(b0) => B(b0)
                            /\ A(b2) => B(b2)
    BY <2>1
  <2>4. wa \cap wb = {} <=> /\ ~(A(a0) /\ B(a0))
                            /\ ~(A(a2) /\ B(a2))
                            /\ ~(A(b0) /\ B(b0))
                            /\ ~(A(b2) /\ B(b2))
    BY <2>1
  <2> QED BY <2>2, <2>3, <2>4
<1> DEFINE k1 == s(a0, a2)
           k2 == s(a0, b0)
           k3 == s(a0, b2)
           k4 == s(a2, b0)
           k5 == s(a2, b2)
           k6 == s(b0, b2)
           Most(p, q, r) == (p /\ q) \/ (q /\ r) \/ (r /\ p)
<1>6. /\ k1 \in {-1, 1} /\ k6 \in {-1, 1}
      /\ k2 \in {-1, 0, 1} /\ k3 \in {-1, 0, 1} /\ k4 \in {-1, 0, 1} /\ k5 \in {-1, 0, 1}
      /\ k2 = 0 <=> a0 = b0
      /\ k3 = 0 <=> a0 = b2
      /\ k4 = 0 <=> a2 = b0
      /\ k5 = 0 <=> a2 = b2
  BY <1>1
<1>7. /\ s(a2, a0) = -k1 /\ s(b0, a0) = -k2 /\ s(b2, a0) = -k3
      /\ s(b0, a2) = -k4 /\ s(b2, a2) = -k5 /\ s(b2, b0) = -k6
      /\ s(a0, a0) = 0 /\ s(a2, a2) = 0 /\ s(b0, b0) = 0 /\ s(b2, b2) = 0
  BY <1>1
<1>8. /\ OrderedCCW(a0, a2, b2, o) <=> Most(k1 >= 0, k5 >= 0, -k3 > 0)
      /\ OrderedCCW(b2, b0, a0, o) <=> Most(-k6 >= 0, -k2 >= 0, k3 > 0)
      /\ OrderedCCW(a0, b0, b2, o) <=> Most(k2 >= 0, k6 >= 0, -k3 > 0)
      /\ OrderedCCW(a0, b0, a2, o) <=> Most(k2 >= 0, -k4 >= 0, -k1 > 0)
      /\ OrderedCCW(a2, b2, b0, o) <=> Most(k5 >= 0, -k6 >= 0, -k4 > 0)
      /\ OrderedCCW(b0, a0, a2, o) <=> Most(-k2 >= 0, k1 >= 0, k4 > 0)
      /\ OrderedCCW(a0, b2, b0, o) <=> Most(k3 >= 0, -k6 >= 0, -k2 > 0)
      /\ OrderedCCW(b0, a2, a0, o) <=> Most(-k4 >= 0, -k1 >= 0, k2 > 0)
  BY <1>2, <1>7
<1>9. /\ OrderedCCW(a2, a2, a0, o) <=> Most(0 >= 0, -k1 >= 0, k1 > 0)
      /\ OrderedCCW(a2, b0, a0, o) <=> Most(k4 >= 0, -k2 >= 0, k1 > 0)
      /\ OrderedCCW(a2, b2, a0, o) <=> Most(k5 >= 0, -k3 >= 0, k1 > 0)
      /\ OrderedCCW(b2, b2, b0, o) <=> Most(0 >= 0, -k6 >= 0, k6 > 0)
      /\ OrderedCCW(b2, a0, b0, o) <=> Most(-k3 >= 0, k2 >= 0, k6 > 0)
      /\ OrderedCCW(b2, a2, b0, o) <=> Most(-k5 >= 0, k4 >= 0, k6 > 0)
  BY <1>2, <1>7
<1>10. /\ ~A(a0) /\ ~B(b0)
       /\ A(a2) <=> Most(0 >= 0, -k1 >= 0, k1 > 0)
       /\ A(b0) <=> k2 # 0 /\ Most(k4 >= 0, -k2 >= 0, k1 > 0)
       /\ A(b2) <=> k3 # 0 /\ Most(k5 >= 0, -k3 >= 0, k1 > 0)
       /\ B(b2) <=> Most(0 >= 0, -k6 >= 0, k6 > 0)
       /\ B(a0) <=> k2 # 0 /\ Most(-k3 >= 0, k2 >= 0, k6 > 0)
       /\ B(a2) <=> k4 # 0 /\ Most(-k5 >= 0, k4 >= 0, k6 > 0)
  <2>1. /\ A(a0) <=> In(a0, a0, a2)
        /\ A(a2) <=> In(a2, a0, a2)
        /\ A(b0) <=> In(b0, a0, a2)
        /\ A(b2) <=> In(b2, a0, a2)
        /\ B(a0) <=> In(a0, b0, b2)
        /\ B(a2) <=> In(a2, b0, b2)
        /\ B(b0) <=> In(b0, b0, b2)
        /\ B(b2) <=> In(b2, b0, b2)
    BY <1>4
  <2> HIDE DEF A, B, k1, k2, k3, k4, k5, k6, Most
  <2> QED BY <1>6, <1>9, <2>1
<1>11. /\ k2 = 0 => k4 = -k1 /\ k3 = k6
       /\ k3 = 0 => k5 = -k1 /\ k2 = -k6
       /\ k4 = 0 => k2 = k1 /\ k5 = k6
       /\ k5 = 0 => k3 = k1 /\ k4 = -k6
  BY <1>6, <1>7
<1>12. k2 # 0 /\ k3 # 0 /\ k4 # 0 /\ k5 # 0 => /\ ~(k1 = k6 /\ k2 = -k5 /\ k3 = k4)
                                              /\ ~(k1 = -k6 /\ k2 = k5 /\ k3 = -k4)
  <2> SUFFICES ASSUME k2 # 0, k3 # 0, k4 # 0, k5 # 0
               PROVE  ~(k1 = k6 /\ k2 = -k5 /\ k3 = k4) /\ ~(k1 = -k6 /\ k2 = k5 /\ k3 = -k4)
    OBVIOUS
  <2>1. {-1, 1} \subseteq {k1 * k6, -(k2 * k5), k3 * k4}
    BY <1>3, <1>6
  <2> HIDE DEF k1, k2, k3, k4, k5, k6
  <2>2. \A k \in {-1, 1} : k * k = 1 /\ (-k) * k = -1 /\ k * (-k) = -1
    OBVIOUS
  <2>3. k1 \in {-1, 1} /\ k2 \in {-1, 1} /\ k3 \in {-1, 1} /\ k4 \in {-1, 1} /\ k5 \in {-1, 1} /\ k6 \in {-1, 1}
    BY <1>6
  <2>4. k1 = k6 /\ k2 = -k5 /\ k3 = k4 => k1 * k6 = 1 /\ k2 * k5 = -1 /\ k3 * k4 = 1
    BY <2>2, <2>3
  <2>5. k1 = -k6 /\ k2 = k5 /\ k3 = -k4 => k1 * k6 = -1 /\ k2 * k5 = 1 /\ k3 * k4 = -1
    BY <2>2, <2>3
  <2> QED BY <2>1, <2>4, <2>5
<1>13. /\ WedgeContains(a0, o, a2, b0, b2) <=>
             OrderedCCW(a2, b2, b0, o) /\ OrderedCCW(b0, a0, a2, o)
       /\ WedgeIntersects(a0, o, a2, b0, b2) <=>
             ~(OrderedCCW(a0, b2, b0, o) /\ OrderedCCW(b0, a2, a0, o))
       /\ WedgeContains(a0, o, a2, b0, b2) \in BOOLEAN
       /\ WedgeIntersects(a0, o, a2, b0, b2) \in BOOLEAN
  BY DEF WedgeContains, WedgeIntersects
<1> HIDE DEF A, B, k1, k2, k3, k4, k5, k6, D, wa, wb
<1>14. WedgeContains(a0, o, a2, b0, b2) = (wb \subseteq wa)
  BY <1>5, <1>6, <1>8, <1>10, <1>11, <1>12, <1>13
<1>15. WedgeIntersects(a0, o, a2, b0, b2) = (wa \cap wb # {})
  BY <1>5, <1>6, <1>8, <1>10, <1>11, <1>12, <1>13
<1>16. GetWedgeRelation(a0, o, a2, b0, b2)
         = (CASE wa = wb -> "equals"
              [] wa # wb /\ wb \subseteq wa -> "properly_contains"
              [] wa # wb /\ wa \subseteq wb -> "is_properly_contained"
              [] wa \cap wb = {} -> "is_disjoint"
              [] OTHER -> "properly_overlaps")
  BY <1>5, <1>6, <1>8, <1>10, <1>11, <1>12 DEF GetWedgeRelation
<1> QED BY <1>14, <1>15, <1>16 DEF WedgesAgree, wa, wb

(* What WedgesMatch says of the points that were drawn.                       *)
LEMMA Matched ==
  ASSUME drawn \in Seq(LawPoints)
  PROVE  WedgesMatch
<1> SUFFICES ASSUME Len(drawn) = 5,
                    drawn[1] \notin {drawn[2], drawn[3], drawn[4], drawn[5]},
                    drawn[2] # drawn[3], drawn[4] # drawn[5]
             PROVE  WedgesAgree(drawn[1], drawn[2], drawn[3], drawn[4], drawn[5])
  BY DEF WedgesMatch, WedgesAgree
<1>1. /\ IsPoint(drawn[1]) /\ IsPoint(drawn[2]) /\ IsPoint(drawn[3]) /\ IsPoint(drawn[4])
      /\ IsPoint(drawn[5])
  BY DrawnArePoints
<1> QED BY <1>1, WedgesCompared

-----------------------------------------------------------------------------
(* Distances *)

(* Fractions with positive denominators, compared crosswise: u1/n1 before     *)
(* u2/n2 before u3/n3, where one step at least is strict.                     *)
LEMMA FractionsOrder ==
  ASSUME NEW u1 \in Int, NEW u2 \in Int, NEW u3 \in Int,
         NEW n1 \in Int, NEW n2 \in Int, NEW n3 \in Int, n1 > 0, n2 > 0, n3 > 0,
         u2 * n1 <= u1 * n2, u3 * n2 <= u2 * n3
  PROVE  /\ u3 * n1 <= u1 * n3
         /\ u3 * n1 = u1 * n3 => u2 * n1 = u1 * n2 /\ u3 * n2 = u2 * n3
<1> DEFINE d12 == u1 * n2 - u2 * n1
           d23 == u2 * n3 - u3 * n2
           d13 == u1 * n3 - u3 * n1
<1>1. d12 \in Int /\ d23 \in Int /\ d13 \in Int /\ d12 >= 0 /\ d23 >= 0
  OBVIOUS
<1>2. n2 * d13 = n3 * d12 + n1 * d23
  OBVIOUS
<1> HIDE DEF d12, d23, d13
<1>3. /\ n3 * d12 \in Int /\ n3 * d12 >= 0 /\ (d12 > 0 => n3 * d12 > 0)
      /\ n1 * d23 \in Int /\ n1 * d23 >= 0 /\ (d23 > 0 => n1 * d23 > 0)
  BY <1>1
<1>4. d13 < 0 => n2 * d13 < 0
  BY <1>1
<1>5. d13 = 0 => n2 * d13 = 0
  BY <1>1
<1>6. d13 >= 0 /\ (d13 = 0 => d12 = 0 /\ d23 = 0)
  BY <1>1, <1>2, <1>3, <1>4, <1>5
<1> QED BY <1>6 DEF d12, d23, d13

\* The cosine of the angle at the centre from x to p, squared, with its sign,
\* is Towards(x, p) / Norm2(x) Norm2(p).
Towards(x, p) == Sgn(DotProd(x, p)) * (DotProd(x, p) * DotProd(x, p))

(* The squared length of a point is positive.                                 *)
LEMMA LengthPositive ==
  ASSUME NEW p, IsPoint(p)
  PROVE  DotProd(p, p) \in Int /\ DotProd(p, p) > 0
<1>1. p \in Vectors /\ (p[1] # 0 \/ p[2] # 0 \/ p[3] # 0)
  BY VectorsEqual DEF IsPoint
<1>2. PICK u \in Int, v \in Int, w \in Int : u = p[1] /\ v = p[2] /\ w = p[3]
  BY <1>1, VectorParts
<1>3. \A m \in Int : m * m \in Int /\ m * m >= 0 /\ (m # 0 => m * m > 0)
  OBVIOUS
<1>4. u * u + v * v + w * w > 0 /\ u * u + v * v + w * w \in Int
  <2>1. /\ u * u \in Int /\ u * u >= 0 /\ (u # 0 => u * u > 0)
        /\ v * v \in Int /\ v * v >= 0 /\ (v # 0 => v * v > 0)
        /\ w * w \in Int /\ w * w >= 0 /\ (w # 0 => w * w > 0)
    BY <1>3
  <2>2. u # 0 \/ v # 0 \/ w # 0
    BY <1>1, <1>2
  <2> DEFINE aa == u * u
             bb == v * v
             cc == w * w
  <2>3. aa \in Int /\ bb \in Int /\ cc \in Int /\ aa >= 0 /\ bb >= 0 /\ cc >= 0
        /\ (aa > 0 \/ bb > 0 \/ cc > 0)
    BY <2>1, <2>2
  <2> HIDE DEF aa, bb, cc
  <2>4. aa + bb + cc > 0 /\ aa + bb + cc \in Int
    BY <2>3
  <2> QED BY <2>4 DEF aa, bb, cc
<1> QED BY <1>2, <1>4 DEF DotProd

(* The exact comparison compares those cosines.                               *)
LEMMA ExactCompares ==
  ASSUME NEW x, NEW p, NEW q, IsPoint(x), IsPoint(p), IsPoint(q)
  PROVE  /\ Towards(x, p) \in Int /\ Towards(x, q) \in Int
         /\ ExactCompareDistances(x, p, q)
              = Sgn(Towards(x, q) * DotProd(p, p) - Towards(x, p) * DotProd(q, q))
<1> DEFINE s == DotProd(x, p)
           t == DotProd(x, q)
           m == DotProd(p, p)
           n == DotProd(q, q)
<1>1. s \in Int /\ t \in Int /\ m \in Int /\ n \in Int /\ m > 0 /\ n > 0
  BY ProductTypes, LengthPositive DEF IsPoint
<1>2. /\ Towards(x, p) = Sgn(s) * (s * s)
      /\ Towards(x, q) = Sgn(t) * (t * t)
      /\ ExactCompareDistances(x, p, q)
           = IF Sgn(s) # Sgn(t) THEN IF Sgn(s) > Sgn(t) THEN -1 ELSE 1
             ELSE Sgn(s) * Sgn(t * t * m - s * s * n)
  BY DEF Towards, ExactCompareDistances
<1> HIDE DEF s, t, m, n
<1>3. /\ Sgn(s) \in {-1, 0, 1} /\ Sgn(t) \in {-1, 0, 1}
      /\ (Sgn(s) = 0 <=> s = 0) /\ (Sgn(t) = 0 <=> t = 0)
  BY <1>1, SignOfNumber
<1>4. PICK aa \in Int, bb \in Int : /\ aa = s * s /\ bb = t * t
                                    /\ aa >= 0 /\ bb >= 0
                                    /\ s # 0 <=> aa > 0
                                    /\ t # 0 <=> bb > 0
  <2>1. \A k \in Int : k * k \in Int /\ k * k >= 0 /\ (k # 0 <=> k * k > 0)
    OBVIOUS
  <2> QED BY <1>1, <2>1
<1>5. PICK am \in Int, bm \in Int : /\ am = aa * n /\ bm = bb * m
                                    /\ am >= 0 /\ bm >= 0
                                    /\ aa > 0 <=> am > 0
                                    /\ bb > 0 <=> bm > 0
  <2>1. \A k \in Int, l \in Int : k >= 0 /\ l > 0 => k * l \in Int /\ k * l >= 0 /\ (k > 0 <=> k * l > 0)
    OBVIOUS
  <2> QED BY <1>1, <1>4, <2>1
<1>6. /\ Towards(x, q) * m = Sgn(t) * bm
      /\ Towards(x, p) * n = Sgn(s) * am
      /\ t * t * m - s * s * n = bm - am
  BY <1>1, <1>2, <1>3, <1>4, <1>5
<1>7. ExactCompareDistances(x, p, q) = Sgn(Sgn(t) * bm - Sgn(s) * am)
  <2>1. /\ Sgn(s) = 0 => Sgn(s) * am = 0 /\ am = 0
        /\ Sgn(s) = 1 => Sgn(s) * am = am /\ am > 0
        /\ Sgn(s) = -1 => Sgn(s) * am = -am /\ am > 0
        /\ Sgn(t) = 0 => Sgn(t) * bm = 0 /\ bm = 0
        /\ Sgn(t) = 1 => Sgn(t) * bm = bm /\ bm > 0
        /\ Sgn(t) = -1 => Sgn(t) * bm = -bm /\ bm > 0
    BY <1>3, <1>4, <1>5
  <2>2. PICK v \in Int, w \in Int : v = Sgn(s) * am /\ w = Sgn(t) * bm
    BY <1>3
  <2>3. /\ Sgn(w - v) = IF w > v THEN 1 ELSE IF w < v THEN -1 ELSE 0
        /\ Sgn(bm - am) = IF bm > am THEN 1 ELSE IF bm < am THEN -1 ELSE 0
    BY <1>5, <2>2 DEF Sgn
  <2> QED BY <1>2, <1>3, <1>6, <2>1, <2>2, <2>3
<1>8. Towards(x, p) \in Int /\ Towards(x, q) \in Int
  BY <1>2, <1>3, <1>4
<1>9. ExactCompareDistances(x, p, q) = Sgn(Towards(x, q) * m - Towards(x, p) * n)
  BY <1>6, <1>7
<1> QED BY <1>8, <1>9 DEF m, n

\* q is strictly further from x than p, or as far and smaller.
Nearer(x, p, q) ==
  \/ Towards(x, q) * DotProd(p, p) < Towards(x, p) * DotProd(q, q)
  \/ Towards(x, q) * DotProd(p, p) = Towards(x, p) * DotProd(q, q) /\ Less(q, p)

(* CompareDistances is negative if the first point is nearer.                 *)
LEMMA ComparesNearer ==
  ASSUME NEW x, NEW p, NEW q, IsPoint(x), IsPoint(p), IsPoint(q)
  PROVE  CompareDistances(x, p, q) < 0 <=> Nearer(x, p, q)
<1> DEFINE v == Towards(x, q) * DotProd(p, p)
           w == Towards(x, p) * DotProd(q, q)
<1>1. v \in Int /\ w \in Int /\ ExactCompareDistances(x, p, q) = Sgn(v - w)
  BY ExactCompares, LengthPositive
<1>2. p = q => v = w /\ ~Less(q, p)
  BY LessOrders DEF IsPoint
<1>3. p # q => (Less(p, q) <=> ~Less(q, p))
  BY LessOrders DEF IsPoint
<1>4. Nearer(x, p, q) <=> v < w \/ (v = w /\ Less(q, p))
  BY DEF Nearer
<1> HIDE DEF v, w
<1>5. Sgn(v - w) = IF v > w THEN 1 ELSE IF v < w THEN -1 ELSE 0
  BY <1>1 DEF Sgn
<1> QED BY <1>1, <1>2, <1>3, <1>4, <1>5 DEF CompareDistances, SymbolicCompareDistances

(* Seen from one point the others stand in one order.                         *)
LEMMA NearerOrders ==
  ASSUME NEW x, NEW p, NEW q, NEW r, IsPoint(x), IsPoint(p), IsPoint(q), IsPoint(r)
  PROVE  /\ p # q => (Nearer(x, p, q) <=> ~Nearer(x, q, p))
         /\ Nearer(x, p, q) /\ Nearer(x, q, r) => Nearer(x, p, r)
<1> DEFINE u1 == Towards(x, p)
           u2 == Towards(x, q)
           u3 == Towards(x, r)
           n1 == DotProd(p, p)
           n2 == DotProd(q, q)
           n3 == DotProd(r, r)
<1>1. /\ u1 \in Int /\ u2 \in Int /\ u3 \in Int
      /\ n1 \in Int /\ n2 \in Int /\ n3 \in Int /\ n1 > 0 /\ n2 > 0 /\ n3 > 0
  BY ExactCompares, LengthPositive
<1>2. /\ Nearer(x, p, q) <=> u2 * n1 < u1 * n2 \/ (u2 * n1 = u1 * n2 /\ Less(q, p))
      /\ Nearer(x, q, p) <=> u1 * n2 < u2 * n1 \/ (u1 * n2 = u2 * n1 /\ Less(p, q))
      /\ Nearer(x, q, r) <=> u3 * n2 < u2 * n3 \/ (u3 * n2 = u2 * n3 /\ Less(r, q))
      /\ Nearer(x, p, r) <=> u3 * n1 < u1 * n3 \/ (u3 * n1 = u1 * n3 /\ Less(r, p))
  BY DEF Nearer
<1>3. /\ u2 * n1 \in Int /\ u1 * n2 \in Int /\ u3 * n2 \in Int /\ u2 * n3 \in Int
      /\ u3 * n1 \in Int /\ u1 * n3 \in Int
  BY <1>1
<1>4. /\ p # q => (Less(p, q) <=> ~Less(q, p))
      /\ Less(r, q) /\ Less(q, p) => Less(r, p)
  BY LessOrders DEF IsPoint
<1> HIDE DEF u1, u2, u3, n1, n2, n3
<1>5. u2 * n1 <= u1 * n2 /\ u3 * n2 <= u2 * n3 =>
        /\ u3 * n1 <= u1 * n3
        /\ u3 * n1 = u1 * n3 => u2 * n1 = u1 * n2 /\ u3 * n2 = u2 * n3
  BY <1>1, FractionsOrder
<1>6. p # q => (Nearer(x, p, q) <=> ~Nearer(x, q, p))
  BY <1>2, <1>3, <1>4
<1>7. Nearer(x, p, q) /\ Nearer(x, q, r) => Nearer(x, p, r)
  BY <1>2, <1>3, <1>4, <1>5
<1> QED BY <1>6, <1>7

(* What DistancesOrdered says of the points that were drawn.                  *)
LEMMA Ordered ==
  ASSUME drawn \in Seq(LawPoints)
  PROVE  DistancesOrdered
<1> SUFFICES ASSUME Len(drawn) = 4, NEW i \in 2 .. 4, NEW j \in 2 .. 4, NEW k \in 2 .. 4
             PROVE  LET x == drawn[1]
                        Before(p, q) == CompareDistances(x, p, q) < 0 IN
                    /\ drawn[i] # drawn[j] =>
                         Before(drawn[i], drawn[j]) # Before(drawn[j], drawn[i])
                    /\ Before(drawn[i], drawn[j]) /\ Before(drawn[j], drawn[k])
                         => Before(drawn[i], drawn[k])
  BY DEF DistancesOrdered
<1>1. IsPoint(drawn[1]) /\ IsPoint(drawn[i]) /\ IsPoint(drawn[j]) /\ IsPoint(drawn[k])
  BY LawPointsArePoints
<1> DEFINE x == drawn[1]
           Before(p, q) == CompareDistances(x, p, q) < 0
<1>2. /\ Before(drawn[i], drawn[j]) <=> Nearer(x, drawn[i], drawn[j])
      /\ Before(drawn[j], drawn[i]) <=> Nearer(x, drawn[j], drawn[i])
      /\ Before(drawn[j], drawn[k]) <=> Nearer(x, drawn[j], drawn[k])
      /\ Before(drawn[i], drawn[k]) <=> Nearer(x, drawn[i], drawn[k])
  BY <1>1, ComparesNearer
<1>3. /\ drawn[i] # drawn[j] => (Nearer(x, drawn[i], drawn[j]) <=> ~Nearer(x, drawn[j], drawn[i]))
      /\ Nearer(x, drawn[i], drawn[j]) /\ Nearer(x, drawn[j], drawn[k]) => Nearer(x, drawn[i], drawn[k])
  BY <1>1, NearerOrders
<1> HIDE DEF x
<1>4. drawn[i] # drawn[j] => Before(drawn[i], drawn[j]) # Before(drawn[j], drawn[i])
  BY <1>2, <1>3
<1>5. Before(drawn[i], drawn[j]) /\ Before(drawn[j], drawn[k]) => Before(drawn[i], drawn[k])
  BY <1>2, <1>3
<1> QED BY <1>4, <1>5 DEF x

-----------------------------------------------------------------------------
(* The answers of Sign, of the wedge relations and of CompareDistances, for   *)
(* equal, opposite and collinear points too, are together those of points in  *)
(* general position (s2predicates.cc: never "an impossible configuration"),   *)
(* whatever points are drawn and whatever the filters leave undecided.        *)
THEOREM PredicatesCorrect == LawSpec => []PredicatesConsistent
<1> DEFINE Inv == drawn \in Seq(LawPoints)
<1>1. LawInit => Inv
  BY DEF LawInit
<1>2. Inv /\ [LawNext]_drawn => Inv'
  BY DEF LawNext, Draw
<1>3. Inv => PredicatesConsistent
  BY Realized, Matched, Ordered DEF PredicatesConsistent
<1> QED BY <1>1, <1>2, <1>3, PTL DEF LawSpec

-----------------------------------------------------------------------------
(* The tangents of an edge *)

(* The triangles of two edges pq and xy, and any t.                           *)
LEMMA CrossingIdentity ==
  ASSUME NEW p \in Vectors, NEW q \in Vectors, NEW x \in Vectors, NEW y \in Vectors,
         NEW t \in Vectors
  PROVE  Det(p, q, y) * DotProd(x, t) - Det(p, q, x) * DotProd(y, t)
           = Det(x, y, p) * DotProd(q, t) - Det(x, y, q) * DotProd(p, t)
<1>1. PICK a1 \in Int, a2 \in Int, a3 \in Int : p = << a1, a2, a3 >>
  BY VectorParts
<1>2. PICK b1 \in Int, b2 \in Int, b3 \in Int : q = << b1, b2, b3 >>
  BY VectorParts
<1>3. PICK x1 \in Int, x2 \in Int, x3 \in Int : x = << x1, x2, x3 >>
  BY VectorParts
<1>4. PICK y1 \in Int, y2 \in Int, y3 \in Int : y = << y1, y2, y3 >>
  BY VectorParts
<1>5. PICK t1 \in Int, t2 \in Int, t3 \in Int : t = << t1, t2, t3 >>
  BY VectorParts
<1> QED BY <1>1, <1>2, <1>3, <1>4, <1>5 DEF Det, DotProd, CrossProd

(* Where the sides of that identity have different signs edges do not cross.  *)
LEMMA NoCrossingBeyond ==
  ASSUME NEW p \in Vectors, NEW q \in Vectors, NEW x \in Vectors, NEW y \in Vectors,
         NEW t \in Vectors,
         DotProd(x, t) > 0, DotProd(y, t) > 0, DotProd(p, t) <= 0, DotProd(q, t) <= 0
  PROVE  /\ ~(Det(p, q, y) > 0 /\ Det(p, q, x) < 0 /\ Det(x, y, p) > 0 /\ Det(x, y, q) < 0)
         /\ ~(Det(p, q, y) < 0 /\ Det(p, q, x) > 0 /\ Det(x, y, p) < 0 /\ Det(x, y, q) > 0)
<1>1. PICK dy \in Int, dx \in Int, dp \in Int, dq \in Int :
        dy = Det(p, q, y) /\ dx = Det(p, q, x) /\ dp = Det(x, y, p) /\ dq = Det(x, y, q)
  BY ProductTypes
<1>2. PICK xt \in Int, yt \in Int, pt \in Int, qt \in Int :
        xt = DotProd(x, t) /\ yt = DotProd(y, t) /\ pt = DotProd(p, t) /\ qt = DotProd(q, t)
  BY ProductTypes
<1>3. dy * xt - dx * yt = dp * qt - dq * pt
  BY <1>1, <1>2, CrossingIdentity
<1>4. xt > 0 /\ yt > 0 /\ pt <= 0 /\ qt <= 0
  BY <1>2
<1>5. ~(dy > 0 /\ dx < 0 /\ dp > 0 /\ dq < 0)
  <2> SUFFICES ASSUME dy > 0, dx < 0, dp > 0, dq < 0
               PROVE  FALSE
    OBVIOUS
  <2>1. dy * xt > 0 /\ dx * yt < 0 /\ dp * qt <= 0 /\ dq * pt >= 0
    BY <1>4
  <2>2. /\ dy * xt \in Int /\ dx * yt \in Int /\ dp * qt \in Int /\ dq * pt \in Int
    OBVIOUS
  <2> QED BY <1>3, <2>1, <2>2
<1>6. ~(dy < 0 /\ dx > 0 /\ dp < 0 /\ dq > 0)
  <2> SUFFICES ASSUME dy < 0, dx > 0, dp < 0, dq > 0
               PROVE  FALSE
    OBVIOUS
  <2>1. dy * xt < 0 /\ dx * yt > 0 /\ dp * qt >= 0 /\ dq * pt <= 0
    BY <1>4
  <2>2. /\ dy * xt \in Int /\ dx * yt \in Int /\ dp * qt \in Int /\ dq * pt \in Int
    OBVIOUS
  <2> QED BY <1>3, <2>1, <2>2
<1> QED BY <1>1, <1>5, <1>6

(* A vector orthogonal to p.                                                  *)
LEMMA OrthoIsVector ==
  ASSUME NEW p \in Vectors
  PROVE  Ortho(p) \in Vectors
<1>1. LargestAbsComponent(p) \in 1 .. 3
  BY DEF LargestAbsComponent, LargestOf
<1>2. AxisBefore(LargestAbsComponent(p)) \in 1 .. 3
  BY <1>1 DEF AxisBefore
<1> DEFINE w(k) == [<< 12, 5, 5 >> EXCEPT ![k] = 1000]
<1>3. w(1) \in Vectors /\ w(2) \in Vectors /\ w(3) \in Vectors
  <2>1. << 1000, 5, 5 >> \in Vectors /\ << 12, 1000, 5 >> \in Vectors /\ << 12, 5, 1000 >> \in Vectors
    BY DEF Vectors
  <2>2. w(1) = << 1000, 5, 5 >> /\ w(2) = << 12, 1000, 5 >> /\ w(3) = << 12, 5, 1000 >>
    OBVIOUS
  <2> HIDE DEF w
  <2> QED BY <2>1, <2>2
<1>4. Ortho(p) = CrossProd(p, w(AxisBefore(LargestAbsComponent(p))))
  BY DEF Ortho
<1> HIDE DEF w
<1>5. w(AxisBefore(LargestAbsComponent(p))) \in Vectors
  BY <1>2, <1>3
<1> QED BY <1>4, <1>5, ProductTypes

(* The symbolic cross product of points p < q is on the side to which the     *)
(* move of p takes the triangle.                                              *)
LEMMA SymbolicNorm ==
  ASSUME NEW p \in Vectors, NEW q, IsPoint(q), CrossProd(p, q) = << 0, 0, 0 >>
  PROVE  /\ SymbolicCrossProdSorted(p, q) \in Vectors
         /\ Det(p, q, SymbolicCrossProdSorted(p, q)) = 0
         /\ Leading(CrossProd(q, SymbolicCrossProdSorted(p, q)), p) = 1
<1>1. q \in Vectors /\ (q[1] # 0 \/ q[2] # 0 \/ q[3] # 0)
  BY VectorsEqual DEF IsPoint
<1>2. PICK b1 \in Int, b2 \in Int, b3 \in Int : q = << b1, b2, b3 >>
  BY <1>1, VectorParts
<1> DEFINE n == SymbolicCrossProdSorted(p, q)
<1>3. n = IF b1 # 0 \/ b2 # 0 THEN << -b2, b1, 0 >> ELSE << b3, 0, 0 >>
  BY <1>1, <1>2 DEF SymbolicCrossProdSorted
<1>4. n \in Vectors
  BY <1>3 DEF Vectors
<1>5. Det(p, q, n) = 0 /\ DotProd(CrossProd(q, n), p) = 0
  <2>1. Det(p, q, n) = 0
    BY <1>4, VectorParts DEF Det, DotProd
  <2>2. DotProd(CrossProd(q, n), p) = Det(q, n, p) /\ Det(q, n, p) = Det(p, q, n)
    BY <1>1, <1>4, DetAlternates DEF Det
  <2> QED BY <2>1, <2>2
<1>6. CASE b1 # 0 \/ b2 # 0
  <2>1. CrossProd(q, n)[3] = b1 * b1 + b2 * b2
    BY <1>2, <1>3, <1>6 DEF CrossProd
  <2>2. b1 * b1 + b2 * b2 > 0
    <3>1. /\ b1 * b1 \in Int /\ b1 * b1 >= 0 /\ (b1 # 0 => b1 * b1 > 0)
          /\ b2 * b2 \in Int /\ b2 * b2 >= 0 /\ (b2 # 0 => b2 * b2 > 0)
      OBVIOUS
    <3> QED BY <1>6, <3>1
  <2>3. Sgn(CrossProd(q, n)[3]) = 1 /\ Sgn(0) = 0
    BY <2>1, <2>2 DEF Sgn
  <2> QED BY <1>4, <1>5, <2>3 DEF Leading, FirstOf
<1>7. CASE ~(b1 # 0 \/ b2 # 0)
  <2>1. CrossProd(q, n)[3] = 0 /\ CrossProd(q, n)[2] = b3 * b3
    BY <1>2, <1>3, <1>7 DEF CrossProd
  <2>2. b3 # 0 /\ b3 * b3 > 0
    BY <1>1, <1>2, <1>7
  <2>3. Sgn(CrossProd(q, n)[3]) = 0 /\ Sgn(CrossProd(q, n)[2]) = 1 /\ Sgn(0) = 0
    BY <2>1, <2>2 DEF Sgn
  <2> QED BY <1>4, <1>5, <2>3 DEF Leading, FirstOf
<1> QED BY <1>4, <1>5, <1>6, <1>7

(* A vector turned round takes the move the other way.                        *)
LEMMA LeadingOfMinus ==
  ASSUME NEW v \in Vectors, NEW p \in Vectors
  PROVE  Leading(Minus(v), p) = -Leading(v, p)
<1>1. DotProd(Minus(v), p) = -DotProd(v, p) /\ DotProd(v, p) \in Int
  BY VectorParts DEF DotProd, Minus
<1>2. /\ Minus(v)[1] = -v[1] /\ Minus(v)[2] = -v[2] /\ Minus(v)[3] = -v[3]
      /\ v[1] \in Int /\ v[2] \in Int /\ v[3] \in Int
  BY VectorParts DEF Minus
<1>3. /\ Sgn(DotProd(Minus(v), p)) = -Sgn(DotProd(v, p))
      /\ Sgn(Minus(v)[1]) = -Sgn(v[1])
      /\ Sgn(Minus(v)[2]) = -Sgn(v[2])
      /\ Sgn(Minus(v)[3]) = -Sgn(v[3])
  BY <1>1, <1>2, SignOfNumber
<1>4. /\ Sgn(DotProd(v, p)) \in {-1, 0, 1} /\ Sgn(v[1]) \in {-1, 0, 1}
      /\ Sgn(v[2]) \in {-1, 0, 1} /\ Sgn(v[3]) \in {-1, 0, 1}
  BY <1>1, <1>2, SignOfNumber
<1> QED BY <1>3, <1>4 DEF Leading, FirstOf

(* What the normal of the edge from p to q says of its side, also where the   *)
(* cross product is zero.                                                     *)
LEMMA NormDecides ==
  ASSUME NEW p, NEW q, IsPoint(p), IsPoint(q)
  PROVE  /\ RobustCrossProd(p, q) \in Vectors
         /\ Det(p, q, RobustCrossProd(p, q)) >= 0
         /\ Less(p, q) => Leading(CrossProd(q, RobustCrossProd(p, q)), p) = 1
         /\ Less(q, p) => Leading(CrossProd(p, RobustCrossProd(p, q)), q) = -1
<1> DEFINE n == RobustCrossProd(p, q)
<1> p \in Vectors /\ q \in Vectors
  BY DEF IsPoint
<1>1. CASE p = q
  <2>1. n = Ortho(p) /\ n \in Vectors
    BY <1>1, OrthoIsVector DEF RobustCrossProd
  <2>2. Det(p, q, n) = 0 /\ ~Less(p, q) /\ ~Less(q, p)
    BY <1>1, <2>1, DetAlternates, LessOrders
  <2> HIDE DEF n
  <2>3. Det(p, q, n) >= 0
    BY <2>2
  <2> QED BY <2>1, <2>2, <2>3 DEF n
<1>2. CASE p # q /\ CrossProd(p, q) # << 0, 0, 0 >>
  <2>1. n = CrossProd(p, q) /\ n \in Vectors
    BY <1>2, ProductTypes DEF RobustCrossProd
  <2>2. IsPoint(n)
    BY <1>2, <2>1 DEF IsPoint
  <2>3. Det(p, q, n) = DotProd(n, n)
    BY <2>1 DEF Det
  <2> HIDE DEF n
  <2>4. Det(p, q, n) > 0 /\ Det(p, q, n) \in Int
    BY <2>2, <2>3, LengthPositive
  <2>5. /\ DotProd(CrossProd(q, n), p) = Det(p, q, n)
        /\ DotProd(CrossProd(p, n), q) = -Det(p, q, n)
    <3>1. /\ DotProd(CrossProd(q, n), p) = Det(q, n, p)
          /\ DotProd(CrossProd(p, n), q) = Det(p, n, q)
      BY DEF Det
    <3>2. Det(q, n, p) = Det(p, q, n) /\ Det(p, n, q) = -Det(p, q, n)
      BY <2>1, DetAlternates
    <3> QED BY <3>1, <3>2
  <2>6. Sgn(Det(p, q, n)) = 1 /\ Sgn(-Det(p, q, n)) = -1
    BY <2>4, SignOfNumber
  <2>7. Leading(CrossProd(q, n), p) = 1 /\ Leading(CrossProd(p, n), q) = -1
    BY <2>5, <2>6 DEF Leading, FirstOf
  <2>8. Det(p, q, n) >= 0
    BY <2>4
  <2> QED BY <2>1, <2>7, <2>8 DEF n
<1>3. CASE p # q /\ CrossProd(p, q) = << 0, 0, 0 >> /\ Less(p, q)
  <2>1. n = SymbolicCrossProdSorted(p, q)
    BY <1>3 DEF RobustCrossProd
  <2>2. n \in Vectors /\ Det(p, q, n) = 0 /\ Leading(CrossProd(q, n), p) = 1
    BY <1>3, <2>1, SymbolicNorm
  <2>3. ~Less(q, p)
    BY <1>3, LessOrders
  <2> HIDE DEF n
  <2>4. Det(p, q, n) >= 0
    BY <2>2
  <2> QED BY <2>2, <2>3, <2>4 DEF n
<1>4. CASE p # q /\ CrossProd(p, q) = << 0, 0, 0 >> /\ ~Less(p, q)
  <2>1. Less(q, p)
    BY <1>4, LessOrders
  <2> DEFINE m == SymbolicCrossProdSorted(q, p)
  <2>2. n = Minus(m)
    BY <1>4 DEF RobustCrossProd
  <2>3. CrossProd(q, p) = << 0, 0, 0 >>
    BY <1>4, VectorParts DEF CrossProd
  <2>4. m \in Vectors /\ Det(q, p, m) = 0 /\ Leading(CrossProd(p, m), q) = 1
    BY <2>3, SymbolicNorm
  <2> HIDE DEF m
  <2>5. n \in Vectors /\ Det(p, q, n) = 0
    <3>1. n \in Vectors
      BY <2>2, <2>4, ProductTypes
    <3>2. Det(p, q, Minus(m)) = Det(q, p, m)
      <4>1. PICK a1 \in Int, a2 \in Int, a3 \in Int : p = << a1, a2, a3 >>
        BY VectorParts
      <4>2. PICK b1 \in Int, b2 \in Int, b3 \in Int : q = << b1, b2, b3 >>
        BY VectorParts
      <4>3. PICK m1 \in Int, m2 \in Int, m3 \in Int : m = << m1, m2, m3 >>
        BY <2>4, VectorParts
      <4> QED BY <4>1, <4>2, <4>3 DEF Det, DotProd, CrossProd, Minus
    <3> QED BY <2>2, <2>4, <3>1, <3>2
  <2>6. Leading(CrossProd(p, n), q) = -1
    <3>1. CrossProd(p, m) \in Vectors
      BY <2>4, ProductTypes
    <3>2. CrossProd(p, Minus(m)) = Minus(CrossProd(p, m))
      <4>1. PICK a1 \in Int, a2 \in Int, a3 \in Int : p = << a1, a2, a3 >>
        BY VectorParts
      <4>2. PICK m1 \in Int, m2 \in Int, m3 \in Int : m = << m1, m2, m3 >>
        BY <2>4, VectorParts
      <4> QED BY <4>1, <4>2 DEF CrossProd, Minus
    <3> QED BY <2>2, <2>4, <3>1, <3>2, LeadingOfMinus
  <2> HIDE DEF n
  <2>7. Det(p, q, n) >= 0
    BY <2>5
  <2> QED BY <1>4, <2>5, <2>6, <2>7 DEF n
<1> QED BY <1>1, <1>2, <1>3, <1>4

-----------------------------------------------------------------------------
(* The filter *)

(* There is always one more point.                                            *)
LEMMA AnotherPoint ==
  ASSUME NEW p \in Vectors, NEW q \in Vectors, NEW x \in Vectors, NEW y \in Vectors
  PROVE  \E z : IsPoint(z) /\ z # p /\ z # q /\ z # x /\ z # y
<1>1. PICK k1 \in Int, k2 \in Int, k3 \in Int, k4 \in Int :
        k1 = p[1] /\ k2 = q[1] /\ k3 = x[1] /\ k4 = y[1]
  BY VectorParts
<1> DEFINE m == 1 + AbsOf(k1) + AbsOf(k2) + AbsOf(k3) + AbsOf(k4)
<1>2. m \in Int /\ m > 0 /\ m # k1 /\ m # k2 /\ m # k3 /\ m # k4
  <2>1. \A k \in Int : AbsOf(k) \in Int /\ AbsOf(k) >= 0 /\ AbsOf(k) >= k
    BY DEF AbsOf
  <2>2. /\ AbsOf(k1) \in Int /\ AbsOf(k1) >= 0 /\ AbsOf(k1) >= k1
        /\ AbsOf(k2) \in Int /\ AbsOf(k2) >= 0 /\ AbsOf(k2) >= k2
        /\ AbsOf(k3) \in Int /\ AbsOf(k3) >= 0 /\ AbsOf(k3) >= k3
        /\ AbsOf(k4) \in Int /\ AbsOf(k4) >= 0 /\ AbsOf(k4) >= k4
    BY <2>1
  <2> QED BY <2>2
<1> HIDE DEF m
<1> DEFINE z == << m, 0, 0 >>
<1>3. z \in Vectors /\ z[1] = m
  BY <1>2 DEF Vectors
<1>4. z # << 0, 0, 0 >>
  BY <1>2
<1> HIDE DEF z
<1>5. IsPoint(z)
  BY <1>3, <1>4 DEF IsPoint
<1>6. z[1] # p[1] /\ z[1] # q[1] /\ z[1] # x[1] /\ z[1] # y[1]
  BY <1>1, <1>2, <1>3
<1>7. z # p /\ z # q /\ z # x /\ z # y
  BY <1>6
<1> QED BY <1>5, <1>7

(* Four points as vectors in general position, which stay on their side of    *)
(* the edges to n.                                                            *)
LEMMA FourRealizable ==
  ASSUME NEW p, NEW q, NEW x, NEW y, NEW n \in Vectors,
         IsPoint(p), IsPoint(q), IsPoint(x), IsPoint(y),
         p # q, p # x, p # y, q # x, q # y, x # y
  PROVE  \E R : Realizes(R, {p, q, x, y}) /\ Keeps(R, {p, q, x, y}, n)
<1> p \in Vectors /\ q \in Vectors /\ x \in Vectors /\ y \in Vectors
  BY DEF IsPoint
<1>1. PICK z : IsPoint(z) /\ z # p /\ z # q /\ z # x /\ z # y
  BY AnotherPoint
<1>2. PICK R : Realizes(R, {p, q, x, y, z}) /\ Keeps(R, {p, q, x, y, z}, n)
  <2>1. FivePoints(p, q, x, y, z)
    BY <1>1 DEF FivePoints
  <2> QED BY <2>1, Realizable
<1> DEFINE S == {p, q, x, y, z}
           P == {p, q, x, y}
<1>3. P \subseteq S
  OBVIOUS
<1> HIDE DEF S
<1>4. Realizes(R, S) /\ Keeps(R, S, n)
  BY <1>2 DEF S
<1> HIDE DEF P
<1>5. Realizes(R, P)
  BY <1>3, <1>4 DEF Realizes
<1>6. Keeps(R, P, n)
  BY <1>3, <1>4 DEF Keeps
<1> QED BY <1>5, <1>6 DEF P

(* What is left of an edge to n is left of it as vectors.                     *)
LEMMA StaysLeft ==
  ASSUME NEW R, NEW P, NEW n \in Vectors, Realizes(R, P), Keeps(R, P, n),
         NEW p \in P, NEW q \in P, IsPoint(p), IsPoint(q), p # q, Det(p, q, n) > 0
  PROVE  Det(R[p], R[q], n) > 0
<1> p \in Vectors /\ q \in Vectors
  BY DEF IsPoint
<1> R[p] \in Vectors /\ R[q] \in Vectors
  BY DEF Realizes
<1> DEFINE rp == R[p]
           rq == R[q]
<1>1. /\ Det(p, q, n) \in Int /\ Det(rp, rq, n) \in Int
      /\ Det(rq, rp, n) = -Det(rp, rq, n)
  <2> rp \in Vectors /\ rq \in Vectors
    OBVIOUS
  <2> HIDE DEF rp, rq
  <2>1. Det(p, q, n) \in Int
    BY ProductTypes
  <2>2. Det(rp, rq, n) \in Int
    BY ProductTypes
  <2> QED BY <2>1, <2>2, DetAlternates
<1>2. /\ DotProd(CrossProd(q, n), p) = Det(p, q, n)
      /\ DotProd(CrossProd(p, n), q) = -Det(p, q, n)
  <2>1. /\ DotProd(CrossProd(q, n), p) = Det(q, n, p)
        /\ DotProd(CrossProd(p, n), q) = Det(p, n, q)
    BY DEF Det
  <2>2. Det(q, n, p) = Det(p, q, n) /\ Det(p, n, q) = -Det(p, q, n)
    BY DetAlternates
  <2> QED BY <2>1, <2>2
<1>3. Sgn(Det(p, q, n)) = 1 /\ Sgn(-Det(p, q, n)) = -1
  BY <1>1, SignOfNumber
<1>4. Leading(CrossProd(q, n), p) = 1 /\ Leading(CrossProd(p, n), q) = -1
  BY <1>2, <1>3 DEF Leading, FirstOf
<1>5. Less(p, q) \/ Less(q, p)
  BY LessOrders
<1>6. Less(p, q) => Sgn(Det(R[p], R[q], n)) = 1
  BY <1>4 DEF Keeps
<1>7. Less(q, p) => Sgn(Det(R[q], R[p], n)) = -1
  BY <1>4 DEF Keeps
<1> QED BY <1>1, <1>5, <1>6, <1>7, SignOfNumber

\* Four points the triangles of which turn as those of crossing edges.
TurnAsCrossing(p, q, x, y) ==
  /\ Sign(p, x, q) = Sign(x, q, y)
  /\ Sign(x, q, y) = Sign(q, y, p)
  /\ Sign(q, y, p) = Sign(y, p, x)

(* Edges do not cross if one of them is beyond an end of the other.           *)
LEMMA TangentsExclude ==
  ASSUME NEW p, NEW q, NEW x, NEW y, IsPoint(p), IsPoint(q), IsPoint(x), IsPoint(y),
         p # q, p # x, p # y, q # x, q # y, x # y,
         NEW n, n = RobustCrossProd(p, q),
         \/ DotProd(x, CrossProd(p, n)) > 0 /\ DotProd(y, CrossProd(p, n)) > 0
         \/ DotProd(x, CrossProd(n, q)) > 0 /\ DotProd(y, CrossProd(n, q)) > 0
  PROVE  ~TurnAsCrossing(p, q, x, y)
<1> p \in Vectors /\ q \in Vectors /\ x \in Vectors /\ y \in Vectors
  BY DEF IsPoint
<1>0. \A u, v, w \in Vectors : DotProd(u, CrossProd(v, w)) = Det(u, v, w)
  BY DetAlternates
<1>1. /\ n \in Vectors
      /\ Less(p, q) => Leading(CrossProd(q, n), p) = 1
      /\ Less(q, p) => Leading(CrossProd(p, n), q) = -1
  BY NormDecides
<1> DEFINE P == {p, q, x, y}
<1>2. PICK R : Realizes(R, P) /\ Keeps(R, P, n)
  BY <1>1, FourRealizable
<1> DEFINE rp == R[p]
           rq == R[q]
           rx == R[x]
           ry == R[y]
<1>3. rp \in Vectors /\ rq \in Vectors /\ rx \in Vectors /\ ry \in Vectors
  BY <1>2 DEF Realizes
<1>4. Det(rp, rq, n) > 0 /\ Det(rp, rq, n) \in Int
  <2>1. Less(p, q) => Sgn(Det(rp, rq, n)) = 1
    BY <1>1, <1>2 DEF Keeps
  <2>2. Less(q, p) => Sgn(Det(rq, rp, n)) = -1
    BY <1>1, <1>2 DEF Keeps
  <2>3. /\ Det(rq, rp, n) = -Det(rp, rq, n)
        /\ Det(rp, rq, n) \in Int
    BY <1>1, <1>3, DetAlternates, ProductTypes
  <2>4. Less(p, q) \/ Less(q, p)
    BY LessOrders
  <2> HIDE DEF rp, rq
  <2> QED BY <2>1, <2>2, <2>3, <2>4, SignOfNumber
<1>5. \E t \in Vectors : /\ DotProd(rx, t) > 0 /\ DotProd(ry, t) > 0
                         /\ DotProd(rp, t) <= 0 /\ DotProd(rq, t) <= 0
  <2>1. CASE DotProd(x, CrossProd(p, n)) > 0 /\ DotProd(y, CrossProd(p, n)) > 0
    <3> DEFINE t == CrossProd(rp, n)
    <3>1. Det(x, p, n) > 0 /\ Det(y, p, n) > 0
      BY <1>1, <2>1, DetAlternates
    <3>2. Det(rx, rp, n) > 0 /\ Det(ry, rp, n) > 0
      BY <1>1, <1>2, <3>1, StaysLeft
    <3>3. /\ t \in Vectors
          /\ DotProd(rx, t) = Det(rx, rp, n)
          /\ DotProd(ry, t) = Det(ry, rp, n)
          /\ DotProd(rp, t) = Det(rp, rp, n)
          /\ DotProd(rq, t) = Det(rq, rp, n)
      <4> HIDE DEF rp, rq, rx, ry
      <4>1. t \in Vectors
        BY <1>1, <1>3, ProductTypes
      <4> QED BY <1>0, <1>1, <1>3, <4>1
    <3>4. Det(rp, rp, n) = 0 /\ Det(rq, rp, n) = -Det(rp, rq, n)
      BY <1>1, <1>3, DetAlternates
    <3> HIDE DEF t, rp, rq, rx, ry
    <3>5. DotProd(rx, t) > 0 /\ DotProd(ry, t) > 0 /\ DotProd(rp, t) <= 0 /\ DotProd(rq, t) <= 0
      BY <1>4, <3>2, <3>3, <3>4
    <3> QED BY <3>3, <3>5
  <2>2. CASE DotProd(x, CrossProd(n, q)) > 0 /\ DotProd(y, CrossProd(n, q)) > 0
    <3> DEFINE t == CrossProd(n, rq)
    <3>1. Det(q, x, n) > 0 /\ Det(q, y, n) > 0
      <4>1. DotProd(x, CrossProd(n, q)) = Det(x, n, q) /\ DotProd(y, CrossProd(n, q)) = Det(y, n, q)
        BY <1>1, DetAlternates
      <4>2. Det(q, x, n) = Det(x, n, q) /\ Det(q, y, n) = Det(y, n, q)
        BY <1>1, DetAlternates
      <4> QED BY <2>2, <4>1, <4>2
    <3>2. Det(rq, rx, n) > 0 /\ Det(rq, ry, n) > 0
      BY <1>1, <1>2, <3>1, StaysLeft
    <3>3. /\ t \in Vectors
          /\ DotProd(rx, t) = Det(rx, n, rq)
          /\ DotProd(ry, t) = Det(ry, n, rq)
          /\ DotProd(rp, t) = Det(rp, n, rq)
          /\ DotProd(rq, t) = Det(rq, n, rq)
      <4> HIDE DEF rp, rq, rx, ry
      <4>1. t \in Vectors
        BY <1>1, <1>3, ProductTypes
      <4> QED BY <1>0, <1>1, <1>3, <4>1
    <3>4. /\ Det(rx, n, rq) = Det(rq, rx, n)
          /\ Det(ry, n, rq) = Det(rq, ry, n)
          /\ Det(rp, n, rq) = -Det(rp, rq, n)
          /\ Det(rq, n, rq) = Det(rq, rq, n)
          /\ Det(rq, rq, n) = 0
      BY <1>1, <1>3, DetAlternates
    <3> HIDE DEF t, rp, rq, rx, ry
    <3>5. DotProd(rx, t) > 0 /\ DotProd(ry, t) > 0 /\ DotProd(rp, t) <= 0 /\ DotProd(rq, t) <= 0
      BY <1>4, <3>2, <3>3, <3>4
    <3> QED BY <3>3, <3>5
  <2> QED BY <2>1, <2>2
<1>6. /\ Sgn(Det(rp, rq, ry)) = Sign(p, q, y)
      /\ Sgn(Det(rp, rq, rx)) = Sign(p, q, x)
      /\ Sgn(Det(rx, ry, rp)) = Sign(x, y, p)
      /\ Sgn(Det(rx, ry, rq)) = Sign(x, y, q)
  BY <1>2 DEF Realizes
<1>7. /\ Sign(p, q, y) = Sign(q, y, p) /\ Sign(p, q, x) = -Sign(p, x, q)
      /\ Sign(x, y, p) = Sign(y, p, x) /\ Sign(x, y, q) = -Sign(x, q, y)
      /\ Sign(q, y, p) \in {-1, 1}
  <2>1. Sign(q, y, p) = Sign(p, q, y) /\ Sign(y, p, x) = Sign(x, y, p)
    BY SignAlternates
  <2>2. /\ Sign(q, x, p) = Sign(p, q, x) /\ Sign(p, x, q) = Sign(q, p, x) /\ Sign(q, p, x) = -Sign(p, q, x)
    BY SignAlternates
  <2>3. /\ Sign(x, q, y) = Sign(y, x, q) /\ Sign(y, x, q) = -Sign(x, y, q)
    BY SignAlternates
  <2>4. Sign(p, q, x) \in {-1, 0, 1} /\ Sign(x, y, q) \in {-1, 0, 1} /\ Sign(q, y, p) \in {-1, 0, 1}
        /\ Sign(q, y, p) # 0
    BY SignAlternates
  <2> QED BY <2>1, <2>2, <2>3, <2>4
<1>8. /\ Det(rp, rq, ry) \in Int /\ Det(rp, rq, rx) \in Int
      /\ Det(rx, ry, rp) \in Int /\ Det(rx, ry, rq) \in Int
  BY <1>3, ProductTypes
<1> HIDE DEF rp, rq, rx, ry
<1>9. /\ ~(Det(rp, rq, ry) > 0 /\ Det(rp, rq, rx) < 0 /\ Det(rx, ry, rp) > 0 /\ Det(rx, ry, rq) < 0)
      /\ ~(Det(rp, rq, ry) < 0 /\ Det(rp, rq, rx) > 0 /\ Det(rx, ry, rp) < 0 /\ Det(rx, ry, rq) > 0)
  BY <1>3, <1>5, NoCrossingBeyond
<1>10. ~(Sign(p, q, y) = 1 /\ Sign(p, q, x) = -1 /\ Sign(x, y, p) = 1 /\ Sign(x, y, q) = -1)
  BY <1>6, <1>8, <1>9, SignOfNumber
<1>11. ~(Sign(p, q, y) = -1 /\ Sign(p, q, x) = 1 /\ Sign(x, y, p) = -1 /\ Sign(x, y, q) = 1)
  BY <1>6, <1>8, <1>9, SignOfNumber
<1> QED BY <1>7, <1>10, <1>11 DEF TurnAsCrossing

(* An edge beyond an end of another does not touch or cross it.               *)
LEMMA BeyondExcludes ==
  ASSUME NEW p, NEW q, NEW x, NEW y, IsPoint(p), IsPoint(q), IsPoint(x), IsPoint(y),
         \/ Beyond(TangentsOf(p, q).ta, x, y)
         \/ Beyond(TangentsOf(p, q).tb, x, y)
  PROVE  /\ p # x /\ p # y /\ q # x /\ q # y
         /\ p # q /\ x # y => ~TurnAsCrossing(p, q, x, y)
<1> p \in Vectors /\ q \in Vectors /\ x \in Vectors /\ y \in Vectors
  BY DEF IsPoint
<1> DEFINE n == RobustCrossProd(p, q)
<1>1. n \in Vectors /\ Det(p, q, n) >= 0
  BY NormDecides
<1>2. TangentsOf(p, q).ta = CrossProd(p, n) /\ TangentsOf(p, q).tb = CrossProd(n, q)
  BY DEF TangentsOf
<1>3. n = RobustCrossProd(p, q)
  OBVIOUS
<1> HIDE DEF n
<1>4. /\ CrossProd(p, n) \in Vectors /\ CrossProd(n, q) \in Vectors
      /\ Det(p, q, n) \in Int
  BY <1>1, ProductTypes
<1>5. /\ DotProd(p, CrossProd(p, n)) = Det(p, p, n) /\ Det(p, p, n) = 0
      /\ DotProd(q, CrossProd(p, n)) = Det(q, p, n) /\ Det(q, p, n) = -Det(p, q, n)
      /\ DotProd(q, CrossProd(n, q)) = Det(q, n, q) /\ Det(q, n, q) = -Det(q, q, n)
      /\ Det(q, q, n) = 0
      /\ DotProd(p, CrossProd(n, q)) = Det(p, n, q) /\ Det(p, n, q) = -Det(p, q, n)
  BY <1>1, DetAlternates
<1>6. /\ DotProd(p, CrossProd(p, n)) <= 0 /\ DotProd(q, CrossProd(p, n)) <= 0
      /\ DotProd(p, CrossProd(n, q)) <= 0 /\ DotProd(q, CrossProd(n, q)) <= 0
  BY <1>1, <1>4, <1>5
<1>7. \/ DotProd(x, CrossProd(p, n)) > 0 /\ DotProd(y, CrossProd(p, n)) > 0
      \/ DotProd(x, CrossProd(n, q)) > 0 /\ DotProd(y, CrossProd(n, q)) > 0
  <2>1. /\ DotProd(x, CrossProd(p, n)) \in Int /\ DotProd(y, CrossProd(p, n)) \in Int
        /\ DotProd(x, CrossProd(n, q)) \in Int /\ DotProd(y, CrossProd(n, q)) \in Int
    BY <1>4, ProductTypes
  <2>2. \/ DotProd(x, CrossProd(p, n)) > MaxDetError /\ DotProd(y, CrossProd(p, n)) > MaxDetError
        \/ DotProd(x, CrossProd(n, q)) > MaxDetError /\ DotProd(y, CrossProd(n, q)) > MaxDetError
    BY <1>2 DEF Beyond
  <2> QED BY <2>1, <2>2, MaxDetErrorIsNat
<1>8. p # x /\ p # y /\ q # x /\ q # y
  <2>1. CASE DotProd(x, CrossProd(p, n)) > 0 /\ DotProd(y, CrossProd(p, n)) > 0
    <3>1. \A z : z = x \/ z = y => ~(DotProd(z, CrossProd(p, n)) <= 0)
      <4>1. DotProd(x, CrossProd(p, n)) \in Int /\ DotProd(y, CrossProd(p, n)) \in Int
        BY <1>4, ProductTypes
      <4> QED BY <2>1, <4>1
    <3> QED BY <1>6, <3>1
  <2>2. CASE DotProd(x, CrossProd(n, q)) > 0 /\ DotProd(y, CrossProd(n, q)) > 0
    <3>1. \A z : z = x \/ z = y => ~(DotProd(z, CrossProd(n, q)) <= 0)
      <4>1. DotProd(x, CrossProd(n, q)) \in Int /\ DotProd(y, CrossProd(n, q)) \in Int
        BY <1>4, ProductTypes
      <4> QED BY <2>2, <4>1
    <3> QED BY <1>6, <3>1
  <2> QED BY <1>7, <2>1, <2>2
<1>9. p # q /\ x # y => ~TurnAsCrossing(p, q, x, y)
  BY <1>3, <1>7, <1>8, TangentsExclude
<1> QED BY <1>8, <1>9

-----------------------------------------------------------------------------
(* One test *)

\* What CrosserExact demands of the crossing of ab with the edge from x to y.
CrossingOf(x, y) ==
  IF Crosses(x, y) THEN 1 ELSE IF {a_, b_} \cap {x, y} # {} THEN 0 ELSE -1

(* The signs of the four triangles by those of two: a, b with an end of xy,   *)
(* and x, y with an end of ab.                                                *)
LEMMA CrossesBySigns ==
  ASSUME IsPoint(a_), IsPoint(b_), NEW x, NEW y, IsPoint(x), IsPoint(y)
  PROVE  /\ Sign(a_, x, b_) = -Sign(a_, b_, x)
         /\ Sign(x, b_, y) = -Sign(x, y, b_)
         /\ Sign(b_, y, a_) = Sign(a_, b_, y)
         /\ Sign(y, a_, x) = Sign(x, y, a_)
         /\ Sign(a_, b_, x) \in {-1, 0, 1} /\ Sign(a_, b_, y) \in {-1, 0, 1}
<1>1. Sign(a_, x, b_) = Sign(b_, a_, x) /\ Sign(b_, a_, x) = -Sign(a_, b_, x)
  BY SignAlternates
<1>2. Sign(x, b_, y) = Sign(y, x, b_) /\ Sign(y, x, b_) = -Sign(x, y, b_)
  BY SignAlternates
<1>3. Sign(b_, y, a_) = Sign(a_, b_, y)
  BY SignAlternates
<1>4. Sign(y, a_, x) = Sign(x, y, a_)
  BY SignAlternates
<1>5. Sign(a_, b_, x) \in {-1, 0, 1} /\ Sign(a_, b_, y) \in {-1, 0, 1}
  BY SignAlternates
<1> QED BY <1>1, <1>2, <1>3, <1>4, <1>5

(* An edge with both ends on the same side of ab is away from it.             *)
LEMMA SameSideAway ==
  ASSUME IsPoint(a_), IsPoint(b_), NEW x, NEW y, IsPoint(x), IsPoint(y),
         Sign(a_, b_, x) = Sign(a_, b_, y), Sign(a_, b_, x) # 0
  PROVE  CrossingOf(x, y) = -1
<1>1. a_ # x /\ b_ # x
  BY SignAlternates
<1>2. Sign(a_, b_, y) # 0
  OBVIOUS
<1>3. a_ # y /\ b_ # y
  BY <1>2, SignAlternates
<1>4. Sign(a_, x, b_) # Sign(b_, y, a_)
  BY CrossesBySigns
<1>5. ~Crosses(x, y)
  BY <1>4 DEF Crosses
<1>6. {a_, b_} \cap {x, y} = {}
  BY <1>1, <1>3
<1> QED BY <1>5, <1>6 DEF CrossingOf

(* What CrossingSignInternal finds is what the orientations say, whatever was *)
(* known before.                                                              *)
LEMMA InternalExact ==
  ASSUME IsPoint(a_), IsPoint(b_), NEW x, NEW y, IsPoint(x), IsPoint(y),
         NEW k \in {0, -Sign(a_, b_, x)}, NEW m \in {0, Sign(a_, b_, y)},
         NEW r, r = CrossingSignInternal(TangentsOf(a_, b_), x, k, y, m)
  PROVE  /\ r.crossing = CrossingOf(x, y)
         /\ r.bda \in {0, Sign(a_, b_, y)}
         /\ r.crossing = 1 => -r.bda = Sign(a_, b_, x)
<1> DEFINE away == \/ Beyond(TangentsOf(a_, b_).ta, x, y)
                   \/ Beyond(TangentsOf(a_, b_).tb, x, y)
           acb1 == IF k = 0 THEN -ExpensiveSign(a_, b_, x) ELSE k
           bda1 == IF m = 0 THEN ExpensiveSign(a_, b_, y) ELSE m
<1>1. acb1 = -Sign(a_, b_, x) /\ bda1 = Sign(a_, b_, y)
  <2>1. ExpensiveSign(a_, b_, x) = Sign(a_, b_, x) /\ ExpensiveSign(a_, b_, y) = Sign(a_, b_, y)
    BY SignAlternates
  <2> QED BY <2>1
<1>2. CASE away
  <2>1. r = [crossing |-> -1, bda |-> m]
    BY <1>2 DEF CrossingSignInternal
  <2> HIDE DEF acb1, bda1
  <2>2. /\ a_ # x /\ a_ # y /\ b_ # x /\ b_ # y
        /\ a_ # b_ /\ x # y => ~TurnAsCrossing(a_, b_, x, y)
    BY <1>2, BeyondExcludes
  <2>3. ~Crosses(x, y) /\ {a_, b_} \cap {x, y} = {}
    BY <2>2 DEF Crosses, TurnAsCrossing
  <2> QED BY <2>1, <2>3 DEF CrossingOf
<1>3. CASE ~away /\ {a_, b_} \cap {x, y} # {}
  <2>1. r = [crossing |-> 0, bda |-> m]
    BY <1>3 DEF CrossingSignInternal
  <2> QED BY <1>3, <2>1 DEF CrossingOf, Crosses
<1>4. CASE ~away /\ {a_, b_} \cap {x, y} = {} /\ (a_ = b_ \/ x = y)
  <2>1. r = [crossing |-> -1, bda |-> m]
    BY <1>4 DEF CrossingSignInternal
  <2> QED BY <1>4, <2>1 DEF CrossingOf, Crosses
<1>5. CASE ~away /\ {a_, b_} \cap {x, y} = {} /\ a_ # b_ /\ x # y
  <2>1. r = [crossing |-> IF bda1 = acb1 /\ -Sign(x, y, b_) = acb1 /\ Sign(x, y, a_) = acb1
                          THEN 1 ELSE -1,
             bda |-> bda1]
    BY <1>5 DEF CrossingSignInternal
  <2> HIDE DEF acb1, bda1, away
  <2>2. Crosses(x, y) <=> bda1 = acb1 /\ -Sign(x, y, b_) = acb1 /\ Sign(x, y, a_) = acb1
    <3>1. Crosses(x, y) <=> /\ -Sign(a_, b_, x) = -Sign(x, y, b_)
                            /\ -Sign(x, y, b_) = Sign(a_, b_, y)
                            /\ Sign(a_, b_, y) = Sign(x, y, a_)
      BY <1>5, CrossesBySigns DEF Crosses
    <3> QED BY <1>1, <3>1
  <2>3. r.crossing = 1 => bda1 = acb1
    BY <2>1
  <2>4. Sign(a_, b_, x) \in {-1, 0, 1}
    BY CrossesBySigns
  <2>5. r.crossing = 1 => -r.bda = Sign(a_, b_, x)
    BY <1>1, <2>1, <2>3, <2>4
  <2> QED BY <1>1, <1>5, <2>1, <2>2, <2>5 DEF CrossingOf
<1> QED BY <1>2, <1>3, <1>4, <1>5

-----------------------------------------------------------------------------
(* The invariant *)

\* What is remembered is about the edge ab and the last vertex.
Remembered ==
  /\ a_ \in Points /\ b_ \in Points
  /\ c_ \in Points \cup {None}
  /\ c_ # None => acb \in {0, -Sign(a_, b_, c_)}
  /\ tangents \in {NoTangents, TangentsOf(a_, b_)}

CrosserInv == Remembered /\ CrosserExact

(* A test answers right and remembers right, if what it was given about the   *)
(* vertex x is unknown or right.                                              *)
LEMMA TestKeepsInv ==
  ASSUME Remembered, NEW x \in Points, NEW d \in Points,
         NEW k \in {0, -Sign(a_, b_, x)}, Test(x, k, d)
  PROVE  CrosserInv'
<1> IsPoint(a_) /\ IsPoint(b_) /\ IsPoint(x) /\ IsPoint(d)
  BY PointsAreVectors DEF Remembered
<1> DEFINE bda == TriageSign(a_, b_, d)
           t == IF tangents.known THEN tangents ELSE TangentsOf(a_, b_)
           r == CrossingSignInternal(t, x, k, d, bda)
<1>1. t = TangentsOf(a_, b_)
  <2>1. NoTangents.known = FALSE
    BY DEF NoTangents
  <2>2. tangents = NoTangents \/ tangents = TangentsOf(a_, b_)
    BY DEF Remembered
  <2> QED BY <2>1, <2>2
<1>2. bda \in {0, Sign(a_, b_, d)}
  BY SignAlternates
<1>3. c_' = d /\ a_' = a_ /\ b_' = b_
  BY DEF Test
<1>4. Sign(a_, b_, x) \in {-1, 0, 1} /\ Sign(a_, b_, d) \in {-1, 0, 1}
  BY CrossesBySigns
<1>5. ASSUME last'.from = x, last'.to = d, last'.crossing = CrossingOf(x, d),
             last'.sign = (IF CrossingOf(x, d) = 1 THEN Sign(a_, b_, x)
                           ELSE IF CrossingOf(x, d) = 0
                           THEN SignedVertexCrossing(a_, b_, x, d) ELSE 0)
      PROVE  CrosserExact'
  BY <1>3, <1>5 DEF CrosserExact, CrossingOf, Crosses
<1>6. CASE k = -bda /\ bda # 0
  <2>1. /\ acb' = -bda /\ tangents' = tangents
        /\ last' = [from |-> x, to |-> d, crossing |-> -1, sign |-> 0]
    BY <1>6 DEF Test
  <2> HIDE DEF bda, t, r
  <2>2. Sign(a_, b_, x) = Sign(a_, b_, d) /\ Sign(a_, b_, x) # 0
    BY <1>2, <1>4, <1>6
  <2>3. CrossingOf(x, d) = -1
    BY <2>2, SameSideAway
  <2>4. CrosserExact'
    <3>1. /\ last'.from = x /\ last'.to = d /\ last'.crossing = -1 /\ last'.sign = 0
      BY <2>1
    <3> QED BY <1>5, <2>3, <3>1
  <2>5. acb' \in {0, -Sign(a_, b_, d)}
    BY <1>2, <2>1
  <2>6. Remembered'
    BY <1>3, <2>1, <2>5 DEF Remembered
  <2> QED BY <2>4, <2>6 DEF CrosserInv
<1>7. CASE ~(k = -bda /\ bda # 0)
  <2>1. /\ acb' = -r.bda /\ tangents' = t
        /\ last' = [from |-> x, to |-> d, crossing |-> r.crossing,
                    sign |-> CASE r.crossing = -1 -> 0
                               [] r.crossing = 1 -> -r.bda
                               [] OTHER -> SignedVertexCrossing(a_, b_, x, d)]
    BY <1>7 DEF Test
  <2>2. r = CrossingSignInternal(TangentsOf(a_, b_), x, k, d, bda)
    BY <1>1
  <2> HIDE DEF bda, t, r
  <2>3. /\ r.crossing = CrossingOf(x, d)
        /\ r.bda \in {0, Sign(a_, b_, d)}
        /\ r.crossing = 1 => -r.bda = Sign(a_, b_, x)
    BY <1>2, <2>2, InternalExact
  <2>4. CrossingOf(x, d) \in {-1, 0, 1}
    BY DEF CrossingOf
  <2>5. /\ last'.from = x /\ last'.to = d /\ last'.crossing = CrossingOf(x, d)
        /\ last'.sign = (IF r.crossing = 1 THEN Sign(a_, b_, x)
                         ELSE IF r.crossing = 0 THEN SignedVertexCrossing(a_, b_, x, d) ELSE 0)
    BY <2>1, <2>3, <2>4
  <2>6. CrosserExact'
    BY <1>5, <2>3, <2>5
  <2>7. acb' \in {0, -Sign(a_, b_, d)}
    BY <2>1, <2>3
  <2>8. Remembered'
    BY <1>1, <1>3, <2>1, <2>7 DEF Remembered
  <2> QED BY <2>6, <2>8 DEF CrosserInv
<1> QED BY <1>6, <1>7

(* What the crosser answers from what it remembers is what the orientations   *)
(* of the four triangles say (S2EdgeCrosser::CrossingSignInternal).           *)
THEOREM CrosserCorrect == CrosserSpec => []CrosserExact
<1>1. CrosserInit => CrosserInv
  <2> SUFFICES ASSUME CrosserInit
               PROVE  CrosserInv
    OBVIOUS
  <2>1. Remembered
    BY DEF CrosserInit, Remembered
  <2>2. CrosserExact
    BY DEF CrosserInit, CrosserExact
  <2> QED BY <2>1, <2>2 DEF CrosserInv
<1>2. CrosserInv /\ [CrosserNext]_crosser => CrosserInv'
  <2> SUFFICES ASSUME CrosserInv, [CrosserNext]_crosser
               PROVE  CrosserInv'
    OBVIOUS
  <2> Remembered /\ CrosserExact
    BY DEF CrosserInv
  <2> IsPoint(a_) /\ IsPoint(b_)
    BY PointsAreVectors DEF Remembered
  <2>1. ASSUME NEW x \in Points, NEW y \in Points, InitEdge(x, y)
        PROVE  CrosserInv'
    <3>1. a_' = x /\ b_' = y /\ c_' = None /\ tangents' = NoTangents /\ last' = NoTest
      BY <2>1 DEF InitEdge
    <3>2. Remembered'
      BY <3>1 DEF Remembered
    <3>3. CrosserExact'
      BY <3>1 DEF CrosserExact
    <3> QED BY <3>2, <3>3 DEF CrosserInv
  <2>2. ASSUME NEW x \in Points
        PROVE  -TriageSign(a_, b_, x) \in {0, -Sign(a_, b_, x)}
    <3>1. IsPoint(x)
      BY PointsAreVectors
    <3>2. TriageSign(a_, b_, x) \in {0, Sign(a_, b_, x)}
      BY <3>1, SignAlternates
    <3> QED BY <3>2
  <2>3. ASSUME NEW x \in Points, RestartAt(x)
        PROVE  CrosserInv'
    <3>1. /\ c_' = x /\ acb' = -TriageSign(a_, b_, x) /\ last' = NoTest
          /\ a_' = a_ /\ b_' = b_ /\ tangents' = tangents
      BY <2>3 DEF RestartAt
    <3>2. Remembered'
      BY <2>2, <3>1 DEF Remembered
    <3>3. CrosserExact'
      BY <3>1 DEF CrosserExact
    <3> QED BY <3>2, <3>3 DEF CrosserInv
  <2>4. ASSUME NEW x \in Points, NextVertex(x)
        PROVE  CrosserInv'
    <3>1. c_ \in Points /\ acb \in {0, -Sign(a_, b_, c_)} /\ Test(c_, acb, x)
      BY <2>4 DEF NextVertex, Remembered
    <3> QED BY <3>1, TestKeepsInv
  <2>5. ASSUME NEW x \in Points, NEW y \in Points, NextEdge(x, y)
        PROVE  CrosserInv'
    <3>1. CASE c_ = x
      <4>1. Test(x, acb, y)
        BY <2>5, <3>1 DEF NextEdge
      <4>2. acb \in {0, -Sign(a_, b_, x)}
        BY <3>1, NoneIsNoPoint DEF Remembered
      <4> QED BY <4>1, <4>2, TestKeepsInv
    <3>2. CASE c_ # x
      <4>1. Test(x, -TriageSign(a_, b_, x), y)
        BY <2>5, <3>2 DEF NextEdge
      <4> QED BY <2>2, <4>1, TestKeepsInv
    <3> QED BY <3>1, <3>2
  <2>6. CASE UNCHANGED crosser
    <3>1. Remembered'
      BY <2>6 DEF Remembered, crosser
    <3>2. CrosserExact'
      BY <2>6 DEF CrosserExact, Crosses, crosser
    <3> QED BY <3>1, <3>2 DEF CrosserInv
  <2> QED BY <2>1, <2>3, <2>4, <2>5, <2>6 DEF CrosserNext
<1>3. CrosserInv => CrosserExact
  BY DEF CrosserInv
<1> QED BY <1>1, <1>2, <1>3, PTL DEF CrosserSpec
=============================================================================
