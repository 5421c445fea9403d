------------------------------ MODULE S2Predicates ------------------------------
(***************************************************************************)
(* The exact predicates of src/s2/s2predicates.cc and the tests on edges   *)
(* that are built from them: which way three points turn, in which order   *)
(* directions leave a point, what happens where two edges share a vertex,  *)
(* and how two wedges at a vertex relate.                                  *)
(*                                                                         *)
(* An S2Point is a vector <<x, y, z>> of integers: the coordinates in some *)
(* common unit.  Only the exact steps look at more than the sign of a      *)
(* determinant, and those never depend on the lengths.  The floating point *)
(* filters in front of them give the exact answer or none: a determinant   *)
(* of at most MaxDetError is one they cannot tell from zero.               *)
(***************************************************************************)
EXTENDS Integers, Sequences, FiniteSets, SequencesExt

CONSTANT MaxDetError       \* kMaxDetError, kError: what the filters leave undecided
ASSUME MaxDetErrorIsNat == MaxDetError \in Nat

\* A point is a vector other than the centre.
Vectors == Int \X Int \X Int
IsPoint(p) == p \in Vectors /\ p # << 0, 0, 0 >>

Sgn(x) == IF x > 0 THEN 1 ELSE IF x < 0 THEN -1 ELSE 0
AbsOf(x) == IF x < 0 THEN -x ELSE x
DotProd(p, q) == p[1] * q[1] + p[2] * q[2] + p[3] * q[3]
CrossProd(p, q) == << p[2] * q[3] - p[3] * q[2], p[3] * q[1] - p[1] * q[3],
                      p[1] * q[2] - p[2] * q[1] >>
Minus(p) == << -p[1], -p[2], -p[3] >>

\* The order of S2Points.
Less(p, q) ==
  \E i \in 1 .. 3 : p[i] < q[i] /\ \A j \in 1 .. i - 1 : p[j] = q[j]

\* The first of the numbers that is not zero has the sign.
FirstSign(s) == Sgn(s[CHOOSE i \in DOMAIN s : /\ s[i] # 0
                                              /\ \A j \in 1 .. i - 1 : s[j] = 0])

-----------------------------------------------------------------------------
(* Orientation *)

\* What a filter says of a number it knows up to its error.
Triage(diff) == IF AbsOf(diff) > MaxDetError THEN Sgn(diff) ELSE 0
FirstOf(first, second) == IF first # 0 THEN first ELSE second

TriageSign(a, b, c) == Triage(DotProd(CrossProd(a, b), c))

\* Mutant: the coefficients of db with the signs they have for C x B.
SymbolicallyPerturbedSignPaper(a, b, c) ==
  LET bc == CrossProd(b, c) IN
  FirstSign(<< bc[3], bc[2], bc[1],
               c[2] * a[1] - c[1] * a[2], -c[1], c[2], c[1] * a[3] - c[3] * a[1], -c[3],
               a[1] * b[2] - a[2] * b[1], -b[1], b[2], a[1], 1 >>)

\* The sign of the determinant of a < b < c when it is zero: the coefficients
\* of their perturbations, the largest perturbation first.
SymbolicallyPerturbedSign(a, b, c) ==
  LET bc == CrossProd(b, c) IN
  FirstSign(<< bc[3], bc[2], bc[1],
               c[1] * a[2] - c[2] * a[1], c[1], -c[2], c[3] * a[1] - c[1] * a[3], c[3],
               a[1] * b[2] - a[2] * b[1], -b[1], b[2], a[1], 1 >>)

\* Two of the points a, b, c put in order: the exchange turns the sign round.
SwapFirst(p) == IF Less(p[2], p[1]) THEN << p[2], p[1], p[3], -p[4] >> ELSE p
SwapLast(p) == IF Less(p[3], p[2]) THEN << p[1], p[3], p[2], -p[4] >> ELSE p

\* The sign of the determinant of points in order, times the sign of their permutation.
SortedSign(p) ==
  p[4] * FirstOf(Sgn(DotProd(p[1], CrossProd(p[2], p[3]))),
                 SymbolicallyPerturbedSign(p[1], p[2], p[3]))

\* The points are sorted first.
ExactSign(a, b, c) == SortedSign(SwapFirst(SwapLast(SwapFirst(<< a, b, c, 1 >>))))

ExpensiveSign(a, b, c) ==
  IF a = b \/ b = c \/ c = a THEN 0 ELSE ExactSign(a, b, c)

Sign(a, b, c) == FirstOf(TriageSign(a, b, c), ExpensiveSign(a, b, c))

\* Going round o counterclockwise from a, one meets b no later than c.
OrderedCCW(a, b, c, o) ==
  Cardinality({ i \in 1 .. 3 : \/ i = 1 /\ Sign(b, o, a) >= 0
                               \/ i = 2 /\ Sign(c, o, b) >= 0
                               \/ i = 3 /\ Sign(a, o, c) > 0 }) >= 2

-----------------------------------------------------------------------------
(* Distances and directions *)

ExactCompareDistances(x, a, b) ==
  LET ax == DotProd(x, a)
      bx == DotProd(x, b) IN
  IF Sgn(ax) # Sgn(bx) THEN IF Sgn(ax) > Sgn(bx) THEN -1 ELSE 1
  ELSE Sgn(ax) * Sgn(bx * bx * DotProd(a, a) - ax * ax * DotProd(b, b))

SymbolicCompareDistances(a, b) == IF Less(a, b) THEN 1 ELSE IF Less(b, a) THEN -1 ELSE 0

\* Mutant: a tie is no longer broken.
CompareDistancesTied(x, a, b) == IF a = b THEN 0 ELSE ExactCompareDistances(x, a, b)

\* -1 if x is closer to a, 1 if it is closer to b, 0 only if a = b.
CompareDistances(x, a, b) ==
  LET exact == ExactCompareDistances(x, a, b) IN
  IF a = b THEN 0 ELSE IF exact # 0 THEN exact ELSE SymbolicCompareDistances(a, b)

-----------------------------------------------------------------------------
(* Points made from a point *)

LargestOf(x, y, z) == IF x > y THEN IF x > z THEN 1 ELSE 3 ELSE IF y > z THEN 2 ELSE 3
LargestAbsComponent(p) == LargestOf(AbsOf(p[1]), AbsOf(p[2]), AbsOf(p[3]))
AxisBefore(k) == IF k = 1 THEN 3 ELSE k - 1

\* A direction orthogonal to p, not normalized, in thousandths.
Ortho(p) == CrossProd(p, [<< 12, 5, 5 >> EXCEPT ![AxisBefore(LargestAbsComponent(p))] = 1000])

\* The fixed direction at p that decides on which side a vertex is.
RefDir(p) == Ortho(p)

\* A point close to the north pole that is on no edge.
Origin == << -10, 3, 1000 >>

\* The cross product of proportional points a < b, after perturbation.
SymbolicCrossProdSorted(a, b) ==
  IF b[1] # 0 \/ b[2] # 0 THEN << -b[2], b[1], 0 >>
  ELSE IF b[3] # 0 THEN << b[3], 0, 0 >>
  ELSE IF a[1] # 0 \/ a[2] # 0 THEN << a[2], -a[1], 0 >> ELSE << 1, 0, 0 >>

RobustCrossProd(a, b) ==
  LET exact == CrossProd(a, b) IN
  IF a = b THEN Ortho(a)
  ELSE IF exact # << 0, 0, 0 >> THEN exact
  ELSE IF Less(a, b) THEN SymbolicCrossProdSorted(a, b)
  ELSE Minus(SymbolicCrossProdSorted(b, a))

-----------------------------------------------------------------------------
(* Edges that share a vertex *)

\* 1, -1 or 0 for a crossing of the edges ab and cd at the vertex they share:
\* there is one if ab leaves the vertex further from RefDir than cd; it is
\* positive if both edges enter the vertex or both leave it.
SignedVertexCrossing(a, b, c, d) ==
  IF a = b \/ c = d THEN 0
  ELSE IF a = c THEN IF b = d \/ OrderedCCW(RefDir(a), d, b, a) THEN 1 ELSE 0
  ELSE IF b = d THEN IF OrderedCCW(RefDir(b), c, a, b) THEN 1 ELSE 0
  ELSE IF a = d THEN IF b = c \/ OrderedCCW(RefDir(a), c, b, a) THEN -1 ELSE 0
  ELSE IF b = c THEN IF OrderedCCW(RefDir(b), d, a, b) THEN -1 ELSE 0
  ELSE 0

\* Mutant: the crossing with a reversed copy of the edge is lost.
VertexCrossingNoReverse(a, b, c, d) ==
  /\ a # b /\ c # d
  /\ IF a = c THEN b = d \/ OrderedCCW(RefDir(a), d, b, a)
     ELSE IF b = d THEN OrderedCCW(RefDir(b), c, a, b)
     ELSE IF a = d THEN OrderedCCW(RefDir(a), b, c, a)
     ELSE b = c /\ OrderedCCW(RefDir(b), d, a, b)

\* The vertex o that the edges share, and the other ends of cd and of ab.
SharedVertex(a, b, c, d) ==
  IF a = c THEN << a, d, b >> ELSE IF b = d THEN << b, c, a >>
  ELSE IF a = d THEN << a, c, b >> ELSE << b, d, a >>
LeavesLater(s) == OrderedCCW(RefDir(s[1]), s[2], s[3], s[1])

VertexCrossing(a, b, c, d) ==
  /\ a # b /\ c # d /\ {a, b} \cap {c, d} # {}
  /\ {a, b} = {c, d} \/ LeavesLater(SharedVertex(a, b, c, d))

\* The wedge from c round to a, left of the path a, b, c, has RefDir(b).
AngleContainsVertex(a, b, c) == ~OrderedCCW(RefDir(b), c, a, b)

-----------------------------------------------------------------------------
(* Wedges a0, o, a2 and b0, o, b2, each the region on the left of its path *)

WedgeContains(a0, o, a2, b0, b2) == OrderedCCW(a2, b2, b0, o) /\ OrderedCCW(b0, a0, a2, o)

WedgeIntersects(a0, o, a2, b0, b2) ==
  ~(OrderedCCW(a0, b2, b0, o) /\ OrderedCCW(b0, a2, a0, o))

\* Mutant: a shared second edge is not looked at.
GetWedgeRelationNoShared(a0, o, a2, b0, b2) ==
  IF a0 = b0 /\ a2 = b2 THEN "equals"
  ELSE IF OrderedCCW(a0, a2, b2, o)
       THEN IF OrderedCCW(b2, b0, a0, o) THEN "properly_contains" ELSE "properly_overlaps"
  ELSE IF OrderedCCW(a0, b0, b2, o) THEN "is_properly_contained"
  ELSE IF OrderedCCW(a0, b0, a2, o) THEN "is_disjoint" ELSE "properly_overlaps"

GetWedgeRelation(a0, o, a2, b0, b2) ==
  IF a0 = b0 /\ a2 = b2 THEN "equals"
  ELSE IF OrderedCCW(a0, a2, b2, o)
       THEN IF OrderedCCW(b2, b0, a0, o) THEN "properly_contains"
            ELSE IF a2 = b2 THEN "is_properly_contained" ELSE "properly_overlaps"
  ELSE IF OrderedCCW(a0, b0, b2, o) THEN "is_properly_contained"
  ELSE IF OrderedCCW(a0, b0, a2, o) THEN "is_disjoint" ELSE "properly_overlaps"

-----------------------------------------------------------------------------
(***************************************************************************)
(* Which points a polygon contains, in the two ways the library finds out  *)
(* without an index: S2Loop counts crossings from S2::Origin()             *)
(* (src/s2/s2loop.cc), a shape counts them from a reference point of its   *)
(* own, one of its vertices (src/s2/s2shapeutil_get_reference_point.cc,    *)
(* src/s2/s2shapeutil_contains_brute_force.cc).                            *)
(*                                                                         *)
(* A loop is the sequence of its vertices, a shape the sequence of its     *)
(* loops.                                                                  *)
(***************************************************************************)

\* CrossingSign(a, b, c, d): one use of an S2EdgeCrosser.
CrossingSign(a, b, c, d) ==
  IF {a, b} \cap {c, d} # {} THEN 0
  ELSE IF /\ a # b /\ c # d
          /\ Sign(a, c, b) = Sign(c, b, d)
          /\ Sign(c, b, d) = Sign(b, d, a)
          /\ Sign(b, d, a) = Sign(d, a, c) THEN 1 ELSE -1

CrossesAt(crossing, at_vertex) == crossing > 0 \/ (crossing = 0 /\ at_vertex)
EdgeOrVertexCrossing(a, b, c, d) == CrossesAt(CrossingSign(a, b, c, d), VertexCrossing(a, b, c, d))

\* vertex(i) of a loop, cyclic.
Vertex(v, i) == v[((i - 1) % Len(v)) + 1]
EdgesOf(v) == [i \in 1 .. Len(v) |-> << v[i], Vertex(v, i + 1) >>]

\* The edges that a segment from p to q crosses.
Crossed(p, q, edges) ==
  { i \in DOMAIN edges : EdgeOrVertexCrossing(p, q, edges[i][1], edges[i][2]) }

Odd(S) == Cardinality(S) % 2 = 1

-----------------------------------------------------------------------------
(* S2Loop *)

\* Mutant: the first vertex is looked at, with the angle at the second.
OriginInsideAtFirst(v) ==
  AngleContainsVertex(v[1], v[2], v[3]) # Odd(Crossed(Origin, v[1], EdgesOf(v)))

\* InitOriginAndBound: the origin is inside if that makes vertex 1 come out right.
OriginInside(v) ==
  AngleContainsVertex(v[1], v[2], v[3]) # Odd(Crossed(Origin, v[2], EdgesOf(v)))

BruteForceContains(v, p) == OriginInside(v) # Odd(Crossed(Origin, p, EdgesOf(v)))

-----------------------------------------------------------------------------
(* Shapes *)

\* S2ContainsVertexQuery: +1, -1 or 0 for the unmatched edge at o that is the
\* last one before RefDir, out[v] being the edges to v less those from v.
LastBefore(ref, unmatched, o) ==
  { v \in unmatched : \A w \in unmatched \cup {ref} : OrderedCCW(ref, w, v, o) }
UnmatchedAt(out, best) == IF best = {} THEN 0 ELSE out[CHOOSE v \in best : TRUE]
ContainsSign(o, out) ==
  UnmatchedAt(out, LastBefore(RefDir(o), { v \in DOMAIN out : out[v] # 0 }, o))

\* GetReferencePointAtVertex
SignAtVertex(edges, o) ==
  LET ends == { e[1] : e \in ToSet(edges) } \cup { e[2] : e \in ToSet(edges) } IN
  ContainsSign(o, [v \in ends |->
                     Cardinality({ i \in DOMAIN edges : edges[i] = << o, v >> })
                     - Cardinality({ i \in DOMAIN edges : edges[i] = << v, o >> })])

EdgeLess(e, f) == Less(e[1], f[1]) \/ (e[1] = f[1] /\ Less(e[2], f[2]))

Times(edges, e) == Cardinality({ i \in DOMAIN edges : edges[i] = e })
Sibling(e) == << e[2], e[1] >>

\* GetReferencePoint: vertex 0 if it is unbalanced, otherwise a vertex of the
\* first edge, in their order, that has no sibling; a polygon that is all
\* sibling pairs is full only if it has a loop without edges.
ReferencePointAt(edges, o) == [point |-> o, contained |-> SignAtVertex(edges, o) > 0]
ReferencePointOf(edges, full) ==
  LET all == ToSet(edges) \cup { Sibling(e) : e \in ToSet(edges) }
      unmatched == { e \in all : Times(edges, e) # Times(edges, Sibling(e)) }
      first == CHOOSE e \in unmatched : \A f \in unmatched : e = f \/ EdgeLess(e, f) IN
  IF unmatched = {} THEN [point |-> Origin, contained |-> full]
  ELSE ReferencePointAt(edges, IF SignAtVertex(edges, edges[1][1]) # 0 THEN edges[1][1]
                               ELSE first[1])

AllEdgesOf(shape) == FlattenSeq([i \in DOMAIN shape |-> EdgesOf(shape[i])])

GetReferencePoint(shape) ==
  ReferencePointOf(AllEdgesOf(shape), \E i \in DOMAIN shape : shape[i] = << >>)

\* The crossings from a reference point to p tell whether p is contained.
ContainsFrom(ref, edges, p) ==
  IF ref.point = p THEN ref.contained
  ELSE ref.contained # Odd(Crossed(ref.point, p, edges))

ContainsBruteForce(shape, p) == ContainsFrom(GetReferencePoint(shape), AllEdgesOf(shape), p)

-----------------------------------------------------------------------------
(***************************************************************************)
(* The predicates of src/s2/s2predicates.cc on distances: of a point or an *)
(* edge to a limit, of crossings to a great circle, of the circumcenter of *)
(* a triangle to an edge, and which of two sites an edge never comes close *)
(* to.  They are what S2Builder and the distance queries rest on.  Each    *)
(* has filters in double and long double arithmetic, which give the exact  *)
(* answer or none, and an exact form whose square roots are squared away.  *)
(*                                                                         *)
(* A chord angle r is <<p, q>>, its length2() the fraction p/q: then       *)
(* cos(r) is CosR/2q and sin(r)^2 is Sin2R/4q^2.                           *)
(***************************************************************************)

Norm2(p) == DotProd(p, p)
Plus(a, b) == [i \in 1 .. 3 |-> a[i] + b[i]]
CosR(r) == 2 * r[2] - r[1]
Sin2R(r) == r[1] * (4 * r[2] - r[1])
Unit2(r) == 4 * r[2] * r[2]
Right == << 2, 1 >>
Below45(r) == CosR(r) > 0 /\ CosR(r) * CosR(r) > 2 * r[2] * r[2]      \* r < k45Degrees
AtLeastRight(r) == r[1] >= 2 * r[2]
LesserOf(a, b) == IF a < b THEN a ELSE b
ClipSign(s) == IF s > 1 THEN 1 ELSE IF s < -1 THEN -1 ELSE s             \* max(-1, min(1, s))

-----------------------------------------------------------------------------
(* The distance of two points and a limit *)

CosDifference(x, y, r) == CosR(r) * CosR(r) * Norm2(x) * Norm2(y) - Unit2(r) * DotProd(x, y) * DotProd(x, y)
ExactCompareDistance(x, y, r) ==
  LET xy == Sgn(DotProd(x, y))
      rs == Sgn(CosR(r)) IN
  IF xy # rs THEN IF xy > rs THEN -1 ELSE 1 ELSE xy * Sgn(CosDifference(x, y, r))

TriageCompareCosDistance(x, y, r) ==
  IF Triage(CosDifference(x, y, r)) = 0 THEN 0 ELSE ExactCompareDistance(x, y, r)
TriageCompareSin2Distance(x, y, r) ==
  Triage(Unit2(r) * Norm2(CrossProd(x, y)) - Sin2R(r) * Norm2(x) * Norm2(y))
TriageCompareDistance(x, y, r) ==
  FirstOf(TriageCompareCosDistance(x, y, r),
          IF Below45(r) THEN TriageCompareSin2Distance(x, y, r) ELSE 0)

CompareDistance(x, y, r) ==
  IF TriageCompareCosDistance(x, y, r) = 0 /\ r[1] = 0 /\ x = y THEN 0
  ELSE FirstOf(TriageCompareDistance(x, y, r), ExactCompareDistance(x, y, r))

-----------------------------------------------------------------------------
(* The distance of a point and an edge and a limit *)

TriageCompareEdgeDirections(a0, a1, b0, b1) ==
  Triage(DotProd(CrossProd(a0, a1), CrossProd(b0, b1)))
ExactCompareEdgeDirections(a0, a1, b0, b1) ==
  Sgn(DotProd(CrossProd(a0, a1), CrossProd(b0, b1)))
CompareEdgeDirections(a0, a1, b0, b1) ==
  LET sign == TriageCompareEdgeDirections(a0, a1, b0, b1) IN
  IF sign = 0 /\ (a0 = a1 \/ b0 = b1) THEN 0
  ELSE FirstOf(sign, ExactCompareEdgeDirections(a0, a1, b0, b1))

LineDifference(x, a0, a1, r) ==
  LET n == CrossProd(a0, a1) IN
  Unit2(r) * DotProd(x, n) * DotProd(x, n) - Sin2R(r) * Norm2(x) * Norm2(n)
TriageCompareLineDistance(x, a0, a1, r) ==      \* by sine below 45 degrees, else by cosine
  IF AtLeastRight(r) THEN -1
  ELSE IF Below45(r) THEN Triage(LineDifference(x, a0, a1, r))
  ELSE LET n == CrossProd(a0, a1) IN
       -Triage(Unit2(r) * Norm2(CrossProd(x, n)) - CosR(r) * CosR(r) * Norm2(x) * Norm2(n))
ExactCompareLineDistance(x, a0, a1, r) ==
  IF AtLeastRight(r) THEN -1 ELSE Sgn(LineDifference(x, a0, a1, r))

\* Where the filter cannot tell whether x projects into the edge, both the
\* endpoints and the line must say the same.
TriageCompareEdgeDistance(x, a0, a1, r) ==
  LET m == CrossProd(CrossProd(a0, a1), x)
      a0_sign == DotProd(a0, m)
      a1_sign == DotProd(a1, m)
      vertex_sign == LesserOf(TriageCompareDistance(x, a0, r), TriageCompareDistance(x, a1, r))
      line_sign == TriageCompareLineDistance(x, a0, a1, r)
      maybe == a0_sign <= MaxDetError /\ a1_sign >= -MaxDetError
      certain == a0_sign < -MaxDetError /\ a1_sign > MaxDetError IN
  IF ~maybe THEN vertex_sign
  ELSE IF certain THEN line_sign
  ELSE IF vertex_sign = line_sign THEN line_sign ELSE 0

ExactCompareEdgeDistanceLine(x, a0, a1, r) ==
  IF a0 # Minus(x) /\ a1 # Minus(x) THEN ExactCompareLineDistance(x, a0, a1, r)
  ELSE LesserOf(CompareDistance(x, a0, r), CompareDistance(x, a1, r))
ExactCompareEdgeDistance(x, a0, a1, r) ==
  IF /\ a0 # Minus(x) /\ a1 # Minus(x)
     /\ CompareEdgeDirections(a0, a1, a0, x) > 0
     /\ CompareEdgeDirections(a0, a1, x, a1) > 0
  THEN ExactCompareLineDistance(x, a0, a1, r)
  ELSE LesserOf(CompareDistance(x, a0, r), CompareDistance(x, a1, r))

CompareEdgeDistance(x, a0, a1, r) ==
  FirstOf(TriageCompareEdgeDistance(x, a0, a1, r),
          IF a0 = a1 THEN CompareDistance(x, a0, r)
          ELSE ExactCompareEdgeDistance(x, a0, a1, r))

CompareEdgePairDistance(a0, a1, b0, b1, r) ==
  IF CrossingSign(a0, a1, b0, b1) >= 0 THEN IF r[1] > 0 THEN -1 ELSE 0
  ELSE LesserOf(LesserOf(CompareEdgeDistance(a0, b0, b1, r), CompareEdgeDistance(a1, b0, b1, r)),
             LesserOf(CompareEdgeDistance(b0, a0, a1, r), CompareEdgeDistance(b1, a0, a1, r)))

-----------------------------------------------------------------------------
(* Where an edge crosses a great circle *)

SignDotProd(a, b) == FirstOf(Triage(DotProd(a, b)), Sgn(DotProd(a, b)))

IntersectionProduct(a, b, n, x) == DotProd(n, a) * DotProd(x, b) - DotProd(n, b) * DotProd(x, a)
CircleEdgeIntersectionSign(a, b, n, x) ==
  FirstOf(Triage(IntersectionProduct(a, b, n, x)), Sgn(IntersectionProduct(a, b, n, x)))
CircleEdgeIntersectionOrderingByM(a, b, c, d, m, n) ==
  Sgn(IntersectionProduct(a, b, m, n) - IntersectionProduct(c, d, n, m))
CircleEdgeIntersectionOrdering(a, b, c, d, m, n) ==
  LET diff == IntersectionProduct(a, b, m, n) - IntersectionProduct(c, d, m, n) IN
  IF Triage(diff) = 0 /\ {a, b} = {c, d} THEN 0 ELSE FirstOf(Triage(diff), Sgn(diff))

-----------------------------------------------------------------------------
(* The circumcenter of a triangle and an edge *)

\* The sign of s * sqrt(p) + t * sqrt(q).
RootSumSign(s, p, t, q) ==
  LET sum == ClipSign(s + t) IN IF sum = 0 /\ s # 0 THEN Sgn(p - q) * s ELSE sum

\* lhs2 + ca, whose square roots are known by their signs and squares; where the
\* signs differ both sides are squared once more.
ThirdRootSign(lhs2_sgn, ca_sgn, lhs4_sgn, lhs42, rhs4) ==
  LET sum == ClipSign(lhs2_sgn + ca_sgn) IN
  IF sum = 0 /\ lhs2_sgn # 0 THEN lhs2_sgn * RootSumSign(lhs4_sgn, lhs42, -Sgn(rhs4), rhs4 * rhs4)
  ELSE sum

CircumcenterProductSign(dab, dbc, dca, cab2, abc2, bca2) ==
  ThirdRootSign(RootSumSign(Sgn(dab), cab2, Sgn(dbc), abc2), Sgn(dca),
                Sgn(dab) * Sgn(dbc), 4 * abc2 * cab2, bca2 - cab2 - abc2)

\* The sign of (x0 x x1).(|c|(a x b) + |a|(b x c) + |b|(c x a)), squared twice.
ExactEdgeCircumcenterSign(x0, x1, a, b, c, abc_sign) ==
  LET nx == CrossProd(x0, x1)
      dab == DotProd(nx, CrossProd(a, b))
      dbc == DotProd(nx, CrossProd(b, c))
      dca == DotProd(nx, CrossProd(c, a)) IN
  IF nx = << 0, 0, 0 >> THEN 0
  ELSE abc_sign * CircumcenterProductSign(dab, dbc, dca, Norm2(c) * dab * dab,
                                          Norm2(a) * dbc * dbc, Norm2(b) * dca * dca)

UnperturbedSign(a, b, c) == Sgn(DotProd(CrossProd(a, b), c))
\* The smallest of the sites is moved furthest, and the circumcenter with it.
SymbolicEdgeCircumcenterSignUnsorted(x0, x1, a, b, c) ==
  FirstOf(UnperturbedSign(x0, x1, a), FirstOf(UnperturbedSign(x0, x1, b), UnperturbedSign(x0, x1, c)))
SymbolicEdgeCircumcenterSign(x0, x1, a, b, c) ==
  LET first == CHOOSE p \in {a, b, c} : \A q \in {a, b, c} \ {p} : Less(p, q)
      last == CHOOSE p \in {a, b, c} : \A q \in {a, b, c} \ {p} : Less(q, p)
      mid == CHOOSE p \in {a, b, c} : p # first /\ p # last IN
  IF a = b \/ b = c \/ c = a THEN 0
  ELSE FirstOf(UnperturbedSign(x0, x1, first),
               FirstOf(UnperturbedSign(x0, x1, mid), UnperturbedSign(x0, x1, last)))

EdgeCircumcenterSign(x0, x1, a, b, c) ==
  IF x0 = x1 \/ a = b \/ b = c \/ c = a THEN 0
  ELSE FirstOf(ExactEdgeCircumcenterSign(x0, x1, a, b, c, Sign(a, b, c)),
               SymbolicEdgeCircumcenterSign(x0, x1, a, b, c))

-----------------------------------------------------------------------------
(* Which of two sites the edge x0, x1 is never closest to, within r *)

\* a and b lie the other way round along the edge: a is kept if it is within
\* 90 degrees of x0, b if it is within 90 degrees of x1.
BackwardSiteExclusion(a, b, x0, x1) ==
  LET ca == ExactCompareDistance(a, x0, Right)
      cb == ExactCompareDistance(b, x1, Right) IN
  IF ca < 0 /\ cb < 0 THEN "NEITHER" ELSE IF ca > 0 THEN "FIRST" ELSE "SECOND"

ExactVoronoiSiteExclusionEither(a, b, x0, x1, r) ==
  LET n == CrossProd(x0, x1)
      rhs2 == DotProd(CrossProd(a, b), n)
      sa2 == Norm2(b) * (Sin2R(r) * Norm2(n) * Norm2(a) - Unit2(r) * DotProd(a, n) * DotProd(a, n))
      sb2 == Norm2(a) * (Sin2R(r) * Norm2(n) * Norm2(b) - Unit2(r) * DotProd(b, n) * DotProd(b, n))
      lhs2_sgn == Sgn(sb2 - sa2) IN
  IF rhs2 < 0 THEN BackwardSiteExclusion(a, b, x0, x1)
  ELSE IF lhs2_sgn = 0 THEN "NEITHER" ELSE IF lhs2_sgn > 0 THEN "FIRST" ELSE "SECOND"
ExactVoronoiSiteExclusion(a, b, x0, x1, r) ==
  LET n == CrossProd(x0, x1)
      rhs2 == DotProd(CrossProd(a, b), n)
      cos_d == DotProd(a, b) * Norm2(n) - DotProd(a, n) * DotProd(b, n)
      sa2 == Norm2(b) * (Sin2R(r) * Norm2(n) * Norm2(a) - Unit2(r) * DotProd(a, n) * DotProd(a, n))
      sb2 == Norm2(a) * (Sin2R(r) * Norm2(n) * Norm2(b) - Unit2(r) * DotProd(b, n) * DotProd(b, n))
      lhs2_sgn == Sgn(sb2 - sa2)
      cos2_r == CosR(r) * CosR(r)
      lhs3 == cos2_r * (sa2 + sb2) - Unit2(r) * Unit2(r) * rhs2 * rhs2
      result == Sgn(lhs3 * lhs3 - 4 * cos2_r * sa2 * cos2_r * sb2) IN
  IF rhs2 < 0 THEN BackwardSiteExclusion(a, b, x0, x1)
  ELSE IF \/ cos_d < 0 \/ lhs2_sgn = 0 \/ lhs3 < 0 \/ result < 0
          \/ result = 0 /\ (lhs2_sgn > 0) = Less(b, a)
       THEN "NEITHER"
  ELSE IF lhs2_sgn > 0 THEN "FIRST" ELSE "SECOND"

GetVoronoiSiteExclusion(a, b, x0, x1, r) ==
  IF CompareDistances(x1, a, b) < 0 THEN "SECOND" ELSE ExactVoronoiSiteExclusion(a, b, x0, x1, r)
=============================================================================
