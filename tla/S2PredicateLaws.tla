------------------------------ MODULE S2PredicateLaws ------------------------------
(***************************************************************************)
(* What the callers of src/s2/s2predicates.cc and                          *)
(* src/s2/s2wedge_relations.cc rely on: although every call looks at three *)
(* or four points only, the answers are together those of one             *)
(* configuration of points in general position.  The points are drawn one  *)
(* after the other.  And although a loop contains a point by counting      *)
(* crossings from a reference point of its own (src/s2/s2loop.cc,          *)
(* s2shapeutil_contains_brute_force.cc), loops that share the sphere out   *)
(* contain every point once: points are looked for in the loops of a       *)
(* partition of the sphere, as loops and as shapes.                        *)
(***************************************************************************)
EXTENDS S2Predicates, SequencesExt

CONSTANT LawPoints      \* the points that are drawn
ASSUME LawPointsArePoints == \A p \in LawPoints : IsPoint(p)

VARIABLE drawn          \* up to five points

LawInit == drawn = << >>

Draw(p) == Len(drawn) < 5 /\ drawn' = Append(drawn, p)

LawNext == \E p \in LawPoints : Draw(p)

LawSpec == LawInit /\ [][LawNext]_drawn

-----------------------------------------------------------------------------
(* Sign is antisymmetric, and zero only for equal points; of five points, the *)
(* signs of the triangles at the first one obey the three-term Grassmann-     *)
(* Pluecker relation: some points without three on a great circle have them   *)
(* (s2predicates.cc: never "an impossible configuration").                    *)
SignsRealizable ==
  LET o == drawn[1]
      p(i) == drawn[i + 1]
      terms == { Sign(o, p(1), p(2)) * Sign(o, p(3), p(4)),
                 -Sign(o, p(1), p(3)) * Sign(o, p(2), p(4)),
                 Sign(o, p(1), p(4)) * Sign(o, p(2), p(3)) } IN
  Len(drawn) = 5 =>
    /\ Sign(o, p(1), p(2)) = 0 <=> Cardinality({o, p(1), p(2)}) < 3
    /\ Sign(o, p(1), p(2)) = Sign(p(1), p(2), o)
    /\ Sign(o, p(1), p(2)) = -Sign(p(1), o, p(2))
    /\ Cardinality(ToSet(drawn)) = 5 => {-1, 1} \subseteq terms

\* The directions at o between a direction and the next one, that lie in the
\* wedge left of x, o, y: those counterclockwise from y up to x.
Between(o, x, y, dirs) == { d \in dirs : d # x /\ OrderedCCW(y, d, x, o) }

(* The relation of two wedges is the relation of the sets of directions in    *)
(* them, and WedgeContains and WedgeIntersects say the same of those sets     *)
(* (s2wedge_relations.cc takes "the most specific" when edges overlap).       *)
WedgesMatch ==
  LET o == drawn[1]
      a0 == drawn[2]
      a2 == drawn[3]
      b0 == drawn[4]
      b2 == drawn[5]
      dirs == {a0, a2, b0, b2}
      wa == Between(o, a0, a2, dirs)
      wb == Between(o, b0, b2, dirs) IN
  Len(drawn) = 5 /\ o \notin dirs /\ a0 # a2 /\ b0 # b2 =>
    /\ GetWedgeRelation(a0, o, a2, b0, b2)
         = (CASE wa = wb -> "equals"
              [] wa # wb /\ wb \subseteq wa -> "properly_contains"
              [] wa # wb /\ wa \subseteq wb -> "is_properly_contained"
              [] wa \cap wb = {} -> "is_disjoint"
              [] OTHER -> "properly_overlaps")
    /\ WedgeContains(a0, o, a2, b0, b2) = (wb \subseteq wa)
    /\ WedgeIntersects(a0, o, a2, b0, b2) = (wa \cap wb # {})

(* Seen from one point all others stand in one order of distance, without     *)
(* ties and without cycles, however the distances compare exactly.            *)
DistancesOrdered ==
  LET x == drawn[1]
      Before(p, q) == CompareDistances(x, p, q) < 0 IN
  Len(drawn) = 4 =>
    \A i, j, k \in 2 .. 4 :
      /\ drawn[i] # drawn[j] => Before(drawn[i], drawn[j]) # Before(drawn[j], drawn[i])
      /\ Before(drawn[i], drawn[j]) /\ Before(drawn[j], drawn[k])
           => Before(drawn[i], drawn[k])

-----------------------------------------------------------------------------
(***************************************************************************)
(* What S2Builder and the queries rely on from S2DistancePredicates: the   *)
(* predicates, each squared and case-split in its own way, answer as one   *)
(* geometry in which the points they speak of are written down.            *)
(***************************************************************************)

CONSTANT Radii          \* chord angles

Antipodal(a, b) == CrossProd(a, b) = << 0, 0, 0 >> /\ DotProd(a, b) < 0
Scaled(k, p) == << k * p[1], k * p[2], k * p[3] >>

\* Points of the edge a0, a1, the endpoints among them.
OnEdge(a0, a1) == {a0, a1, Plus(a0, a1), Plus(Scaled(2, a0), a1), Plus(a0, Scaled(2, a1))}

\* The point of the line through a0, a1 that is closest to x, if it is inside.
ClosestInside(x, a0, a1) ==
  LET n == CrossProd(a0, a1)
      p == Plus(Scaled(Norm2(n), x), Scaled(-DotProd(x, n), n)) IN
  { q \in {p} : DotProd(CrossProd(n, a0), q) > 0 /\ DotProd(CrossProd(n, a1), q) < 0 }

LeastSign(S) == CHOOSE s \in S : \A t \in S : s <= t

(* CompareEdgeDistance compares the limit with the closest point of the edge  *)
(* itself, wherever x projects (s2predicates.cc decides that by directions    *)
(* and squares sines or cosines by the size of the limit), and two edges are  *)
(* never said to be further apart than points of theirs are.                  *)
EdgeDistancesExact ==
  /\ Len(drawn) = 3 /\ ~Antipodal(drawn[2], drawn[3]) =>
       LET x == drawn[1]
           a0 == drawn[2]
           a1 == drawn[3]
           closest == {a0, a1} \cup ClosestInside(x, a0, a1) IN
       \A r \in Radii :
         CompareEdgeDistance(x, a0, a1, r) = LeastSign({ExactCompareDistance(x, p, r) : p \in closest})
  /\ Len(drawn) = 4 /\ ~Antipodal(drawn[1], drawn[2]) /\ ~Antipodal(drawn[3], drawn[4]) =>
       \A r \in Radii, p \in OnEdge(drawn[1], drawn[2]), q \in OnEdge(drawn[3], drawn[4]) :
         CompareEdgePairDistance(drawn[1], drawn[2], drawn[3], drawn[4], r)
           <= ExactCompareDistance(p, q, r)

(* EdgeCircumcenterSign places the point equidistant from a, b and c on one   *)
(* side of the edge: on the side where that point is when it is simple to     *)
(* write down (sites of one length), on the same side in whatever order the   *)
(* sites come and on the other side of the reversed edge, and it never says   *)
(* "neither" of distinct sites and a proper edge (the comment in              *)
(* SymbolicEdgeCircumcenterSign).                                             *)
CircumcentersPlaced ==
  LET x0 == drawn[1]
      x1 == drawn[2]
      a == drawn[3]
      b == drawn[4]
      c == drawn[5]
      abc == Sign(a, b, c)
      z == Plus(CrossProd(a, b), Plus(CrossProd(b, c), CrossProd(c, a)))
      side == EdgeCircumcenterSign(x0, x1, a, b, c) IN
  Len(drawn) = 5 /\ ~Antipodal(x0, x1) =>
    /\ side = EdgeCircumcenterSign(x0, x1, b, c, a)
    /\ side = EdgeCircumcenterSign(x0, x1, b, a, c)
    /\ side = -EdgeCircumcenterSign(x1, x0, a, b, c)
    /\ side = 0 <=> Cardinality({a, b, c}) < 3 \/ CrossProd(x0, x1) = << 0, 0, 0 >>
    /\ ExactEdgeCircumcenterSign(x0, x1, Scaled(2, a), b, c, abc)
         = ExactEdgeCircumcenterSign(x0, x1, a, b, c, abc)
    /\ Norm2(a) = Norm2(b) /\ Norm2(b) = Norm2(c)
         => ExactEdgeCircumcenterSign(x0, x1, a, b, c, abc)
              = abc * Sgn(DotProd(CrossProd(x0, x1), z))

(* A site is excluded only if the other site is closer to every point of the  *)
(* edge within r of it, and walking the edge the other way excludes the same  *)
(* site (GetVoronoiSiteExclusion is asked once, in the direction of the edge).*)
ExclusionSound ==
  LET a == drawn[1]
      b == drawn[2]
      x0 == drawn[3]
      x1 == drawn[4]
      points == OnEdge(x0, x1)
      Closer(p, q, r) ==      \* q is closer to whatever is within r of p
        \A z \in points : ExactCompareDistance(z, p, r) <= 0 => CompareDistances(z, q, p) < 0 IN
  Len(drawn) = 4 /\ ~Antipodal(x0, x1) /\ CompareDistances(x0, a, b) < 0 =>
    \A r \in { s \in Radii : ~AtLeastRight(s) } :
      CompareEdgeDistance(a, x0, x1, r) <= 0 /\ CompareEdgeDistance(b, x0, x1, r) <= 0 =>
        LET result == GetVoronoiSiteExclusion(a, b, x0, x1, r) IN
        /\ result = "FIRST" => Closer(a, b, r)
        /\ result = "SECOND" => Closer(b, a, r)
        /\ CompareDistances(x1, b, a) < 0 =>
             GetVoronoiSiteExclusion(b, a, x1, x0, r)
               = (CASE result = "FIRST" -> "SECOND" [] result = "SECOND" -> "FIRST"
                    [] OTHER -> "NEITHER")

(* The side of a great circle, and the order, of the points where edges cross *)
(* another circle are those of the crossing points themselves; the order is   *)
(* stated where the two products are of one length, which the code takes for  *)
(* granted.                                                                   *)
CrossingsPlaced ==
  LET a == drawn[1]
      b == drawn[2]
      c == drawn[3]
      m == drawn[4]
      n == drawn[5]
      ab == CrossProd(CrossProd(a, b), m)
      cb == CrossProd(CrossProd(c, b), m) IN
  Len(drawn) = 5 /\ m # n /\ a # b /\ c # b =>
    /\ CircleEdgeIntersectionSign(a, b, m, n) = SignDotProd(ab, n)
    /\ Norm2(ab) = Norm2(cb) =>
         CircleEdgeIntersectionOrdering(a, b, c, b, m, n) = Sgn(DotProd(ab, n) - DotProd(cb, n))

\* Equal, opposite and collinear points included, the answers of Sign, of the
\* wedge relations and of CompareDistances are together those of one
\* configuration of points in general position.
PredicatesConsistent ==
  /\ SignsRealizable
  /\ WedgesMatch
  /\ DistancesOrdered

\* The predicates on distances, circumcentres, Voronoi sites and crossings of
\* circles, each squared and split into cases in its own way, say what the
\* points they are about say when these are written down.
DistancesExact ==
  /\ EdgeDistancesExact
  /\ CircumcentersPlaced
  /\ ExclusionSound
  /\ CrossingsPlaced

-----------------------------------------------------------------------------
(* Containment.                                                              *)

CONSTANTS Partitions,      \* the partitions of the sphere that are asked about
          TestPoints       \* the points that are asked about

VARIABLES regions,         \* the loops
          asked,           \* the points asked about so far
          byLoop,          \* for every one the loops that contain it,
          byShape          \* and the same as shapes

containment == <<regions, asked, byLoop, byShape>>

ContainmentInit ==
  /\ regions \in Partitions
  /\ asked = {} /\ byLoop = << >> /\ byShape = << >>

\* One point is looked for in every region.
Find(p) ==
  /\ asked' = {p}
  /\ byLoop' = { v \in ToSet(regions) : BruteForceContains(v, p) }
  /\ byShape' = { v \in ToSet(regions) : ContainsBruteForce(<< v >>, p) }
  /\ UNCHANGED regions

ContainmentNext == asked = {} /\ \E p \in TestPoints : Find(p)

(* The boundary model: when loops share the sphere out between them, every   *)
(* point is in exactly one of them, on an edge or at a vertex too, and the   *)
(* two ways to find out agree (s2contains_vertex_query.h: "exactly one of    *)
(* those polygons contains that vertex").                                    *)
InExactlyOne == asked # {} => Cardinality(byLoop) = 1 /\ byShape = byLoop

(* The reference point a shape chooses decides nothing: joined to one shape, *)
(* any two of several regions contain what one of them contains.             *)
JoinedContains ==
  asked # {} /\ Len(regions) > 2 =>
    \A i, j \in DOMAIN regions : i # j =>
      \A p \in asked : ContainsBruteForce(<< regions[i], regions[j] >>, p)
                         = (byLoop \cap {regions[i], regions[j]} # {})

\* Points on edges and at vertices included, every point is in exactly one of
\* the loops that share out the sphere, whichever reference point the code
\* counts crossings from.
ContainmentExact ==
  /\ InExactlyOne
  /\ JoinedContains
=============================================================================
