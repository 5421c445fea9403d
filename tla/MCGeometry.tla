------------------------------ MODULE MCGeometry ------------------------------
(* The predicates on points and the geometry made with them, each part in     *)
(* runs of its own: active says which.                                        *)
(*   "laws": up to five points, equal, opposite, collinear with each other    *)
(*     and with the centre;                                                   *)
(*   "crosser": chains over seven points, three of them on one great circle;  *)
(*   "containment": an octahedron, a cube and pairs of complementary loops,   *)
(*     asked about their vertices, points on their edges and inside them;     *)
(*   "loops": polygons made of up to three nested and touching loops;         *)
(*   "operations": boolean operations on two regions.                         *)
EXTENDS S2PredicateLaws, S2EdgeCrosser, S2BooleanOperation, S2PolygonNesting

CONSTANT Parts          \* the parts that run

VARIABLE active

(* Points and chains of them.                                                 *)

MCLawPoints == { <<1, 0, 0>>, <<0, 1, 0>>, <<1, 1, 0>>, <<-1, -1, 0>>, <<0, 0, 1>>,
                 <<1, 1, 1>>, <<-1, -2, 0>> }
MCRadii == { <<0, 1>>, <<1, 2>>, <<1, 1>>, <<3, 2>>, <<2, 1>>, <<3, 1>> }

MCCrosserPoints ==
  { <<1, 0, 0>>, <<0, 1, 0>>, <<0, 0, 1>>, <<1, 1, 0>>, <<-1, -1, 0>>, <<0, -1, -1>>, <<-2, 1, 3>> }

(* The faces of an octahedron and of a cube, and simple loops with their      *)
(* complements.                                                               *)

LOCAL X == <<1, 0, 0>>
LOCAL Y == <<0, 1, 0>>
LOCAL Z == <<0, 0, 1>>

LOCAL Octahedron ==
  << <<X, Y, Z>>, <<Y, Minus(X), Z>>, <<Minus(X), Minus(Y), Z>>, <<Minus(Y), X, Z>>,
     <<Y, X, Minus(Z)>>, <<Minus(X), Y, Minus(Z)>>, <<Minus(Y), Minus(X), Minus(Z)>>,
     <<X, Minus(Y), Minus(Z)>> >>

LOCAL Corner(k, z) == << <<1, 1, z>>, <<-1, 1, z>>, <<-1, -1, z>>, <<1, -1, z>> >>[k]
LOCAL Cube ==
  << [k \in 1 .. 4 |-> Corner(k, 1)], [k \in 1 .. 4 |-> Corner(5 - k, -1)] >>
  \o [k \in 1 .. 4 |-> LET n == (k % 4) + 1
                       IN  <<Corner(k, 1), Corner(k, -1), Corner(n, -1), Corner(n, 1)>>]

LOCAL SimpleLoop(v) ==
  LET e == EdgesOf(v)
  IN  \A i, j \in DOMAIN v : i # j =>
        /\ v[i] # v[j] /\ e[i][1] # Minus(e[i][2])
        /\ CrossingSign(e[i][1], e[i][2], e[j][1], e[j][2]) < 1

LOCAL LoopsFrom(first, points) ==
  { v \in [1 .. 3 -> points] \cup [1 .. 4 -> points] : v[1] = first /\ SimpleLoop(v) }

MCPartitions ==
  {Octahedron, Cube}
  \cup { <<v, Reverse(v)>> :
         v \in LoopsFrom(X, {X, Y, Z, <<1, 1, 0>>, <<-1, -1, 0>>, <<0, -1, 1>>, <<-1, 1, 1>>}) }

LOCAL Signs == {-1, 0, 1}
MCTestPoints == ((Signs \X Signs \X Signs) \ {<<0, 0, 0>>}) \cup {<<2, 1, 0>>, <<1, 2, 3>>}

(* Nested triangles around the pole, the hemisphere among them, and triangles *)
(* that touch them at vertices from inside and from outside, all in both      *)
(* directions.                                                                *)

MCLoopPool ==
  LET loops == { << <<3, 0, 1>>, <<-2, 3, 1>>, <<-2, -3, 1>> >>,
                 << <<1, 0, 0>>, <<-1, 2, 0>>, <<-1, -2, 0>> >>,
                 << <<3, 0, -2>>, <<-2, 3, -2>>, <<-2, -3, -2>> >>,
                 << <<3, 0, 1>>, <<2, -1, 4>>, <<2, 1, 4>> >>,
                 << <<-2, 3, 1>>, <<0, 4, -1>>, <<-3, 3, -1>> >> }
  IN  loops \cup { Reverse(v) : v \in loops }

MCNestingProbes ==
  LET half == { <<0, 0, 1>>, <<5, 0, 9>>, <<-1, 0, 2>>, <<2, 0, 1>>, <<-1, 1, 1>>, <<-1, 7, 1>>,
                <<-5, 10, -1>>, <<5, 1, -1>>, <<7, 0, 3>>, <<-3, 4, 0>> }
  IN  half \cup { Minus(p) : p \in half }

(* Points, polylines and polygons on four vertices around the pole and one on *)
(* the other side: empty and full, neighbours with a common edge, one inside  *)
(* the other, complements, degenerate shells and holes, closed and degenerate *)
(* polylines.                                                                 *)

LOCAL P0 == <<1, 0, 9>>
LOCAL P1 == <<5, 1, 4>>
LOCAL P2 == <<-2, 5, 4>>
LOCAL P3 == <<-3, -5, 4>>
LOCAL P4 == <<1, 2, -9>>

LOCAL Shape(d, chains) == [dimension |-> d, chains |-> chains]
LOCAL Big == <<P1, P2, P3>>
LOCAL East == <<P0, P1, P2>>
LOCAL West == <<P0, P2, P3>>

LOCAL Polygons ==
  { << >>, << << >> >>, <<East>>, <<West>>, <<Big>>, <<Reverse(East)>>, <<Reverse(Big)>>,
    << <<P1, P2, P3, P0>> >>, <<East, West>>, << <<P0>> >>, << <<P4>> >>, <<Big, <<P0>> >>,
    << <<P0, P1>> >>, <<Big, <<P0, P1>> >>, << <<P1>> >>, << <<P1, P2>> >> }
LOCAL Polylines ==
  { <<P2, P1>>, <<P1, P2, P3>>, <<P1, P2, P3, P1>>, <<P0, P1>>, <<P2, P0, P3>>,
    <<P0, P0>>, <<P1, P1>> }

MCRegions ==
  { <<Shape(2, loops)>> : loops \in Polygons } \cup { <<Shape(1, <<line>>)>> : line \in Polylines }
  \cup { <<Shape(0, << <<p>> >>)>> : p \in {P0, P1} }
  \cup { <<Shape(0, << <<P0>>, <<P4>> >>), Shape(1, << <<P0, P1, P2>> >>), Shape(2, <<West>>)>>,
         <<Shape(1, << <<P1, P0>> >>), Shape(1, << <<P0, P2>> >>)>> }

MCInputs == MCRegions \X MCRegions

LOCAL Boundaries == {"OPEN", "SEMI_OPEN", "CLOSED"}
MCModels == [polygon_model : Boundaries, polyline_model : Boundaries,
             loops_have_boundaries : BOOLEAN]
MCClosedPolylines == { m \in MCModels : m.polyline_model = "CLOSED" /\ ~m.loops_have_boundaries }

MCProbes == { <<2, 4, 11>>, <<-4, 0, 12>>, <<3, -3, 12>>, <<1, 1, -9>>,
              <<9, 0, -2>>, <<0, 9, -2>>, <<-9, 0, -2>>, <<1, -9, -2>> }

-----------------------------------------------------------------------------
NoCrosser == /\ a_ = None /\ b_ = None /\ c_ = None /\ acb = 0
             /\ tangents = NoTangents /\ last = NoTest
NoContainment == regions = << >> /\ asked = {} /\ byLoop = << >> /\ byShape = << >>
NoOperation ==
  /\ region_a = CHOOSE r \in Regions : TRUE
  /\ region_b = region_a /\ op_type = "none"
  /\ opt = CHOOSE m \in Models : TRUE
  /\ result = << >> /\ result_empty = "unknown"

MCInit ==
  /\ active \in Parts /\ LawInit /\ NestingInit
  /\ IF active = "crosser" THEN CrosserInit ELSE NoCrosser
  /\ IF active = "containment" THEN ContainmentInit ELSE NoContainment
  /\ IF active = "operations" THEN OpInit ELSE NoOperation

PointsNext ==
  /\ UNCHANGED <<op_vars, nesting>>
  /\ \/ active = "laws" /\ LawNext /\ UNCHANGED <<crosser, containment>>
     \/ active = "crosser" /\ CrosserNext /\ UNCHANGED <<drawn, containment>>
     \/ active = "containment" /\ ContainmentNext /\ UNCHANGED <<drawn, crosser>>

PolygonsNext ==
  /\ UNCHANGED <<drawn, crosser, containment>>
  /\ \/ active = "loops" /\ NestingNext /\ UNCHANGED op_vars
     \/ active = "operations" /\ OpNext /\ UNCHANGED nesting

MCNext == UNCHANGED active /\ (PointsNext \/ PolygonsNext)

MCSpec == MCInit /\ [][MCNext]_<<active, drawn, crosser, containment, op_vars, nesting>>
=============================================================================
