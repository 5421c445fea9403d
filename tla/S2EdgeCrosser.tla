----------------------------- MODULE S2EdgeCrosser -----------------------------
(***************************************************************************)
(* S2EdgeCrosser (src/s2/s2edge_crosser.{h,cc}): tests a fixed edge ab     *)
(* against the edges of chains.  It keeps what it found out about the last *)
(* vertex, so that the next edge of the chain costs one orientation test,  *)
(* and the tangents of ab once it needed them.                             *)
(***************************************************************************)
EXTENDS S2Predicates

CONSTANTS Points,      \* the vertices of the edges
          None         \* no point

ASSUME PointsAreVectors == \A p \in Points : IsPoint(p)
ASSUME NoneIsNoPoint == None \notin Points

VARIABLES a_, b_,      \* the edge
          c_,          \* the last vertex of the chain
          acb,         \* acb_: which way a, c, b turn, 0 if it is not known yet
          tangents,    \* have_tangents_, a_tangent_ and b_tangent_
          last         \* the last test: its edge and its result

crosser == <<a_, b_, c_, acb, tangents, last>>

NoTangents == [known |-> FALSE, ta |-> None, tb |-> None]
NoTest == [from |-> None, to |-> None, crossing |-> -1, sign |-> 0]

CrosserInit ==
  /\ a_ \in Points /\ b_ \in Points
  /\ c_ = None /\ acb = 0 /\ tangents = NoTangents /\ last = NoTest

\* Mutant: the tangents of the edge before are kept.
InitEdgeKept(x, y) ==
  /\ a_' = x /\ b_' = y /\ c_' = None /\ last' = NoTest
  /\ UNCHANGED <<acb, tangents>>

\* Init(a, b): another edge, and no chain yet.
InitEdge(x, y) ==
  /\ a_' = x /\ b_' = y /\ c_' = None /\ tangents' = NoTangents /\ last' = NoTest
  /\ UNCHANGED acb

\* RestartAt(x): a new chain.
RestartAt(x) ==
  /\ c_' = x /\ acb' = -TriageSign(a_, b_, x) /\ last' = NoTest
  /\ UNCHANGED <<a_, b_, tangents>>

TangentsOf(p, q) ==
  LET norm == RobustCrossProd(p, q) IN
  [known |-> TRUE, ta |-> CrossProd(p, norm), tb |-> CrossProd(norm, q)]

\* The edge from x to y is beyond the end of ab that t points away from.
Beyond(t, x, y) == DotProd(x, t) > MaxDetError /\ DotProd(y, t) > MaxDetError

\* CrossingSignInternal2: what is left when the filter has not decided.  Gives
\* the result, and acb and bda as far as they are known by then.
CrossingSignInternal(t, x, acb0, y, bda0) ==
  LET acb1 == IF acb0 = 0 THEN -ExpensiveSign(a_, b_, x) ELSE acb0
      bda1 == IF bda0 = 0 THEN ExpensiveSign(a_, b_, y) ELSE bda0 IN
  IF Beyond(t.ta, x, y) \/ Beyond(t.tb, x, y) THEN [crossing |-> -1, bda |-> bda0]
  ELSE IF {a_, b_} \cap {x, y} # {} THEN [crossing |-> 0, bda |-> bda0]
  ELSE IF a_ = b_ \/ x = y THEN [crossing |-> -1, bda |-> bda0]
  ELSE [crossing |-> IF /\ bda1 = acb1
                        /\ -Sign(x, y, b_) = acb1
                        /\ Sign(x, y, a_) = acb1 THEN 1 ELSE -1,
        bda |-> bda1]

\* Mutant: acb is left as it was.
TestKeepsAcb(x, acb0, d) ==
  LET bda == TriageSign(a_, b_, d)
      t == IF tangents.known THEN tangents ELSE TangentsOf(a_, b_)
      r == CrossingSignInternal(t, x, acb0, d, bda) IN
  /\ c_' = d
  /\ UNCHANGED <<a_, b_>>
  /\ IF acb0 = -bda /\ bda # 0
     THEN /\ acb' = -bda
          /\ last' = [from |-> x, to |-> d, crossing |-> -1, sign |-> 0]
          /\ UNCHANGED tangents
     ELSE /\ acb' = acb0
          /\ tangents' = t
          /\ last' = [from |-> x, to |-> d, crossing |-> r.crossing,
                      sign |-> CASE r.crossing = -1 -> 0
                                 [] r.crossing = 1 -> -r.bda
                                 [] OTHER -> SignedVertexCrossing(a_, b_, x, d)]

\* SignedEdgeOrVertexCrossing(d), and with it CrossingSign(d) and
\* EdgeOrVertexCrossing(d), which return a part of it: the edge from x, the
\* vertex the crosser is at, to d, when acb0 is known about x.  Where the edges
\* cross the sign is last_interior_crossing_sign(), which is acb_ by then.
Test(x, acb0, d) ==
  LET bda == TriageSign(a_, b_, d)
      t == IF tangents.known THEN tangents ELSE TangentsOf(a_, b_)
      r == CrossingSignInternal(t, x, acb0, d, bda) IN
  /\ c_' = d
  /\ UNCHANGED <<a_, b_>>
  /\ IF acb0 = -bda /\ bda # 0
     THEN /\ acb' = -bda
          /\ last' = [from |-> x, to |-> d, crossing |-> -1, sign |-> 0]
          /\ UNCHANGED tangents
     ELSE /\ acb' = -r.bda
          /\ tangents' = t
          /\ last' = [from |-> x, to |-> d, crossing |-> r.crossing,
                      sign |-> CASE r.crossing = -1 -> 0
                                 [] r.crossing = 1 -> -r.bda
                                 [] OTHER -> SignedVertexCrossing(a_, b_, x, d)]

\* The next vertex of the chain.
NextVertex(d) == c_ # None /\ Test(c_, acb, d)

\* CrossingSign(x, d): the chain is restarted at x unless it is there.
NextEdge(x, d) ==
  IF c_ = x THEN Test(x, acb, d) ELSE Test(x, -TriageSign(a_, b_, x), d)

CrosserNext ==
  \/ \E x, y \in Points : InitEdge(x, y) \/ NextEdge(x, y)
  \/ \E x \in Points : RestartAt(x) \/ NextVertex(x)

CrosserSpec == CrosserInit /\ [][CrosserNext]_crosser

-----------------------------------------------------------------------------
\* The edges cross, by the orientation of the four triangles alone.
Crosses(x, y) ==
  /\ {a_, b_} \cap {x, y} = {} /\ a_ # b_ /\ x # y
  /\ Sign(a_, x, b_) = Sign(x, b_, y)
  /\ Sign(x, b_, y) = Sign(b_, y, a_)
  /\ Sign(b_, y, a_) = Sign(y, a_, x)

(* What the crosser answers from what it remembers, the chain, its filter and  *)
(* its tangents is what the four orientations say, with the sign of the first *)
(* and with the rule for shared vertices (s2edge_crosser.h).                  *)
CrosserExact ==
  last # NoTest =>
    /\ last.crossing = (IF Crosses(last.from, last.to) THEN 1
                        ELSE IF {a_, b_} \cap {last.from, last.to} # {} THEN 0 ELSE -1)
    /\ last.sign = (IF last.crossing = 1 THEN Sign(a_, b_, last.from)
                    ELSE IF last.crossing = 0
                    THEN SignedVertexCrossing(a_, b_, last.from, last.to) ELSE 0)
=============================================================================
