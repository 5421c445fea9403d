--------------------------- MODULE S2BuilderSnapping ---------------------------
(***************************************************************************)
(* How S2Builder::Build (src/s2/s2builder.cc) chooses the sites that the   *)
(* input vertices move to and snaps every input edge to a chain of sites.  *)
(*                                                                         *)
(* The sphere is a plane here, as it is where IntLatLngSnapFunction        *)
(* derives its bounds, and SnapPoint rounds to multiples of opt.unit.  A   *)
(* point is << x, y >> with integer coordinates and a distance d limits    *)
(* through its square, the fraction << p, q >>.  An edge moves by no more  *)
(* than its ends in the plane, so the extra sites that keep long edges     *)
(* within max_edge_deviation never arise; the memory tracker is left out.  *)
(***************************************************************************)
EXTENDS S2Predicates, SequencesExt

CONSTANTS InputEdges,     \* the edges a client may add
          MaxInputEdges,
          ForcedVertices, \* the vertices it may force, at most one of them
          AllOptions      \* S2Builder::Options and what Init computes from them

VARIABLES opt,
          input_edges,    \* pairs of points, in the order of AddEdge
          sites,          \* sites_, the forced ones first
          num_forced,     \* num_forced_sites_
          edge_sites,     \* edge_sites_: the numbers of the sites near each edge
          needed,         \* snapping_needed_
          vertices,       \* input_vertices_, as a set
          to_snap,        \* edges of this pass that are still to be snapped
          to_resnap,      \* edges_to_resnap
          phase

snap_vars == <<opt, input_edges, sites, num_forced, edge_sites, needed, vertices, to_snap,
               to_resnap, phase>>

-----------------------------------------------------------------------------
(* The plane: the predicates of s2pred, with the same ties *)

Lift(p) == << p[1], p[2], 1 >>
PlanarSign(a, b, c) == Sign(Lift(a), Lift(b), Lift(c))
Diff(p, q) == << q[1] - p[1], q[2] - p[2] >>
Dot(u, v) == u[1] * v[1] + u[2] * v[2]
Cross(u, v) == u[1] * v[2] - u[2] * v[1]
Dist2(p, q) == Dot(Diff(p, q), Diff(p, q))
Before(p, q) == p[1] < q[1] \/ (p[1] = q[1] /\ p[2] < q[2])

CompareToLimit(p, q, r) == Sgn(Dist2(p, q) * r[2] - r[1])
CloserTo(x, p, q) ==        \* CompareDistances
  LET d == Sgn(Dist2(x, p) - Dist2(x, q)) IN
  IF p = q THEN 0 ELSE IF d # 0 THEN d ELSE IF Before(p, q) THEN 1 ELSE -1
EdgeToLimit(p, a, b, r) ==  \* CompareEdgeDistance
  LET ab == Diff(a, b)
      at == Dot(Diff(a, p), ab)
      c == Cross(ab, Diff(a, p)) IN
  IF at <= 0 THEN CompareToLimit(p, a, r)
  ELSE IF at >= Dot(ab, ab) THEN CompareToLimit(p, b, r)
  ELSE Sgn(c * c * r[2] - r[1] * Dot(ab, ab))

\* The square of half the coverage interval of site p on the line x, y, in
\* the units that positions along the line have.
Coverage(p, x, y, r) ==
  LET xy == Diff(x, y)
      c == Cross(xy, Diff(x, p)) IN
  r[1] * Dot(xy, xy) - r[2] * c * c

\* One of the intervals has the other inside: sb and sc are their squared halves
\* and room compares them with the distance of their middles.
Excluded(sb, sc, room, secondBefore) ==
  LET inside == room * room - 4 * sb * sc IN
  IF \/ sb = sc
     \/ room < 0
     \/ inside < 0
     \/ (inside = 0 /\ (sc > sb) = secondBefore)
  THEN "NEITHER"
  ELSE IF sc > sb THEN "FIRST" ELSE "SECOND"

ExcludedBy(sb, sc, d, r, secondBefore) ==
  Excluded(sb, sc, sb + sc - r[2] * d * d, secondBefore)

\* GetVoronoiSiteExclusion: the interval of one site within that of the other.
SiteExclusion(b, c, x, y, r) ==
  IF CloserTo(y, b, c) < 0 THEN "SECOND"
  ELSE ExcludedBy(Coverage(b, x, y, r), Coverage(c, x, y, r), Dot(Diff(x, y), Diff(b, c)), r,
                  Before(c, b))

SideOf(xy, x, p) == Sgn(Cross(xy, Diff(x, p)))

\* The first of the sorted points that is not on the line tells.
FirstSide(xy, x, sorted) ==
  IF SideOf(xy, x, sorted[1]) # 0 THEN SideOf(xy, x, sorted[1])
  ELSE IF SideOf(xy, x, sorted[2]) # 0 THEN SideOf(xy, x, sorted[2])
  ELSE SideOf(xy, x, sorted[3])

\* Where the circumcenter is, from x, times det.
CircumcenterFrom(x, a, ab, ac, det) ==
  << ac[2] * Dot(ab, ab) - ab[2] * Dot(ac, ac) + det * (a[1] - x[1]),
     ab[1] * Dot(ac, ac) - ac[1] * Dot(ab, ab) + det * (a[2] - x[2]) >>

\* EdgeCircumcenterSign: on which side of x, y the circumcenter of a, b, c is.
CircumcenterSign(x, y, a, b, c) ==
  LET exact == PlanarSign(a, b, c)
                 * Sgn(Cross(Diff(x, y), CircumcenterFrom(x, a, Diff(a, b), Diff(a, c),
                                                          2 * Cross(Diff(a, b), Diff(a, c))))) IN
  IF exact # 0 THEN exact ELSE FirstSide(Diff(x, y), x, SortSeq(<< a, b, c >>, Before))

Crosses(e, f) ==
  LET Side(g, p) == Sgn(Cross(Diff(g[1], g[2]), Diff(g[1], p))) IN
  Side(e, f[1]) * Side(e, f[2]) < 0 /\ Side(f, e[1]) * Side(f, e[2]) < 0

Rounded(num, den) == (2 * num + den) \div (2 * den)

\* The intersection of the edges e and f, within intersection_tolerance of it.
GetIntersection(e, f) ==
  LET d == Diff(e[1], e[2])
      g == Diff(f[1], f[2])
      t == Cross(Diff(e[1], f[1]), g)
      den == Cross(d, g) IN
  [i \in 1 .. 2 |-> IF den > 0 THEN Rounded(e[1][i] * den + d[i] * t, den)
                    ELSE Rounded(-(e[1][i] * den + d[i] * t), -den)]

-----------------------------------------------------------------------------
(* ChooseSites *)

\* SnapSite of the point << num[1] / den, num[2] / den >>.
SnapSite(num, den, o) == [i \in 1 .. 2 |-> o.unit * Rounded(num[i], den * o.unit)]

AddEdgeCrossings(edges) ==
  { GetIntersection(edges[i], edges[j]) :
      << i, j >> \in { p \in (DOMAIN edges) \X (DOMAIN edges) :
                         p[1] < p[2] /\ Crosses(edges[p[1]], edges[p[2]]) } }

Listed(set) == FoldSet(LAMBDA x, seq : Append(seq, x), << >>, set)
Sorted(set, Op(_, _)) == SortSeq(Listed(set), Op)
SortInputVertices(points) == Sorted(points, Before)

ChooseInitialSites(forced, points, o) ==
  LET Add(acc, v) ==
        LET site == SnapSite(v, 1, o)
            near == { s \in ToSet(acc.sites) : CompareToLimit(site, s, o.min_vertex) <= 0 } IN
        [sites |-> IF near = {} THEN Append(acc.sites, site) ELSE acc.sites,
         needed |-> acc.needed \/ site # v \/ near \ {site} # {}] IN
  FoldLeft(Add, [sites |-> forced, needed |-> FALSE], SortInputVertices(points))

ChooseAllVerticesAsSites(points) == SortInputVertices(points)

SortSitesByDistance(ids, all, x) ==
  Sorted(ids, LAMBDA i, j : CloserTo(x, all[i], all[j]) < 0)

CollectSiteEdges(edges, all, o) ==
  [e \in DOMAIN edges |->
    SortSitesByDistance({ i \in DOMAIN all :
                            EdgeToLimit(all[i], edges[e][1], edges[e][2], o.query) <= 0 },
                        all, edges[e][1])]

\* Some site is too close to an edge for the input to be an output.
EdgeNeedsSnapping(edges, all, o) ==
  \E e \in DOMAIN edges, s \in ToSet(all) :
    s \notin ToSet(edges[e]) /\ EdgeToLimit(s, edges[e][1], edges[e][2], o.min_edge) < 0

-----------------------------------------------------------------------------
(* SnapEdge *)

\* What becomes of the last site of the chain when site c comes: it goes
\* ("pop"), c goes ("drop"), or both stay ("keep").
Verdict(chain, c, all, x, y, o) ==
  LET b == all[Last(chain)]
      a == all[chain[Len(chain) - 1]] IN
  IF CompareToLimit(b, all[c], o.adjacent) >= 0 THEN "keep"
  ELSE CASE SiteExclusion(b, all[c], x, y, o.edge_radius) = "FIRST" -> "pop"
         [] SiteExclusion(b, all[c], x, y, o.edge_radius) = "SECOND" -> "drop"
         [] OTHER ->
            IF \/ Len(chain) < 2
               \/ CompareToLimit(a, all[c], o.adjacent) >= 0
               \/ PlanarSign(a, b, all[c]) = PlanarSign(x, y, b)
               \/ CircumcenterSign(x, y, a, b, all[c]) # PlanarSign(x, y, b)
            THEN "keep" ELSE "pop"

\* The sites that c takes away go, from the last one on.
RECURSIVE AddSite(_, _, _, _, _, _)
AddSite(chain, c, all, x, y, o) ==
  IF chain = << >> THEN << c >>
  ELSE LET verdict == Verdict(chain, c, all, x, y, o) IN
       CASE verdict = "pop" -> AddSite(Front(chain), c, all, x, y, o)
         [] verdict = "drop" -> chain
         [] verdict = "keep" -> Append(chain, c)

SnapEdge(edge, near, all, snapping, o) ==
  LET x == edge[1]
      y == edge[2]
      Number(p) == CHOOSE i \in DOMAIN all : all[i] = p
      close == SelectSeq(near, LAMBDA c : EdgeToLimit(all[c], x, y, o.edge_radius) <= 0) IN
  IF ~snapping THEN << Number(x), Number(y) >>
  ELSE FoldLeft(LAMBDA chain, c : AddSite(chain, c, all, x, y, o), << >>, close)

-----------------------------------------------------------------------------
(* AddExtraSites *)

\* The whole part of the square root of n, at least 0.
Within(n, lo, hi) == IF n < lo THEN lo ELSE IF n > hi THEN hi ELSE n
Root(n) == IF n <= 0 THEN 0 ELSE CHOOSE k \in 0 .. n : k * k <= n /\ (k + 1) * (k + 1) > n

\* GetCoverageEndpoint: where along x, y the coverage of site v ends, in the
\* direction dir, in the units of Dot with xy.
GetCoverageEndpoint(v, x, y, dir, o) ==
  Dot(Diff(x, v), Diff(x, y)) + dir * Root(Coverage(v, x, y, o.edge_radius) \div o.edge_radius[2])

\* The point of the edge closest to the site to avoid, kept within the gap
\* between the coverage of v0 and of v1, and snapped.
GetSeparationSite(avoid, v0, v1, x, y, o) ==
  LET xy == Diff(x, y)
      length2 == Dot(xy, xy)
      at == Within(Dot(Diff(x, avoid), xy), 0, length2)
      gap_min == GetCoverageEndpoint(v0, x, y, 1, o)
      gap_max == GetCoverageEndpoint(v1, x, y, -1, o)
      pos == Within(at, gap_min, gap_max) IN
  SnapSite([i \in 1 .. 2 |-> x[i] * length2 + xy[i] * pos], length2, o)

\* AddExtraSite: the site joins the sites of all edges near it, which are to
\* be snapped again.
AddExtraSite(st, site) ==
  LET all == Append(st.sites, site)
      near == { f \in DOMAIN input_edges :
                  EdgeToLimit(site, input_edges[f][1], input_edges[f][2], opt.query) <= 0 } IN
  [sites |-> all,
   edge_sites |-> [f \in DOMAIN input_edges |->
      IF f \in near
      THEN SortSitesByDistance(ToSet(st.edge_sites[f]) \cup {Len(all)}, all, input_edges[f][1])
      ELSE st.edge_sites[f]],
   resnap |-> st.resnap \cup near]

\* Site s lies between v0 and v1 along the edge, and they pass it on the
\* other side than the edge does.
WrongSide(s, v0, v1, a0, a1) ==
  LET along == Diff(a0, a1)
      Ahead(p, q) == Dot(along, Diff(p, q)) > 0 IN
  /\ PlanarSign(a0, a1, s) # PlanarSign(v0, v1, s)
  /\ Ahead(a0, s) /\ Ahead(s, a1) /\ Ahead(v0, s) /\ Ahead(s, v1)

\* Mutant: only the side is looked at.
MustAvoidBySide(s, forced, v0, v1, a0, a1) ==
  (forced \/ opt.check_all_site_crossings) /\ WrongSide(s, v0, v1, a0, a1)
MustAvoid(s, forced, v0, v1, a0, a1) ==
  \/ ~forced /\ EdgeToLimit(s, v0, v1, opt.min_edge) < 0
  \/ (forced \/ opt.check_all_site_crossings) /\ WrongSide(s, v0, v1, a0, a1)

\* MaybeAddExtraSites: the sites near edge e that lie between two sites of its
\* chain; the first of them that is too close calls for a new site.
MaybeAddExtraSites(st0, e, chain) ==
  LET a0 == input_edges[e][1]
      a1 == input_edges[e][2]
      At(near, id) == CHOOSE j \in DOMAIN near : near[j] = id
      Scan(st, i) ==
        LET near == st.edge_sites[e]
            v0 == st.sites[chain[i - 1]]
            v1 == st.sites[chain[i]]
            too_close == { j \in At(near, chain[i - 1]) + 1 .. At(near, chain[i]) - 1 :
                             MustAvoid(st.sites[near[j]], near[j] <= num_forced, v0, v1, a0, a1) } IN
        IF too_close = {} THEN st
        ELSE AddExtraSite(st, GetSeparationSite(st.sites[near[Min(too_close)]], v0, v1, a0, a1, opt))
  IN  FoldLeft(Scan, st0, [i \in 1 .. Len(chain) - 1 |-> i + 1])

-----------------------------------------------------------------------------
Init ==
  /\ opt \in AllOptions
  /\ input_edges = << >> /\ sites = << >> /\ num_forced = 0 /\ edge_sites = << >>
  /\ needed = FALSE /\ vertices = {} /\ to_snap = {} /\ to_resnap = {} /\ phase = "input"

AddEdge(e) ==
  /\ phase = "input" /\ Len(input_edges) < MaxInputEdges
  /\ input_edges' = Append(input_edges, e)
  /\ UNCHANGED <<opt, sites, num_forced, edge_sites, needed, vertices, to_snap, to_resnap, phase>>

ForceVertex(v) ==
  /\ phase = "input" /\ sites = << >>
  /\ sites' = << v >>
  /\ UNCHANGED <<opt, input_edges, num_forced, edge_sites, needed, vertices, to_snap, to_resnap,
                 phase>>

\* Build as far as the first look at the edges.
ChooseSites ==
  /\ phase = "input" /\ input_edges # << >>
  /\ LET ends == UNION { ToSet(e) : e \in ToSet(input_edges) }
         crossings == IF opt.split_crossing_edges THEN AddEdgeCrossings(input_edges) ELSE {}
         points == ends \cup crossings
         chosen == ChooseInitialSites(sites, points, opt)
         need == \/ ~opt.idempotent \/ crossings # {} \/ chosen.needed
                 \/ EdgeNeedsSnapping(input_edges, chosen.sites, opt) IN
     /\ vertices' = points
     /\ num_forced' = Len(sites)
     /\ needed' = need
     /\ sites' = IF need THEN chosen.sites ELSE ChooseAllVerticesAsSites(points)
     /\ edge_sites' = CollectSiteEdges(input_edges, chosen.sites, opt)
     /\ phase' = IF need THEN "first" ELSE "done"
     /\ to_snap' = IF need THEN DOMAIN input_edges ELSE {}
  /\ UNCHANGED <<opt, input_edges, to_resnap>>

\* After the last edge of a pass the ones to be snapped again come next.
Checked(e, st) ==
  /\ sites' = st.sites
  /\ edge_sites' = st.edge_sites
  /\ IF to_snap = {e} THEN to_snap' = st.resnap /\ to_resnap' = {}
     ELSE to_snap' = to_snap \ {e} /\ to_resnap' = st.resnap
  /\ phase' = IF to_snap # {e} THEN phase ELSE IF st.resnap = {} THEN "done" ELSE "again"

\* CheckEdge: the first pass takes the edges in order, the later ones in the
\* order of a hash set.
CheckEdge(e) ==
  /\ phase \in {"first", "again"} /\ e \in to_snap
  /\ phase = "first" => e = Min(to_snap)
  /\ Checked(e, MaybeAddExtraSites([sites |-> sites, edge_sites |-> edge_sites,
                                     resnap |-> to_resnap \ {e}], e,
                  SnapEdge(input_edges[e], edge_sites[e], sites, TRUE, opt)))
  /\ UNCHANGED <<opt, input_edges, num_forced, needed, vertices>>

Next ==
  \/ \E e \in InputEdges : AddEdge(e)
  \/ \E v \in ForcedVertices : ForceVertex(v)
  \/ ChooseSites
  \/ \E e \in to_snap : CheckEdge(e)

Spec == Init /\ [][Next]_snap_vars

-----------------------------------------------------------------------------
ChainOf(e) == SnapEdge(input_edges[e], edge_sites[e], sites, needed, opt)
SitesOf(chain) == [i \in DOMAIN chain |-> sites[chain[i]]]
ChainsOf == [e \in DOMAIN input_edges |-> SitesOf(ChainOf(e))]
EdgesOfChain(chain) == { << chain[i - 1], chain[i] >> : i \in 2 .. Len(chain) }

(* Every input vertex and every intersection of input edges is within the    *)
(* snap radius of a site, and no two sites are closer than                   *)
(* min_vertex_separation unless both were forced: SnapFunction promises it   *)
(* of the sites, the extra ones included.                                    *)
SitesSpaced ==
  needed =>
    /\ \A v \in vertices : \E s \in ToSet(sites) : CompareToLimit(v, s, opt.radius) <= 0
    /\ \A i, j \in DOMAIN sites :
         i < j /\ j > num_forced => CompareToLimit(sites[i], sites[j], opt.min_vertex) > 0

(* No site that is not forced is closer than min_edge_vertex_separation to a *)
(* snapped edge, other than its ends; a forced site is not passed on the     *)
(* wrong side.                                                               *)
ClearOfSites(chain, e) ==
  \A f \in EdgesOfChain(chain) : \A i \in DOMAIN sites :
    sites[i] \notin ToSet(chain) =>
      /\ i > num_forced \/ ~needed => EdgeToLimit(sites[i], f[1], f[2], opt.min_edge) >= 0
      /\ i <= num_forced => ~WrongSide(sites[i], f[1], f[2], e[1], e[2])

EdgesClearOfSites(chains) ==
  \A e \in DOMAIN chains : ClearOfSites(chains[e], input_edges[e])

\* Two linear functions on an interval, given by their values at its ends,
\* are at least 0 at the same point.
BothSomewhere(u, v) ==
  LET Meet(f, g) == f[1] <= 0 /\ f[2] >= 0 /\ g[1] >= 0 /\ g[2] <= 0
                    /\ -f[1] * (g[1] - g[2]) <= g[1] * (f[2] - f[1]) IN
  \/ \E i \in 1 .. 2 : u[i] >= 0 /\ v[i] >= 0
  \/ Meet(u, v)
  \/ Meet(v, u)

\* The edge x, y comes to where site i is one of the closest.
Visits(x, y, i) ==
  LET More(s) == << Dist2(x, s) - Dist2(x, sites[i]), Dist2(y, s) - Dist2(y, sites[i]) >>
      others == { More(s) : s \in ToSet(sites) } IN
  \A u, v \in others : BothSomewhere(u, v)

(* The chain of an edge visits the Voronoi regions of the sites that the     *)
(* edge passes through, in order: at each point of the edge that has a site  *)
(* within the radius, one of the closest sites is in the chain; the edge     *)
(* passes through the region of each site of its chain, and the chain never  *)
(* goes back along the edge.                                                 *)
FollowsVoronoi(x, y, chain) ==
  LET P(k) == [i \in 1 .. 2 |-> x[i] * (12 - k) + y[i] * k]
      D(k, i) == Dist2(P(k), << 12 * sites[i][1], 12 * sites[i][2] >>) IN
  /\ chain # << >>
  /\ \A k \in 0 .. 12 :
       LET least == Min({ D(k, i) : i \in DOMAIN sites }) IN
       least * opt.edge_radius[2] < 144 * opt.edge_radius[1] =>
         \E i \in ToSet(chain) : D(k, i) = least
  /\ \A i \in ToSet(chain) : Visits(x, y, i)
  /\ \A i, j \in DOMAIN chain :
       i < j => Dot(Diff(x, y), Diff(sites[chain[i]], sites[chain[j]])) >= 0

ChainsFollowVoronoi ==
  needed => \A e \in DOMAIN input_edges :
              FollowsVoronoi(input_edges[e][1], input_edges[e][2], ChainOf(e))

(* When crossing edges are split, or when the input edges do not cross, the  *)
(* snapped edges do not cross: they meet at sites only.                      *)
SnappedEdgesDoNotCross(snapped) ==
  opt.split_crossing_edges \/ (\A e, f \in ToSet(input_edges) : ~Crosses(e, f))
  => \A e, f \in snapped : ~Crosses(e, f)

(* Idempotency: the snapped edges given to a second builder need no snapping. *)
StableSites(edges, again) ==
  /\ ~again.needed
  /\ ~EdgeNeedsSnapping(edges, again.sites, opt)

OutputIsStable(snapped) ==
  num_forced = 0 =>
    StableSites(Listed(snapped),
                ChooseInitialSites(<< >>, UNION { ToSet(e) : e \in snapped }, opt))

ChainsFit(chains) ==
  LET snapped == UNION { EdgesOfChain(c) : c \in ToSet(chains) } IN
  /\ EdgesClearOfSites(chains)
  /\ SnappedEdgesDoNotCross(snapped)
  /\ OutputIsStable(snapped)

\* What s2builder.h promises of snapped edges: sites keep their distances from
\* each other and from edges, each edge follows the sites it passes, no two
\* edges cross, and snapping the result again changes nothing.
SnappingExact ==
  phase = "done" => SitesSpaced /\ ChainsFollowVoronoi /\ ChainsFit(ChainsOf)
=============================================================================
