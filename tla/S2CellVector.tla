------------------------------ MODULE S2CellVector ------------------------------
(***************************************************************************)
(* Cell ids (src/s2/s2cell_id.{h,cc}) and vectors of them: the functions   *)
(* of S2CellUnion that normalize, search and combine them                  *)
(* (src/s2/s2cell_union.{h,cc}), canonical coverings, and the lookup of a  *)
(* cell in an index.                                                       *)
(*                                                                         *)
(* Every face of the cube is a quad-tree of MaxLevel levels.  A cell's id  *)
(* is the position of its centre on the space-filling curve: the least     *)
(* significant bit that is set tells its level, and its descendants are    *)
(* the ids around it.  An id here is the integer the 64 bits stand for     *)
(* (MaxLevel = 30, NumFaces = 6); shifts and masks are written as products *)
(* and quotients of powers of four.  The walks along two sorted vectors,   *)
(* with their binary searches, are recursive functions of the positions    *)
(* the walk has reached.                                                   *)
(***************************************************************************)
EXTENDS Integers, FiniteSets, Sequences, SequencesExt, FiniteSetsExt

CONSTANTS MaxLevel,     \* kMaxLevel
          NumFaces      \* kNumFaces

ASSUME LevelAssumption == MaxLevel \in Nat
ASSUME FacesAssumption == NumFaces \in Nat \ {0}

\* What arithmetic says of the powers of four that ids are made of.
ASSUME PowersOfFour ==
  \A m \in 0 .. MaxLevel :
    /\ 4 ^ m \in Nat \ {0}
    /\ \A n \in 0 .. MaxLevel - m : 4 ^ (m + n) = 4 ^ m * 4 ^ n
    /\ m > 0 => 4 ^ m = 4 * 4 ^ (m - 1)

lsb_for_level(level) == 4 ^ (MaxLevel - level)

\* 1 << kPosBits: the number of ids of a face.
FaceSize == 2 * 4 ^ MaxLevel

FromFace(face) == face * FaceSize + lsb_for_level(0)

\* The ids that is_valid() accepts.
CellIds ==
  UNION { { f * FaceSize + (2 * k + 1) * lsb_for_level(l) : k \in 0 .. (4 ^ l - 1) } :
          f \in 0 .. (NumFaces - 1), l \in 0 .. MaxLevel }

level(id) == CHOOSE l \in 0 .. MaxLevel :
               id % lsb_for_level(l) = 0 /\ (id \div lsb_for_level(l)) % 2 = 1
lsb(id) == lsb_for_level(level(id))

is_face(id) == id % lsb_for_level(0) = 0
is_leaf(id) == id % 2 = 1

range_min(id) == id - (lsb(id) - 1)
range_max(id) == id + (lsb(id) - 1)

contains(id, other) == other >= range_min(id) /\ other <= range_max(id)
intersects(id, other) ==
  range_min(other) <= range_max(id) /\ range_max(other) >= range_min(id)

\* Clears the bits below the level's bit and sets that bit.
ParentAt(id, l) ==
  LET bit == lsb_for_level(l) IN (id \div (2 * bit)) * 2 * bit + bit
parent(id) == ParentAt(id, level(id) - 1)

child(id, position) == id + (2 * position + 1 - 4) * (lsb(id) \div 4)

next(id) == id + 2 * lsb(id)

\* End(kMaxLevel): the first leaf id after the last face.
LeafEnd == NumFaces * FaceSize + 1

\* The largest cell that starts where id does and ends before limit, or limit
\* itself if there is none: shrinks a cell that is too large, else grows it.
maximum_tile(id, limit) ==
  LET Shrink(t) == IF range_max(t) >= limit THEN child(t, 0) ELSE t
      Grow(t) == IF \/ is_face(t)
                    \/ range_min(parent(t)) # range_min(id)
                    \/ range_max(parent(t)) >= limit
                 THEN t ELSE parent(t)
      shrunk[n \in 0 .. MaxLevel] == IF n = 0 THEN id ELSE Shrink(shrunk[n - 1])
      grown[n \in 0 .. MaxLevel] == IF n = 0 THEN id ELSE Grow(grown[n - 1])
  IN  IF range_min(id) >= range_min(limit) THEN limit
      ELSE IF range_max(id) >= limit THEN shrunk[MaxLevel]
      ELSE grown[MaxLevel]

\* InitFromBeginEnd, for leaf cells begin and end.
FromBeginEnd(begin, end) ==
  LET tile[id \in CellIds \cup {end}] ==
        IF id = end THEN <<>> ELSE <<id>> \o tile[maximum_tile(next(id), end)]
  IN  tile[maximum_tile(begin, end)]

\* The numbers of a finite set in increasing order.
InOrder(S) ==
  [i \in 1 .. Cardinality(S) |-> CHOOSE n \in S : Cardinality({ m \in S : m < n }) = i - 1]

\* The leaf cells a cell stands for.
LeafIds == { id \in CellIds : is_leaf(id) }
LeavesIn == [id \in CellIds |-> { leaf \in LeafIds : contains(id, leaf) }]
Leaves(id) == LeavesIn[id]

-----------------------------------------------------------------------------
(* Vectors of cells.                                                       *)

LeavesOf(v) == UNION { Leaves(v[i]) : i \in DOMAIN v }

\* The four cells, which are distinct, have a common parent.
AreSiblings(a, b, c, d) ==
  /\ ~is_face(d)
  /\ \A id \in {a, b, c} : lsb(id) = lsb(d) /\ parent(id) = parent(d)

-----------------------------------------------------------------------------
(* Normalize.                                                              *)

\* The id goes behind those that are not larger.
Insert(s, id) ==
  LET at == Cardinality({ i \in DOMAIN s : s[i] <= id })
  IN  IF s = <<>> \/ Last(s) <= id THEN Append(s, id)
      ELSE SubSeq(s, 1, at) \o <<id>> \o SubSeq(s, at + 1, Len(s))

Sorted(v) ==
  LET sorted[k \in 0 .. Len(v)] ==
        IF k = 0 THEN <<>> ELSE Insert(sorted[k - 1], v[k])
  IN  sorted[Len(v)]

\* Replaces the last three cells and id by their parent, as often as it can.
Collapse(out, id) ==
  LET Step(s) ==
        LET n == Len(s.out)
        IN  IF n >= 3 /\ AreSiblings(s.out[n - 2], s.out[n - 1], s.out[n], s.id)
            THEN [out |-> SubSeq(s.out, 1, n - 3), id |-> parent(s.id)]
            ELSE s
      steps[i \in 0 .. MaxLevel] ==
        IF i = 0 THEN [out |-> out, id |-> id] ELSE Step(steps[i - 1])
      done == steps[MaxLevel]
  IN  Append(done.out, done.id)

\* The cells of out that remain when those contained in id are dropped from
\* its end.
DropContained(out, id) ==
  SubSeq(out, 1, Max({0} \cup { i \in DOMAIN out : ~contains(id, out[i]) }))

\* Mutant of NormalizeStep: four siblings are collapsed once only.
NormalizeStepOnce(out, id) ==
  LET kept == DropContained(out, id)
      n == Len(kept)
  IN  IF out # <<>> /\ contains(Last(out), id) THEN out
      ELSE IF n >= 3 /\ AreSiblings(kept[n - 2], kept[n - 1], kept[n], id)
      THEN Append(SubSeq(kept, 1, n - 3), parent(id))
      ELSE Append(kept, id)

NormalizeStep(out, id) ==
  IF out # <<>> /\ contains(Last(out), id) THEN out
  ELSE Collapse(DropContained(out, id), id)

Normalize(v) ==
  LET sorted == Sorted(v)
      output[k \in 0 .. Len(v)] ==
        IF k = 0 THEN <<>> ELSE NormalizeStep(output[k - 1], sorted[k])
  IN  output[Len(v)]

IsNormalized(v) ==
  /\ \A i \in DOMAIN v : v[i] \in CellIds
  /\ \A i \in 2 .. Len(v) : range_max(v[i - 1]) < range_min(v[i])
  /\ \A i \in 4 .. Len(v) : ~AreSiblings(v[i - 3], v[i - 2], v[i - 1], v[i])

\* child_begin(l) up to child_end(l), or the cell itself at its own level.
DescendantsAt(id, l) ==
  LET bit == lsb_for_level(l)
  IN  [k \in 1 .. 4 ^ (l - level(id)) |-> range_min(id) + (bit - 1) + (k - 1) * 2 * bit]

\* The level that Denormalize divides a cell of level l down to.  kMaxLevel is
\* a multiple of every level_mod, so that it falls out of the rounding.
DenormalizedLevel(l, min_level, level_mod) ==
  LET least == Max({min_level, l})
  IN  IF level_mod = 1 THEN least
      ELSE Min({MaxLevel, least + ((min_level - least) % level_mod)})

Denormalize(v, min_level, level_mod) ==
  FlattenSeq([i \in DOMAIN v |->
    DescendantsAt(v[i], DenormalizedLevel(level(v[i]), min_level, level_mod))])
-----------------------------------------------------------------------------
(* Queries.                                                                *)

EntirelyPrecedes(a, b) == range_max(a) < range_min(b)

\* std::lower_bound(v.begin() + from - 1, v.end(), id, EntirelyPrecedes).
LowerBound(v, from, id) ==
  Min({ i \in from .. Len(v) : ~EntirelyPrecedes(v[i], id) } \cup {Len(v) + 1})

ContainsCell(v, id) ==
  LET i == LowerBound(v, 1, id) IN i <= Len(v) /\ contains(v[i], id)

IntersectsCell(v, id) ==
  LET i == LowerBound(v, 1, id) IN i <= Len(v) /\ intersects(v[i], id)

\* Mutant of ContainsUnion: the search moves on for every cell of y.
ContainsUnionAdvancing(v, y) ==
  LET walk[p \in (1 .. Len(y) + 1) \X (1 .. Len(v) + 1)] ==
        LET j == p[1]
            k == LowerBound(v, p[2], y[j])
        IN  j > Len(y)
              \/ (k <= Len(v) /\ contains(v[k], y[j]) /\ walk[<<j + 1, k + 1>>])
  IN  walk[<<1, 1>>]

\* Contains(S2CellUnion).
ContainsUnion(v, y) ==
  LET walk[p \in (1 .. Len(y) + 1) \X (1 .. Len(v))] ==
        LET j == p[1]
            i == p[2]
            k == IF EntirelyPrecedes(v[i], y[j]) THEN LowerBound(v, i + 1, y[j]) ELSE i
        IN  j > Len(y)
              \/ (k <= Len(v) /\ contains(v[k], y[j]) /\ walk[<<j + 1, k>>])
  IN  y = <<>> \/ (v # <<>> /\ walk[<<1, 1>>])

IntersectsUnion(v, y) ==
  LET walk[p \in (1 .. Len(v) + 1) \X (1 .. Len(y) + 1)] ==
        LET i == p[1]
            j == p[2]
        IN  IF i > Len(v) \/ j > Len(y) THEN FALSE
            ELSE IF EntirelyPrecedes(v[i], y[j]) THEN walk[<<LowerBound(v, i + 1, y[j]), j>>]
            ELSE IF EntirelyPrecedes(y[j], v[i]) THEN walk[<<i, LowerBound(y, j + 1, v[i])>>]
            ELSE TRUE
  IN  walk[<<1, 1>>]

-----------------------------------------------------------------------------
(* Set operations.                                                         *)

Union(v, y) == Normalize(v \o y)

\* Intersection(S2CellId): the second search compares the ids themselves.
IntersectionCell(v, id) ==
  LET first == Min({ i \in DOMAIN v : v[i] >= range_min(id) } \cup {Len(v) + 1})
      end == Min({ i \in first .. Len(v) : v[i] > range_max(id) } \cup {Len(v) + 1})
  IN  IF ContainsCell(v, id) THEN <<id>> ELSE SubSeq(v, first, end - 1)

\* Mutant of GetIntersection: of two cells that start together the first is
\* taken, whichever contains the other.
GetIntersectionFirst(v, y) ==
  LET walk[p \in (1 .. Len(v) + 1) \X (1 .. Len(y) + 1)] ==
        LET i == p[1]
            j == p[2]
        IN  IF i > Len(v) \/ j > Len(y) THEN <<>>
            ELSE IF EntirelyPrecedes(v[i], y[j]) THEN walk[<<i + 1, j>>]
            ELSE IF EntirelyPrecedes(y[j], v[i]) THEN walk[<<i, j + 1>>]
            ELSE IF range_min(v[i]) >= range_min(y[j]) THEN <<v[i]>> \o walk[<<i + 1, j>>]
            ELSE <<y[j]>> \o walk[<<i, j + 1>>]
  IN  walk[<<1, 1>>]

GetIntersection(v, y) ==
  LET walk[p \in (1 .. Len(v) + 1) \X (1 .. Len(y) + 1)] ==
        LET i == p[1]
            j == p[2]
            imin == range_min(v[i])
            jmin == range_min(y[j])
            take_v == <<v[i]>> \o walk[<<i + 1, j>>]
            take_y == <<y[j]>> \o walk[<<i, j + 1>>]
        IN  IF i > Len(v) \/ j > Len(y) THEN <<>>
            ELSE IF imin > jmin
            THEN IF v[i] <= range_max(y[j]) THEN take_v ELSE walk[<<i, LowerBound(y, j + 1, v[i])>>]
            ELSE IF jmin > imin
            THEN IF y[j] <= range_max(v[i]) THEN take_y ELSE walk[<<LowerBound(v, i + 1, y[j]), j>>]
            ELSE IF v[i] < y[j] THEN take_v ELSE take_y
  IN  walk[<<1, 1>>]

\* GetDifferenceInternal: divides a cell that y covers in part.
Difference(v, y) ==
  LET diff[id \in CellIds] ==
        IF ~IntersectsCell(y, id) THEN <<id>>
        ELSE IF ContainsCell(y, id) THEN <<>>
        ELSE diff[child(id, 0)] \o diff[child(id, 1)]
               \o diff[child(id, 2)] \o diff[child(id, 3)]
  IN  FlattenSeq([i \in DOMAIN v |-> diff[v[i]]])

-----------------------------------------------------------------------------
(***************************************************************************)
(* Coverings that satisfy the options of a region coverer, and how a       *)
(* vector of cells is made to: the parts of src/s2/s2region_coverer.{h,cc} *)
(* that keep no state.  The options o are                                  *)
(* [max_cells, min_level, max_level, level_mod].                           *)
(***************************************************************************)

-----------------------------------------------------------------------------
(* Levels.                                                                 *)

true_max_level(o) == o.max_level - ((o.max_level - o.min_level) % o.level_mod)

AdjustLevel(o, l) ==
  IF l > o.min_level THEN l - ((l - o.min_level) % o.level_mod) ELSE l

\* -1 for cells of different faces.
GetCommonAncestorLevel(a, b) ==
  Max({-1} \cup { l \in 0 .. Min({level(a), level(b)}) : ParentAt(a, l) = ParentAt(b, l) })

\* AdjustCellLevels, for a sorted vector.
AdjustCellLevels(o, v) ==
  LET Step(out, id) ==
        LET up == ParentAt(id, AdjustLevel(o, level(id)))
        IN  IF out # <<>> /\ contains(Last(out), up) THEN out
            ELSE Append(DropContained(out, up), up)
  IN  IF o.level_mod = 1 THEN v ELSE FoldLeft(Step, <<>>, v)

-----------------------------------------------------------------------------
(* Canonical coverings.                                                    *)

\* A run of 4 ^ level_mod cells with one parent ends at position i.
FullFamilyAt(o, v, i) ==
  LET n == 4 ^ o.level_mod
      up == level(v[i]) - o.level_mod
  IN  /\ i >= n /\ up >= o.min_level
      /\ \A k \in (i - n + 1) .. i :
           level(v[k]) = level(v[i]) /\ ParentAt(v[k], up) = ParentAt(v[i], up)

IsCanonical(o, v) ==
  /\ \A i \in DOMAIN v : /\ o.min_level <= level(v[i]) /\ level(v[i]) <= true_max_level(o)
                         /\ (level(v[i]) - o.min_level) % o.level_mod = 0
                         /\ ~FullFamilyAt(o, v, i)
  /\ \A i \in 2 .. Len(v) :
       /\ range_max(v[i - 1]) < range_min(v[i])
       /\ Len(v) > o.max_cells => GetCommonAncestorLevel(v[i], v[i - 1]) < o.min_level

ContainsAllChildren(o, v, id) ==
  \A c \in ToSet(DescendantsAt(id, level(id) + o.level_mod)) : c \in ToSet(v)

ReplaceCellsWithAncestor(v, id) ==
  SelectSeq(v, LAMBDA c : c < range_min(id)) \o <<id>>
    \o SelectSeq(v, LAMBDA c : c > range_max(id))

\* The second, inner loop: parents all of whose children are present.
MergeUpwards(o, v, id) ==
  LET Up(s, i) ==
        IF ~s.more \/ level(s.id) <= o.min_level THEN s
        ELSE LET up == ParentAt(s.id, level(s.id) - o.level_mod)
             IN  IF ContainsAllChildren(o, s.v, up)
                 THEN [v |-> ReplaceCellsWithAncestor(s.v, up), id |-> up, more |-> TRUE]
                 ELSE [s EXCEPT !.more = FALSE]
  IN  FoldLeft(Up, [v |-> v, id |-> id, more |-> TRUE], [i \in 1 .. MaxLevel |-> i]).v

\* One turn of the outer loop: the two adjacent cells that have the smallest
\* common ancestor give way to it.
MergeBest(o, v) ==
  LET Level(i) == AdjustLevel(o, GetCommonAncestorLevel(v[i], v[i + 1]))
      best == CHOOSE i \in 1 .. Len(v) - 1 : \A j \in 1 .. Len(v) - 1 :
                Level(i) > Level(j) \/ (Level(i) = Level(j) /\ i <= j)
  IN  IF Len(v) <= o.max_cells \/ Len(v) < 2 \/ Level(best) < o.min_level THEN v
      ELSE LET up == ParentAt(v[best], Level(best))
           IN  MergeUpwards(o, ReplaceCellsWithAncestor(v, up), up)

\* The levels of the cells made to fit, which comes before the excess is known.
FitLevels(o, v) ==
  LET fit == Normalize([i \in DOMAIN v |->
               ParentAt(v[i], AdjustLevel(o, Min({level(v[i]), o.max_level})))])
  IN  Denormalize(fit, o.min_level, o.level_mod)

Excess(o, v) == IF IsCanonical(o, v) THEN 0 ELSE Max({0, Len(v) - o.max_cells})

\* CanonicalizeCovering where the excess is small.
Canonicalized(o, v) ==
  LET fit == FitLevels(o, v)
  IN  IF Excess(o, fit) = 0 THEN fit
      ELSE FoldLeft(LAMBDA w, i : MergeBest(o, w), fit, [i \in 1 .. Len(fit) |-> i])

\* GetCellUnionBound of the region's bounding cap: the cells at some level
\* around a vertex, or all faces.
CellUnionBounds(touch) ==
  LET at(l) == { ParentAt(leaf, l) : leaf \in touch }
  IN  { InOrder(at(l)) : l \in { l \in 0 .. MaxLevel : Cardinality(at(l)) <= 4 } }
        \cup { [f \in 1 .. NumFaces |-> FromFace(f - 1)] }

\* GetFastCovering of the temporary coverer.
FastCovering(o, bound) ==
  Canonicalized([max_cells |-> Min({4, o.max_cells}), min_level |-> 0,
                 max_level |-> o.max_level, level_mod |-> 1], bound)

-----------------------------------------------------------------------------
(***************************************************************************)
(* Looking a cell up in the sorted cells of a shape index:                 *)
(* src/s2/s2cell_iterator.h, and what its callers may expect of the index  *)
(* cells and of coverings.                                                 *)
(*                                                                         *)
(* The cells of an index are a set of disjoint ids; an iterator is at one  *)
(* of them, at Done after the last, or at the first.  A shape or region is *)
(* the set of leaf cells it touches.                                       *)
(***************************************************************************)

\* Iterator::done(): a position after every id.
Done == NumFaces * FaceSize + FaceSize

\* Seek: the first index cell that is not before target.
Seek(cells, target) == Min({ id \in cells : id >= target } \cup {Done})

\* Prev: false at the first cell.
HasPrev(cells, pos) == \E id \in cells : id < pos
Prev(cells, pos) == Max({ id \in cells : id < pos })

\* Mutant of Locate: the cell before the one found is not looked at.
LocateForward(cells, target) ==
  LET pos == Seek(cells, range_min(target))
  IN  IF pos # Done /\ pos >= target /\ range_min(pos) <= target
      THEN [relation |-> "INDEXED", at |-> pos]
      ELSE IF pos # Done /\ pos <= range_max(target)
      THEN [relation |-> "SUBDIVIDED", at |-> pos]
      ELSE [relation |-> "DISJOINT", at |-> pos]

\* LocateImpl: how target relates to the index, and where the iterator is left.
Locate(cells, target) ==
  LET pos == Seek(cells, range_min(target))
  IN  IF pos # Done /\ pos >= target /\ range_min(pos) <= target
      THEN [relation |-> "INDEXED", at |-> pos]
      ELSE IF pos # Done /\ pos <= range_max(target)
      THEN [relation |-> "SUBDIVIDED", at |-> pos]
      ELSE IF HasPrev(cells, pos) /\ range_max(Prev(cells, pos)) >= target
      THEN [relation |-> "INDEXED", at |-> Prev(cells, pos)]
      ELSE [relation |-> "DISJOINT", at |-> pos]

\* Cells that lose nothing of the region, and such cells that are disjoint.
Covers(T, region) == T \subseteq CellIds /\ region \subseteq UNION { Leaves(c) : c \in T }
IsTiling(T, region) ==
  Covers(T, region) /\ \A c, d \in T : c = d \/ ~intersects(c, d)

\* Every set of disjoint cells, each touching the region, that covers it: the
\* cells an index of the region may have whatever its edges and its limit of
\* edges per cell, and the coverings a coverer may give for it whatever its
\* options.
Tilings(region) ==
  LET tile[id \in CellIds] ==
        IF Leaves(id) \cap region = {} THEN {{}}
        ELSE IF is_leaf(id) THEN {{id}}
        ELSE {{id}} \cup { a \cup b \cup c \cup d : a \in tile[child(id, 0)],
                           b \in tile[child(id, 1)], c \in tile[child(id, 2)],
                           d \in tile[child(id, 3)] }
      faces[f \in 0 .. NumFaces] ==
        IF f = 0 THEN {{}}
        ELSE { a \cup b : a \in faces[f - 1], b \in tile[FromFace(f - 1)] }
  IN  faces[NumFaces]

-----------------------------------------------------------------------------
(* Distances between leaf cells, along the curve.                          *)

Distance(a, b) == IF a < b THEN (b - a) \div 2 ELSE (a - b) \div 2

\* The leaf cells at most d away from region (S2ShapeIndexBufferedRegion).
Buffered(region, d) == { leaf \in LeafIds : \E r \in region : Distance(leaf, r) <= d }

\* S2ClosestEdgeQuery::IsDistanceLessOrEqual: false if either is empty.
IsDistanceLessOrEqual(r1, r2, d) == \E a \in r1, b \in r2 : Distance(a, b) <= d
=============================================================================
