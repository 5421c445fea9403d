------------------------------ MODULE MCRPackage ------------------------------
(* Functions of the R package, and the hash table below the containers that   *)
(* they share, each in runs of its own: active says which.                    *)
(*   "features": vectors of up to two features, drawn from geometries of      *)
(*     every type, empty, simple, with several parts, nested in collections   *)
(*     two deep, with an invalid ring, a NaN and a part of the wrong type;    *)
(*   "matrix": geographies on two faces of two levels, empty ones, points on  *)
(*     both sides of the boundary of a cell and of a face, a line across the  *)
(*     faces, a square and a collection of two shapes;                        *)
(*   "dwithin": two features on both sides of a cell boundary, one empty;     *)
(*   "union": all short vectors of points, polygons, empty collections and    *)
(*     missing elements, and long ones of polygons, which need several rounds;*)
(*   "table": two hash tables with colliding keys.                            *)
EXTENDS GeographyIndex, PreparedDWithin, S2UnionAggregator

CONSTANTS Parts,                \* the parts that run
          near, far, empty,     \* features of s2_prepared_dwithin
          MaxMixed, MaxLong,    \* lengths of the vectors to unite
          Sizes, StartingBuckets,          \* of the hash tables
          MaxBuckets, MaxLooseUsed         \* their bounds

VARIABLES active,
          options, vector, known, feat, events, frames, feat_id, status,
          ht, contents

(* s2_geography_writer.                                                       *)

LOCAL NullFeature == [type |-> "NULL"]
LOCAL Pt(c) == [type |-> "POINT", coords |-> c]
LOCAL Line(c) == [type |-> "LINESTRING", coords |-> c]
LOCAL Poly(r) == [type |-> "POLYGON", rings |-> r]
LOCAL Multi(t, p) == [type |-> t, parts |-> p]
LOCAL Coll(p) == Multi("COLLECTION", p)

LOCAL Shell == <<"a", "b", "c", "a">>
LOCAL Hole == <<"d", "e", "f", "d">>
LOCAL Flat == <<"a", "b", "a">>

LOCAL Parsed ==
  { Pt(<<>>), Pt(<<"a">>), Pt(<<"NaN">>),
    Multi("MULTIPOINT", <<Pt(<<"a">>), Pt(<<>>), Pt(<<"b">>)>>),
    Multi("MULTIPOINT", <<Line(<<"a", "b">>)>>),
    Line(<<>>), Line(<<"a">>), Line(<<"a", "b">>), Line(<<"a", "NaN">>),
    Multi("MULTILINESTRING", <<Line(<<"a", "b">>), Line(<<>>), Line(<<"c", "d">>)>>),
    Poly(<<>>), Poly(<<Shell, Hole>>), Poly(<<Shell, Flat>>), Poly(<<<<>>, Shell>>),
    Poly(<<<<"a", "a">>>>), Poly(<<Shell, Shell>>), Poly(<<<<"a", "NaN", "b", "a">>>>),
    Multi("MULTIPOLYGON", <<Poly(<<Shell>>), Poly(<<Hole>>)>>),
    Multi("MULTIPOLYGON", <<Line(<<"e", "f">>), Poly(<<Shell>>), Pt(<<"d">>)>>),
    Coll(<<>>),
    Coll(<<Pt(<<"a">>), Line(<<"a", "b">>), Pt(<<"b">>)>>),
    Coll(<<Coll(<<Pt(<<"a">>)>>), Poly(<<Shell>>), Coll(<<>>)>>),
    Coll(<<Line(<<"a", "b">>), Coll(<<Coll(<<Line(<<"c", "d">>)>>), Pt(<<"c">>)>>)>>) }

LOCAL Events == { <<>> } \cup [1 .. 1 -> Parsed \cup {NullFeature}]
                       \cup [1 .. 2 -> Parsed \cup {NullFeature}]

F == INSTANCE FeatureConstructor WITH Vectors <- Events, UnknownCapacity <- 0

(* s2_*_matrix.                                                               *)

LOCAL Leaf(n) == 2 * n + 1

MCGeographies ==
  { <<>>, <<{}>>,
    <<{Leaf(3)}>>, <<{Leaf(4)}>>,
    <<{Leaf(15), Leaf(16)}>>,
    <<Leaves(child(FromFace(0), 0))>>, <<Leaves(FromFace(0))>>,
    <<{Leaf(0), Leaf(5), Leaf(14)}>>,
    <<{Leaf(4)}, {Leaf(20)}>> }

(* s2_prepared_dwithin.                                                       *)

MCRegionOf == [f \in {near, far, empty} |->
                CASE f = near -> {1} [] f = far -> {9, 11} [] f = empty -> {}]

(* s2_union_agg.                                                              *)

United ==
  LET polygon == [dim |-> 2, shapes |-> 1]
  IN  BoundedSeq({[dim |-> 0, shapes |-> 1], polygon, [dim |-> -1, shapes |-> 0], NA}, MaxMixed)
        \cup { [k \in 1 .. n |-> polygon] : n \in 0 .. MaxLong }

(* Hash tables.  The second of them never outlives its thresholds.            *)

T == INSTANCE DenseHashTable WITH
  Keys <- 1 .. 3, Hash <- <<0, 0, 1>>, DeletedKeys <- {8, 9}, HT_MIN_BUCKETS <- 2,
  HT_DEFAULT_STARTING_BUCKETS <- StartingBuckets,
  MaxUsed <- <<3, 1>>, MaxLoose <- <<MaxLooseUsed, -1>>

-----------------------------------------------------------------------------
feature_vars == <<options, vector, known, feat, events, frames, feat_id, status>>
union_vars == <<geog, naRm, heap, root_, other_, element, round, position, phase>>
table_vars == <<ht, contents>>
all_vars == <<active, feature_vars, result, matrix_vars, dwithin_vars, union_vars, table_vars>>

NoFeatures == /\ options = {} /\ vector = {} /\ known = FALSE /\ feat = 0 /\ events = <<>>
              /\ frames = <<>> /\ feat_id = 0 /\ status = "none"
NoMatrix == /\ op = "none" /\ geog1 = <<>> /\ geog2 = <<>> /\ added = 0 /\ shapes = <<>>
            /\ values_ = <<>> /\ cells = {} /\ built = FALSE /\ output = <<>> /\ stopped = FALSE
NoDWithin == /\ features1 = <<>> /\ features2 = <<>> /\ distance = <<>> /\ covering_id = Null
             /\ covering = {} /\ query = Null /\ answers = <<>>
NoUnion == /\ geog = <<>> /\ naRm = FALSE /\ heap = <<>> /\ root_ = EmptyNode /\ other_ = <<>>
           /\ element = 0 /\ round = 0 /\ position = 0 /\ phase = "none"

NoTable == ht = <<>> /\ contents = {}

MCInit ==
  /\ active \in Parts
  /\ \/ active = "features" /\ F!Init /\ NoMatrix /\ NoDWithin /\ NoUnion /\ NoTable
     \/ /\ active = "matrix" /\ MatrixInit
        /\ NoFeatures /\ result = 0 /\ NoDWithin /\ NoUnion /\ NoTable
     \/ /\ active = "dwithin" /\ DWithinInit
        /\ NoFeatures /\ result = 0 /\ NoMatrix /\ NoUnion /\ NoTable
     \/ active = "union" /\ Init /\ NoFeatures /\ NoMatrix /\ NoDWithin /\ NoTable
     \/ /\ active = "table" /\ T!TableInit
        /\ NoFeatures /\ result = 0 /\ NoMatrix /\ NoDWithin /\ NoUnion

MCNext ==
  /\ UNCHANGED active
  /\ \/ /\ active = "features" /\ F!Next
        /\ UNCHANGED <<matrix_vars, dwithin_vars, union_vars, table_vars>>
     \/ /\ active = "matrix" /\ MatrixNext
        /\ UNCHANGED <<feature_vars, result, dwithin_vars, union_vars, table_vars>>
     \/ /\ active = "dwithin" /\ DWithinNext
        /\ UNCHANGED <<feature_vars, result, matrix_vars, union_vars, table_vars>>
     \/ /\ active = "union" /\ Next
        /\ UNCHANGED <<feature_vars, matrix_vars, dwithin_vars, table_vars>>
     \/ /\ active = "table" /\ T!TableNext
        /\ UNCHANGED <<feature_vars, result, matrix_vars, dwithin_vars, union_vars>>

MCSpec == MCInit /\ [][MCNext]_all_vars

\* A stream of wk events becomes one geography for each feature, the one its
\* own events mean, or stops at the first feature that means none; nothing of
\* a feature is left in the constructors that all features share.
FeaturesExact == active = "features" => F!FeaturesExact

\* Hash tables that got buckets and thresholds together answer as the sets
\* they stand for and their searches end, whatever is inserted, erased, resized,
\* copied or moved (densehashtable.h).
TablesExact == active = "table" => T!TableIsItsSet /\ T!SearchesEnd

\* "Hashtable is full: an error in key_equal<> or hash<>", says the assertion
\* of the searches in densehashtable.h: with sound functions no table that has
\* its empty key is ever full, so every search ends.
NeverFull == active = "table" => T!NeverFull
=============================================================================
