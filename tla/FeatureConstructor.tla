------------------------- MODULE FeatureConstructor -------------------------
(***************************************************************************)
(* From a stream of wk handler events to a vector of geographies: the      *)
(* builder_* callbacks of s2-constructors-formatters.cpp driving the       *)
(* constructors of s2geography/constructor.h.                              *)
(*                                                                         *)
(* The reader (package wk, external) walks a vector of features and emits  *)
(* their events.  A feature is null or a tree: [type, coords] for points   *)
(* and lines, [type, rings] for polygons, [type, parts] for the others.  A *)
(* coordinate is a member of Coords or NaN.  A constructed geography is    *)
(* [kind, value]: points, polylines, loops or features.                    *)
(*                                                                         *)
(* Nested collections are a sequence of frames: the collection_constructor_*)
(* of frame i is frame i + 1.                                              *)
(***************************************************************************)
EXTENDS Integers, Sequences, SequencesExt, FiniteSets

CONSTANTS Vectors,          \* the vectors of features to read
          UnknownCapacity   \* allocation for WK_VECTOR_SIZE_UNKNOWN (1024)

NaN == "NaN"
NullFeature == [type |-> "NULL"]
NullElement == [kind |-> "NULL", value |-> <<>>]    \* R_NilValue in the list
NotAllocated == [size |-> -1, elt |-> <<>>]         \* R_NilValue as the list

VARIABLES
  options,    \* Constructor::Options of the writer: [projection, check]
  vector,     \* the features the reader walks
  known,      \* does the reader know the size of the vector?
  feat,       \* position of the current feature
  events,     \* events of the current feature still to be emitted
  frames,     \* the constructors, outermost first
  result,     \* data->result: [size, elt]
  feat_id,    \* data->feat_id
  status      \* "start", "vector", "feature", "end", "error",
              \* "parse_error", "crash" or "done"

vars == <<options, vector, known, feat, events, frames, result, feat_id, status>>

PointTypes == {"POINT", "MULTIPOINT"}
LineTypes == {"LINESTRING", "MULTILINESTRING"}
PolygonTypes == {"POLYGON", "MULTIPOLYGON"}
HasParts == {"MULTIPOINT", "MULTILINESTRING", "MULTIPOLYGON", "COLLECTION"}

-----------------------------------------------------------------------------
(* The reader.                                                             *)

GeomSize(g) == IF g.type \in HasParts THEN Len(g.parts)
               ELSE IF g.type = "POLYGON" THEN Len(g.rings) ELSE Len(g.coords)

CoordEvents(coords) == [i \in DOMAIN coords |-> [ev |-> "coord", at |-> coords[i]]]

RingEvents(ring) ==
  <<[ev |-> "ring_start"]>> \o CoordEvents(ring) \o <<[ev |-> "ring_end"]>>

\* The callbacks a wk reader makes for a geometry, in order.
RECURSIVE GeometryEvents(_)
GeometryEvents(g) ==
  <<[ev |-> "geometry_start", type |-> g.type, size |-> GeomSize(g)]>>
    \o (IF g.type \in HasParts
        THEN FlattenSeq([i \in DOMAIN g.parts |-> GeometryEvents(g.parts[i])])
        ELSE IF g.type = "POLYGON"
        THEN FlattenSeq([i \in DOMAIN g.rings |-> RingEvents(g.rings[i])])
        ELSE CoordEvents(g.coords))
    \o <<[ev |-> "geometry_end"]>>

-----------------------------------------------------------------------------
(* The constructors.  An operation yields [f |-> frames, err |-> error],   *)
(* err being "" unless an exception is thrown ("throw") or a constructor   *)
(* that does not exist is called ("crash").                                *)

Ok(f) == [f |-> f, err |-> ""]
Throw(f) == [f |-> f, err |-> "throw"]
Crash(f) == [f |-> f, err |-> "crash"]

\* A CollectionConstructor with its three leaf constructors.  Its
\* active_constructor_ is not initialized.
NewCollectionConstructor ==
  [level        |-> 0,
   active       |-> "undefined",
   points       |-> <<>>,    \* point_constructor_.points_
   line_input   |-> <<>>,    \* polyline_constructor_.input_points_
   polylines    |-> <<>>,    \* polyline_constructor_.polylines_
   ring_input   |-> <<>>,    \* polygon_constructor_.input_points_
   loops        |-> <<>>,    \* polygon_constructor_.loops_
   features     |-> <<>>]

ActiveFor(type) == CASE type \in PointTypes   -> "point"
                     [] type \in LineTypes    -> "polyline"
                     [] type \in PolygonTypes -> "polygon"
                     [] OTHER                 -> "collection"

\* finish_points(): what becomes of the coordinates collected so far, and
\* whether unprojecting them throws.  The points a tessellation inserts
\* between its input points are left out.
FinishedPoints(input) ==
  IF options.projection = "tessellate" /\ Len(input) < 2 THEN <<>> ELSE input
UnprojectThrows(input) ==
  options.projection = "unproject" /\ \E i \in DOMAIN input : input[i] = NaN

\* S2Loop::IsValid: a loop of one vertex stands for the empty loop, the others
\* have three vertices at least, all of them points and all different.
LoopIsValid(loop) ==
  /\ NaN \notin Range(loop)
  /\ Len(loop) = 1 \/ (Len(loop) >= 3 /\ Cardinality(Range(loop)) = Len(loop))

\* S2Polygon::IsValid of loops that are normalized: the loops are valid, none
\* is empty and no two have an edge in common.
LoopEdges(loop) ==
  { {loop[i], loop[IF i = Len(loop) THEN 1 ELSE i + 1]} : i \in DOMAIN loop }
PolygonIsValid(loops) ==
  \A i \in DOMAIN loops :
    /\ LoopIsValid(loops[i]) /\ Len(loops[i]) # 1
    /\ \A j \in DOMAIN loops \ {i} : LoopEdges(loops[i]) \cap LoopEdges(loops[j]) = {}

\* geom_start of the leaf constructors; PolygonConstructor has none.
LeafGeomStart(f, i, type, size) ==
  IF \/ /\ f[i].active = "point"
        /\ size # 0 /\ type \notin PointTypes \cup {"COLLECTION"}
     \/ /\ f[i].active = "polyline"
        /\ size # 0 /\ type \notin LineTypes \cup {"COLLECTION"}
  THEN Throw(f) ELSE Ok(f)

\* Mutant of CollectionGeomStart: a nested collection is taken for the outer.
RECURSIVE CollectionGeomStartFlat(_, _, _, _)
CollectionGeomStartFlat(f, i, type, size) ==
  LET g == [f EXCEPT ![i].level = @ + 1]
  IN  IF type = "COLLECTION" THEN Ok([g EXCEPT ![i].active = "null"])
      ELSE LET h == IF g[i].active # "null" THEN g
                    ELSE [g EXCEPT ![i].active = ActiveFor(type)]
           IN  LeafGeomStart(h, i, type, size)

\* CollectionConstructor::geom_start of the constructor in frame i.
RECURSIVE CollectionGeomStart(_, _, _, _)
CollectionGeomStart(f, i, type, size) ==
  LET g == [f EXCEPT ![i].level = @ + 1]
      Delegate(h) == IF h[i].active = "collection"
                     THEN CollectionGeomStart(h, i + 1, type, size)
                     ELSE LeafGeomStart(h, i, type, size)
  IN  IF g[i].level = 1 /\ type = "COLLECTION"
      THEN Ok([g EXCEPT ![i].active = "null"])
      ELSE IF g[i].active # "null" THEN Delegate(g)
      ELSE LET h == [g EXCEPT ![i].active = ActiveFor(type)]
           IN  IF type = "COLLECTION"
               THEN Delegate(Append(SubSeq(h, 1, i), NewCollectionConstructor))
               ELSE Delegate(h)

\* The frame whose leaf constructor ring_start, coords and ring_end reach.
RECURSIVE Innermost(_, _)
Innermost(f, i) ==
  IF f[i].active = "collection" THEN Innermost(f, i + 1) ELSE i

\* Mutant of LeafRingStart: the points of an earlier part are kept.
LeafRingStartKeeps(f) == Ok(f)

LeafRingStart(f) ==
  LET i == Innermost(f, 1)
  IN  IF f[i].active = "polygon" THEN Ok([f EXCEPT ![i].ring_input = <<>>])
      ELSE IF f[i].active \in {"null", "undefined"} THEN Crash(f) ELSE Ok(f)

LeafCoords(f, at) ==
  LET i == Innermost(f, 1)
  IN  CASE f[i].active = "point" ->
             Ok(IF at = NaN THEN f ELSE [f EXCEPT ![i].points = Append(@, at)])
        [] f[i].active = "polyline" ->
             Ok([f EXCEPT ![i].line_input = Append(@, at)])
        [] f[i].active = "polygon" ->
             Ok([f EXCEPT ![i].ring_input = Append(@, at)])
        [] OTHER -> Crash(f)

\* PolygonConstructor::ring_end; rings occur in polygons only.
LeafRingEnd(f) ==
  LET i == Innermost(f, 1)
      points == FinishedPoints(f[i].ring_input)
      g == [f EXCEPT ![i].ring_input = <<>>]
      loop == Front(points)
  IN  IF f[i].active \in {"null", "undefined"} THEN Crash(f)
      ELSE IF f[i].active # "polygon" THEN Ok(f)
      ELSE IF UnprojectThrows(f[i].ring_input) THEN Throw(f)
      ELSE IF points = <<>> THEN Ok(g)
      ELSE IF options.check /\ ~LoopIsValid(loop) THEN Throw(g)
      ELSE Ok([g EXCEPT ![i].loops = Append(@, loop)])

\* PolylineConstructor::geom_end; the other leaf constructors have none.
LeafGeomEnd(f, i) ==
  LET points == FinishedPoints(f[i].line_input)
      g == [f EXCEPT ![i].line_input = <<>>]
  IN  CASE f[i].active \in {"null", "undefined"} -> Crash(f)
        [] f[i].active # "polyline" -> Ok(f)
        [] OTHER -> IF UnprojectThrows(f[i].line_input) THEN Throw(f)
                    ELSE IF points = <<>> THEN Ok(g)
                    ELSE Ok([g EXCEPT ![i].polylines = Append(@, points)])

\* Mutant of Finish: the polylines are not cleared.
FinishKeepsPolylines(f, i) ==
  CASE f[i].active = "point" ->
         [geog |-> [kind |-> "point", value |-> f[i].points],
          f    |-> [f EXCEPT ![i].points = <<>>]]
    [] f[i].active = "polyline" ->
         [geog |-> [kind |-> "polyline", value |-> f[i].polylines], f |-> f]
    [] f[i].active = "polygon" ->
         [geog |-> [kind |-> "polygon", value |-> f[i].loops],
          f    |-> [f EXCEPT ![i].loops = <<>>]]
    [] f[i].active = "collection" ->
         [geog |-> [kind |-> "collection", value |-> f[i + 1].features],
          f    |-> [f EXCEPT ![i + 1].features = <<>>]]

\* Mutant of FinishThrows: only the loops are checked, not the polygon.
FinishThrowsNever(f, i) == FALSE

\* PolygonConstructor::finish throws, after it has cleared its loops.
FinishThrows(f, i) ==
  f[i].active = "polygon" /\ options.check /\ ~PolygonIsValid(f[i].loops)

\* finish() of the active constructor of frame i: the geography it built and
\* the frames with its state cleared.
Finish(f, i) ==
  CASE f[i].active = "point" ->
         [geog |-> [kind |-> "point", value |-> f[i].points],
          f    |-> [f EXCEPT ![i].points = <<>>]]
    [] f[i].active = "polyline" ->
         [geog |-> [kind |-> "polyline", value |-> f[i].polylines],
          f    |-> [f EXCEPT ![i].polylines = <<>>]]
    [] f[i].active = "polygon" ->
         [geog |-> [kind |-> "polygon", value |-> f[i].loops],
          f    |-> [f EXCEPT ![i].loops = <<>>]]
    [] f[i].active = "collection" ->
         [geog |-> [kind |-> "collection", value |-> f[i + 1].features],
          f    |-> [f EXCEPT ![i + 1].features = <<>>]]

\* CollectionConstructor::geom_end of the constructor in frame i.
RECURSIVE CollectionGeomEnd(_, _)
CollectionGeomEnd(f, i) ==
  LET g == [f EXCEPT ![i].level = @ - 1]
      ended == IF g[i].level < 1 THEN Ok(g)
               ELSE IF g[i].active = "collection" THEN CollectionGeomEnd(g, i + 1)
               ELSE LeafGeomEnd(g, i)
  IN  IF ended.err # "" \/ g[i].level # 1 THEN ended
      ELSE LET done == Finish(ended.f, i)
           IN  IF FinishThrows(ended.f, i) THEN Throw(done.f)
               ELSE Ok([done.f EXCEPT ![i].features = Append(@, done.geog),
                                      ![i].active = "null"])

-----------------------------------------------------------------------------
(* FeatureConstructor and the builder_* callbacks.                         *)

\* FeatureConstructor::feat_start, which opens an outer collection itself.
FeatStart(f) ==
  CollectionGeomStart([f EXCEPT ![1].active = "null", ![1].level = 0,
                                ![1].features = <<>>],
                      1, "COLLECTION", 1)

\* FeatureConstructor::finish_feature: the geography and the frames after.
FinishFeature(f) ==
  LET e == CollectionGeomEnd(f, 1)
      features == e.f[1].features
  IN  IF features = <<>>
      THEN [geog |-> [kind |-> "collection", value |-> <<>>], f |-> e.f]
      ELSE [geog |-> Last(features),
            f    |-> [e.f EXCEPT ![1].features = Front(@)]]

Allocate(size) == [size |-> size, elt |-> <<>>]

\* Mutant of ResultAppend: grows one feature too late.
ResultAppendLate(value) ==
  /\ result' = IF feat_id > result.size
               THEN [size |-> result.size * 2 + 1, elt |-> Append(result.elt, value)]
               ELSE [result EXCEPT !.elt = Append(@, value)]
  /\ feat_id' = feat_id + 1

\* builder_result_append.
ResultAppend(value) ==
  /\ result' = IF feat_id >= result.size
               THEN [size |-> result.size * 2 + 1, elt |-> Append(result.elt, value)]
               ELSE [result EXCEPT !.elt = Append(@, value)]
  /\ feat_id' = feat_id + 1

Init ==
  /\ options \in [projection : {"none", "unproject", "tessellate"}, check : BOOLEAN]
  /\ vector \in Vectors
  /\ known \in BOOLEAN
  /\ feat = 0
  /\ events = <<>>
  /\ frames = <<NewCollectionConstructor>>
  /\ result = NotAllocated
  /\ feat_id = 0
  /\ status = "start"

vector_start ==
  /\ status = "start"
  /\ result' = Allocate(IF known THEN Len(vector) ELSE UnknownCapacity)
  /\ feat_id' = 0
  /\ status' = "vector"
  /\ UNCHANGED <<options, vector, known, feat, events, frames>>

feature_start ==
  /\ status = "vector"
  /\ feat < Len(vector)
  /\ feat' = feat + 1
  /\ frames' = FeatStart(frames).f
  /\ events' = IF vector[feat + 1] = NullFeature THEN <<[ev |-> "null_feature"]>>
               ELSE GeometryEvents(vector[feat + 1])
  /\ status' = "feature"
  /\ UNCHANGED <<options, vector, known, result, feat_id>>

\* builder_feature_null; WK_ABORT_FEATURE makes the reader skip feature_end.
null_feature ==
  /\ status = "feature"
  /\ events # <<>> /\ events[1].ev = "null_feature"
  /\ ResultAppend(NullElement)
  /\ events' = <<>>
  /\ status' = "vector"
  /\ UNCHANGED <<options, vector, known, feat, frames>>

\* Any other callback: an exception becomes an R error that ends the run.
Handle(ev, r) ==
  /\ status = "feature"
  /\ events # <<>> /\ events[1].ev = ev
  /\ frames' = r.f
  /\ events' = Tail(events)
  /\ status' = CASE r.err = ""      -> "feature"
                 [] r.err = "throw" -> "error"
                 [] OTHER           -> "crash"
  /\ UNCHANGED <<options, vector, known, feat, result, feat_id>>

geometry_start == Handle("geometry_start",
                         CollectionGeomStart(frames, 1, events[1].type, events[1].size))
geometry_end == Handle("geometry_end", CollectionGeomEnd(frames, 1))
ring_start == Handle("ring_start", LeafRingStart(frames))
ring_end == Handle("ring_end", LeafRingEnd(frames))
coord == Handle("coord", LeafCoords(frames, events[1].at))

feature_end ==
  /\ status = "feature"
  /\ events = <<>>
  /\ LET r == FinishFeature(frames)
     IN  ResultAppend(r.geog) /\ frames' = r.f
  /\ status' = "vector"
  /\ UNCHANGED <<options, vector, known, feat, events>>

\* builder_result_finalize shrinks the vector to the features appended.
vector_end ==
  /\ status = "vector"
  /\ feat = Len(vector)
  /\ result' = [result EXCEPT !.size = feat_id]
  /\ status' = "end"
  /\ UNCHANGED <<options, vector, known, feat, events, frames, feat_id>>

\* The reader meets a parse error: builder_error raises an R error.
reader_error ==
  /\ status \in {"vector", "feature"}
  /\ status' = "parse_error"
  /\ UNCHANGED <<options, vector, known, feat, events, frames, result, feat_id>>

\* builder_deinitialize, after success and after an error alike.
deinitialize ==
  /\ status \in {"end", "error", "parse_error"}
  /\ result' = IF status = "end" THEN result ELSE NotAllocated
  /\ status' = "done"
  /\ UNCHANGED <<options, vector, known, feat, events, frames, feat_id>>

Next ==
  \/ vector_start
  \/ feature_start
  \/ null_feature
  \/ geometry_start
  \/ geometry_end
  \/ ring_start
  \/ ring_end
  \/ coord
  \/ feature_end
  \/ vector_end
  \/ reader_error
  \/ deinitialize

Spec == Init /\ [][Next]_vars
-----------------------------------------------------------------------------
(* Properties.                                                             *)

\* What a geometry means, written down directly from its tree.
RECURSIVE PointsOf(_), LinesOf(_), LoopsOf(_), Meaning(_), Invalid(_)
PointsOf(g) == IF g.type = "POINT" THEN SelectSeq(g.coords, LAMBDA c : c # NaN)
               ELSE FlattenSeq([i \in DOMAIN g.parts |-> PointsOf(g.parts[i])])
LinesOf(g) == IF g.type = "LINESTRING"
              THEN SelectSeq(<<FinishedPoints(g.coords)>>, LAMBDA l : l # <<>>)
              ELSE FlattenSeq([i \in DOMAIN g.parts |-> LinesOf(g.parts[i])])
LoopsOf(g) ==
  IF g.type = "POLYGON"
  THEN LET rings == SelectSeq([i \in DOMAIN g.rings |-> FinishedPoints(g.rings[i])],
                              LAMBDA r : r # <<>>)
       IN  [i \in DOMAIN rings |-> Front(rings[i])]
  ELSE IF g.type \notin PolygonTypes THEN <<>>
  ELSE FlattenSeq([i \in DOMAIN g.parts |-> LoopsOf(g.parts[i])])
Meaning(g) ==
  CASE g.type \in PointTypes   -> [kind |-> "point", value |-> PointsOf(g)]
    [] g.type \in LineTypes    -> [kind |-> "polyline", value |-> LinesOf(g)]
    [] g.type \in PolygonTypes -> [kind |-> "polygon", value |-> LoopsOf(g)]
    [] OTHER -> [kind  |-> "collection",
                 value |-> [i \in DOMAIN g.parts |-> Meaning(g.parts[i])]]

\* A geometry that has no meaning: a coordinate that cannot be unprojected,
\* loops that make no polygon when the writer checks, a part of the wrong type.
\* (PolygonConstructor has no geom_start: a part of a multipolygon that is no
\* polygon is not refused, and adds no loop.)
Invalid(g) ==
  \/ /\ g.type \in HasParts
     /\ \E i \in DOMAIN g.parts :
          \/ /\ g.type \in {"MULTIPOINT", "MULTILINESTRING"}
             /\ ActiveFor(g.parts[i].type) # ActiveFor(g.type)
          \/ /\ g.type # "MULTIPOLYGON" \/ g.parts[i].type = "POLYGON"
             /\ Invalid(g.parts[i])
  \/ /\ g.type \in PolygonTypes
     /\ options.check /\ ~PolygonIsValid(LoopsOf(g))
  \/ g.type = "POLYGON" /\ \E i \in DOMAIN g.rings : UnprojectThrows(g.rings[i])
  \/ g.type = "LINESTRING" /\ UnprojectThrows(g.coords)

\* Every feature becomes the geography its own tree means, in its own place,
\* whatever the features before it left behind in the shared constructors.
FeaturesMeanTheirInput ==
  \A k \in DOMAIN result.elt :
    result.elt[k] = IF vector[k] = NullFeature THEN NullElement
                    ELSE Meaning(vector[k])

\* The append position stays inside the allocated list, and a finished vector
\* has one element per feature of the input.
ResultFits ==
  /\ result # NotAllocated => feat_id = Len(result.elt) /\ feat_id <= result.size
  /\ status = "end" => feat_id = Len(vector) /\ result.size = feat_id

\* No callback reaches a constructor through a null or uninitialized
\* active_constructor_.
NoNullConstructor == status # "crash"

\* Exactly the features without a meaning stop the run: none of them reaches
\* its end, and no exception is thrown in any other.
InvalidFeaturesStopTheRun ==
  /\ status = "feature" /\ events = <<>> => ~Invalid(vector[feat])
  /\ status = "error" => Invalid(vector[feat])

\* Between features the leaf constructors hold nothing and every collection
\* is closed: nothing can leak into the next feature.
CleanBetweenFeatures ==
  status = "vector" =>
    \A i \in DOMAIN frames :
      /\ frames[i].points = <<>> /\ frames[i].polylines = <<>>
      /\ frames[i].loops = <<>> /\ frames[i].line_input = <<>>
      /\ i > 1 => frames[i].level = 0 /\ frames[i].features = <<>>

\* A stream of wk events becomes one geography for each feature, the one its
\* own events mean, or stops at the first feature that means none; nothing of
\* a feature is left in the constructors that all features share.
FeaturesExact ==
  /\ FeaturesMeanTheirInput
  /\ ResultFits
  /\ NoNullConstructor
  /\ InvalidFeaturesStopTheRun
  /\ CleanBetweenFeatures
=============================================================================
