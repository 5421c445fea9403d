# TLA+ models of r-spatial/s2

The repository is an R package for geometry on the sphere. It carries a copy of
Google's S2 library (`src/src/s2`), a small C++ layer of geography objects on top
of it (`src/src/s2geography`), and the Rcpp functions that R calls
(`src/src/*.cpp`). This directory models the parts whose correctness depends on
*control*: threads, queued work, callbacks, state that is kept between calls,
ownership, walks along sorted vectors, case distinctions over degenerate input.
Floating-point geometry is replaced by small exact geometries.

Contents: [inventory](#inventory), [modules](#modules), [runs](#runs),
[fairness](#fairness), [proofs](#proofs), [findings](#findings),
[what is not modelled](#what-is-not-modelled), [plan](#plan).

## Inventory

Paths are below `src/src`.

| Component | State | Operations | Hard behaviour |
|---|---|---|---|
| `MutableS2ShapeIndex` (`s2/mutable_s2shape_index.*`) | shapes, cell map, queue of additions and removals, status, spinlock, temporary `UpdateState` with a mutex and a count of waiters | `Add`, `Release`, `ReleaseAll`, `Minimize`, const queries that build the index on first use | many threads meet the first query; the `UpdateState` is read without a lock and freed by whoever is last; memory may be refused in the middle |
| `BatchGenerator` (same files) | batch sizes, current batch, position in the shapes | `AddShape`, `ExtendBatch`, `FinishBatch`, `Finish` | integer divisions decide where a shape is cut |
| Index cells (same files) | cell map, interior tracker | subdivision, absorption of old cells, skipped ranges | what a batch adds must fit what earlier batches left |
| Cell ids, vectors, unions (`s2/s2cell_id.*`, `s2/s2cell_union.*`, `s2-cell-union.cpp`) | a sorted vector of disjoint cells | normalize, set operations, contains, intersects, tile a range | results must stay normalized without being normalized again |
| Cell lookup (`s2/s2cell_iterator.h`) | position in sorted index cells | `Seek`, `Prev`, `Locate` | the target may be inside, around or between index cells |
| Joins (`s2/s2cell_range_iterator.h`, `s2shapeutil_visit_crossing_edge_pairs.cc`, `s2loop.cc`, `s2cell_iterator_join.h`) | two iterators over cells of different sizes | crossing pairs, relation of loops, pairs of nearby cells | no pair may be skipped or met twice |
| Closest queries (`s2/s2closest_*_query_base.h`, `s2cell_index.*`, `s2point_index.h`) | results, sinking limit, queue; kept coverings and iterators | `FindClosest…` by brute force or by branch and bound | state kept between queries; what is skipped is lost |
| Region coverer, term indexer (`s2/s2region_coverer.*`, `s2region_term_indexer.*`) | result, priority queue | coverings, canonical form, terms | `max_cells` against `min_level` and `level_mod` |
| Predicates (`s2/s2predicates.cc`, `s2wedge_relations.cc`, …) | none | `Sign`, orders, comparisons of distances | ties are broken by a symbolic perturbation |
| Edge crosser, containment (`s2/s2edge_crosser.*`, `s2contains_point_query.h`) | what is known of the last vertex | `RestartAt`, `CrossingSign`, `EdgeOrVertexCrossing` | kept orientation and tangents |
| `S2Builder` (`s2/s2builder.cc`) | vertices, edges, layers, label sets; sites; chains | add, snap, simplify, reset | reuse; a chain of conditions that keep edges near and apart |
| Builder graph and layers (`s2/s2builder_graph.*`, `s2builderutil_*`) | sorted edges, input ids | edge options, loops, polylines, degeneracies, closed sets | degenerate, duplicate and sibling edges in all combinations |
| Hash table, lexicons (`s2/util/gtl/*`, `*_lexicon.h`) | buckets with deleted marks, thresholds | insert, erase, copy, move, clear | marks count as elements; a value is appended to be looked up |
| Polygons (`s2/s2polygon.cc`, `s2loop.cc`) | loops with depths | `InitNested`, `InitOriented`, `Invert`, relations of loops | orientation decided from others |
| Boolean operations (`s2/s2boolean_operation.cc`) | crossing processor, clipper | union, intersection, difference for every boundary model | degenerate pieces on the boundary of the other region |
| Construction (`s2geography/constructor.h`, first half of `s2-constructors-formatters.cpp`) | reused constructors, growing result list | one callback per wk event | reused buffers, errors half way |
| Matrix operators (`s2geography/index.h`, `s2-matrix.cpp`) | one shape index for all of `y` | query with a covering, exact predicate, closest and farthest | a candidate lost between covering and index is lost for good |
| Pairwise operators (`geography-operator.h`, `s2-predicates.cpp`) | `s2_prepared_dwithin` keeps a covering and a query | pairs in order | the kept covering can be stale |
| `S2UnionAggregator` (`s2geography/build.*`, `s2-transformers.cpp`) | nodes, each with two indexes and the data it owns | `Add`, `Finalize` | a vector is erased from and appended to while it is walked; ownership |

How they interact. R calls a wk reader, whose callbacks drive the constructors;
the geographies they return own their points, polylines and polygons, and a
polygon is put together from loops (nesting, containment, predicates). The first
operation that needs it puts the shapes of a geography into a
`MutableS2ShapeIndex`, which builds its cells in batches on the first query.
Matrix operators put the shapes of a whole vector into one such index and query
it with coverings, by locating cells, or with closest-edge queries; joins of two
indexes find the crossings that boolean operations and polygon relations need.
Boolean operations hand edges to `S2Builder`, which snaps and simplifies them and
gives each layer a graph; labels and sets of ids are kept in lexicons over hash
tables. Aggregators put geographies into the indexes of nodes and merge them with
boolean operations. All decisions about points are made by the predicates.

What makes each correct:

* shape index: no use of a freed `UpdateState` and no leak, no deadlock, every
  reader sees exactly the live shapes, laziness is invisible;
* batches and cells: every edge in one batch, cut shapes alone until complete;
  the cells are those of an index built afresh;
* cell vectors and unions: the set algebra of leaf cells, in normal form;
* lookup, joins, closest queries, cell index: the answers of brute force;
* coverer: covers the region, canonical, small; terms find what coverings meet;
* predicates: together the answers of one configuration in general position;
* crosser and containment: what the predicates say, whatever is remembered;
* builder: what was added is recorded over reuse; snapped edges stay near and do
  not cross, simplified ones stand for what they replace; graphs keep what the
  options say; chains use each edge once; closed sets keep their points;
* hash table and lexicons: sets;
* polygons and boolean operations: the point sets the operations mean;
* construction: a feature is made of its own events only, invalid ones stop;
* index of geographies, prepared operators: every pair as if it were alone;
* aggregation: every element once, nothing dangling.

## Modules

| Module | Models | State and actions |
|---|---|---|
| `ShapeIndexContract` | the promise of the shape index | `shapes`, `answer`; add, remove, read in one step |
| `MutableS2ShapeIndex` | `mutable_s2shape_index.*` except batches and cells | one variable per data member, `pc` per thread; one action per non-const method; `ApplyUpdatesThreadSafe` and `UnlockAndSignal` cut at every point where another thread may see a difference |
| `BatchGenerator` | `GetUpdateBatches`, `BatchGenerator` | `gen` holds the generator's fields; one action per queued shape |
| `ShapeIndexCells` | `AddShape`, `RemoveShape`, `UpdateFaceEdges`, `FinishPartialShape`, `InteriorTracker` | cells and tracker; one action per batch and face |
| `S2CellVector` | `s2cell_id.*`, the functions of `s2cell_union.*` on vectors, canonical coverings, `S2CellIterator::LocateImpl` | operators only; an id is the integer its bits stand for |
| `S2CellUnion` | `s2cell_union.cc` as `s2-cell-union.cpp` drives it | `cell_ids`, the leaf cells `expected` of it, the last `reply`; one action per operation |
| `S2IndexJoin` | range iterators, crossing pairs, `HasCrossingRelation`, tolerant join | two iterators; one action per iteration |
| `S2ClosestQuery`, `S2ClosestEdgeQuery`, `S2ClosestCellQuery`, `S2ClosestPointQuery` | the common search and its three users | results, limit, queue, kept iterators; one action per queue entry or item |
| `S2CellIndex` | `s2cell_index.*` | tree and ranges; `VisitIntersectingCells`, contents iterator |
| `S2RegionCoverer` | `s2region_coverer.*`, `s2region_term_indexer.*` | result and queue; one action per candidate |
| `S2Predicates` | `s2predicates.cc`, wedge relations, crossings at vertices, reference points, distance predicates | operators only |
| `S2PredicateLaws` | what callers of the predicates and of `Contains` rely on | points drawn one by one; loops asked about points |
| `S2EdgeCrosser` | `s2edge_crosser.*` | the crosser's fields; one action per call |
| `S2BuilderInput` | `Add…`, labels, `Reset` of `s2builder.cc` | fields of the builder, among them the label set id that survives `Reset`; one action per call |
| `S2BuilderSnapping` | `ChooseSites`, `SnapEdge` | sites, chains |
| `S2BuilderSimplifier` | `EdgeChainSimplifier` | merged graph, chains; one action per vertex and chain |
| `S2BuilderGraph`, `S2BuilderLayers` | `Graph`: `ProcessEdges`, loops, components, polylines; `BuildLayers` | operators; edges, options, output |
| `S2ClosedSet` | `s2builderutil_find_polygon_degeneracies.cc`, lax polygon layer, closed-set normalizer | operators; one action per piece |
| `DenseHashTable` | `util/gtl/densehashtable.h` | buckets, counters, thresholds of two tables, with or without an empty key; one action per method |
| `Lexicons` | the three lexicons | the vectors and ids of two of each, whether each one's hash functions are bound to it, the history of ids returned; one action per method |
| `S2PolygonNesting` | loop relations, `InitNested`, `InitOriented`, `Invert` | loops; one action per step of the call |
| `S2BooleanOperation` | crossing processor, clipper, predicates | `cp`; one action per chain |
| `FeatureConstructor` | `constructor.h` and the `builder_*` callbacks | a stack of constructors, the result list; one action per callback |
| `GeographyIndex` | `index.h`, indexed operators of `s2-matrix.cpp`, `s2_disjoint_matrix` | shapes, `values_`, cells, output; one action per element of `y` and of `x` |
| `PreparedDWithin` | `cpp_s2_prepared_dwithin` | covering, its owner, the query; one action per pair |
| `S2UnionAggregator` | `S2UnionAggregator`, `cpp_s2_union_agg` | nodes, objects with content and owner; one action per `Add` and merge |
| `*Proofs` | | the theorems about the module they are named after |

`MC*` modules give constants their values and put modules that share a run into
one specification, where `active` says whose behaviour it is: the behaviours are
disjoint, so nothing is hidden by the combination. `Parts` names the ones that a
run explores; the runs that are expected to fail explore one.

Abstractions worth knowing:

* A shape of the shape index is its id, its cell map the set of ids whose edges
  it holds; what cells hold is `ShapeIndexCells`.
* Mutations of the index happen while no const method runs; the code requires
  that of its callers (`UnlockAndSignal`, line 644). The atomic status is read
  and written with release and acquire order and everything else under `lock_` or
  `wait_mutex`; so the models interleave atomically.
* Cell modules live on `MaxLevel` levels and `NumFaces` faces (30 and 6 in the
  code); nothing refers to the Hilbert curve but the order of the children.
* Where a module searches (`ShapeIndexCells`, joins, closest queries, coverer,
  `GeographyIndex`), the sphere is the space-filling curve: a geography is a set
  of leaf cells, distance is distance along the curve. In `GeographyIndex` and
  `PreparedDWithin` **every** set of disjoint cells that covers the shapes is a
  possible index, and every one that covers a region a possible covering.
* Points of the predicates are integer vectors, exact, never normalised; a
  floating-point filter answers right or not at all, up to `MaxDetError`.
* Snapping takes place in a plane with a grid; there the extra sites of edges that
  bend on the sphere never arise.
* In `S2BuilderSimplifier` the geometric tests are nondeterministic: what is
  checked holds whatever they answer.
* In `S2BooleanOperation` the edges of the two regions meet only at vertices.
* In `FeatureConstructor` a coordinate is a letter; `NaN` makes a point invalid.
* In `S2UnionAggregator` each element covers a place of its own, so no element can
  stand in for a lost one.
* `Lexicons` uses the hash table by its contract, which `DenseHashTable` shows.
  Whether the hash functions are bound to their own lexicon is kept: functions
  bound to another read its sequences, in which an equal one is not found.
* A table of `DenseHashTable` `fits` if it was given its buckets while it had no
  elements and thresholds of their number. Tables that do not fit, which a move or
  an assignment can leave, are modelled but no more is claimed of them than that
  they fail (`NeverFull`).

## Runs

| Run | Bounds | Shows |
|---|---|---|
| `index_live` | 3 threads, 3 shapes, memory may be refused, fairness | the inductive invariants of the proofs; every query returns |
| `index_queries` | 3 threads, 3 shapes, no memory limit; 2 faces of 2 levels; batches of 3 shapes of up to 9 edges | types, lifetime of the `UpdateState`, readers see exactly the live shapes, undisturbed; refinement of `ShapeIndexContract`; batches tile; cells are those of an index built afresh; unions; joins meet what they have to (`JoinsExact`), the tolerant one nothing twice (`NearJoinedOnce`); closest queries |
| `coverings` | 2 faces of 3 levels | coverings fit, terms find, the cell index is exact |
| `r_package` | vectors of up to 2 features of every kind; 9 geographies, `y` of up to 2; 3 pairs with one distance; 6 mixed or 20 polygon elements; hash tables of up to 8 buckets, with 1 bucket used in a table that does not fit | construction, matrix operators, prepared predicate, aggregation; hash tables (`TablesExact`) |
| `geometry` | up to 5 points equal, opposite, collinear; chains over 7 points; octahedron and cube; 3 loops of a pool; 26 × 26 regions, all operations and boundary models | consistency of predicates, crosser, containment; polygons, boolean operations |
| `builder` | 2 edges, 2 layers, 1 reuse; sequences of up to 2 values; 3 snapped edges; 3 chains; a start graph and 2 of 5 more edges with every option; a shell and 2 pieces | recording, lexicons (`LexiconsExact`), snapping, simplification; graphs, chains, closed sets |
| `near_join` | the joins of `index_queries` | finding |
| `open_difference_empty` | the boolean operations of `geometry` | finding |
| `prepared_dwithin_varied` | 2 pairs with growing distances | finding |
| `stale_labels` | the input of `builder` | finding |
| `loose_tables` | tables that start with 2 buckets, 2 of them used | finding |
| `refused_memory` | 2 threads, 2 shapes, memory may be refused | finding |

Why the bounds are enough. Three threads give an updater, a waiter and a late
reader, which are all the roles of `ApplyUpdatesThreadSafe`, and two waiters at
once; the proofs cover any number. Three shapes let one be queued for removal,
one be in the cells and one be pending. A budget of two edges makes the list of
batch sizes so long that its end is reached in the middle of a shape. Two levels make a collapse cascade and
let a cell sought be an ancestor, a descendant or a cousin of an index cell; two
faces give a boundary between cells without a common ancestor; the coverer has
three levels for `level_mod` to skip one. Two features in a row are enough for one
to leave something behind for the next. Elements of `x` are independent, since
every search starts with `Seek` and the buffers are cleared. Five points are what
the laws of the predicates are about. Three snapped edges are enough for a site to
be kept away from one by another. One reuse of the builder is enough, since `Reset`
leaves nothing but `label_set_id_`. Twenty polygons make ten nodes and four rounds
of merging.

`CHECK_DEADLOCK FALSE` is used where a call ends, which is everywhere but in
`index_live` and `refused_memory`. Each property of a passing run has a mutant in
`PROJECT.json`: a definition with a plausible bug, next to the definition it
changes, under which TLC finds the property violated. The `geometry` run needs a
heap of about 1.5 GB; every run ends within five minutes on two cores.

## Fairness

Only `index_live` assumes fairness: weak fairness of `Continue(t)`, the next step
of a thread that is inside a const method. The operating system keeps scheduling
a runnable thread, a spinlock that is free long enough can be taken, and a mutex
that is free is given to a waiter. Weak fairness of the whole disjunction is
enough although the spinlock is not fair: a thread takes it at most twice per
query and, once the index is FRESH, others no longer need it. Nobody is assumed
to start a query or to mutate the index.

## Proofs

| Theorem | Statement |
|---|---|
| `MutableS2ShapeIndexProofs` | any finite set of threads, any number of shapes |
| `TypesCorrect` | `Spec => []TypeOK` |
| `SyncCorrect` | `Spec => [](TypeOK /\ SyncInv)` |
| `UpdateStateSafe` | `Spec => []UpdateStateLifetime` |
| `WaitersLetGo` | `Spec => []WaitersServed` |
| `ContentsCorrect` | `Spec => []ContentsInv` |
| `RemovalsFirst` | `Spec => []RemovalsPrecedeAdditions` |
| `ReadersCorrect` | `Spec => []ReadersSeeLiveShapes` (no memory limit) |
| `ReadersStable` | `Spec => ReadersUndisturbed` |
| `Refinement` | `~MemoryLimited => (Spec => ImplementsContract)` |
| `BatchGeneratorProofs` | any number of queued shapes of any size, any memory budget, any estimates per edge |
| `BatchesCorrect` | `BatchesSpec => []BatchesExact` |
| `S2CellUnionProofs` | any number of levels and faces, any vectors of cells |
| `UnionCorrect` | `UnionSpec => []UnionExact` |
| `CellQueriesExact` | `Contains` and `Intersects` of a cell and a normalized union |
| `GeographyIndexProofs` | any number of levels, faces, geographies and lengths; any index cells and coverings |
| `LocateExact` | `Locate` of a cell in any disjoint index cells, and where it leaves the iterator |
| `MatrixCorrect` | `MatrixSpec => []MatrixExact` |
| `PreparedCorrect` | `DWithinSpec => [](NeverGrows => PreparedIsPairwise)` |
| `S2IndexJoinProofs` | any number of levels, faces, cells and edges, cells of any sizes; any number of edges from which a query replaces the walk |
| `JoinsCorrect` | `JoinSpec => []JoinsExact` |
| `S2PredicateProofs` | all integer points and chains, any error of the filters |
| `PredicatesCorrect` | `LawSpec => []PredicatesConsistent` |
| `CrosserCorrect` | `CrosserSpec => []CrosserExact` |
| `S2BuilderInputProofs` | any points, labels, layers, edges and uses |
| `RecordedCorrect` | `InputSpec => []InputRecorded` |
| `LexiconsCorrect` | `LexiconSpec => []LexiconsExact`: any values, sequences of any length, less than a million ids |
| `S2UnionAggregatorProofs` | vectors of any length |
| `AggregateCorrect` | `Spec => []AggregateExact` |

Assumptions. Each is named where the constant is declared, and TLC evaluates it
in the runs. `Threads` is finite, `NoThread`, `None`, `Nil` and `Missing` are not
what they stand for the lack of, bounds and distances are naturals, points are
integer vectors, geographies are made of leaf cells. These say more:

* `BytesPerEdge`: an edge takes at least twice as much memory while it is indexed
  as it does afterwards (226 and 8 bytes in the code). `SeveralBatches`:
  `kMaxBatches` is more than one (100 in the code).
* `CellsDivideRegion` and `CellsDivideFeature`: the cells of an index are disjoint
  and cover what was indexed. `IndexCellsExact` checks that of the model of the
  shape index.
* `CoveringsCover` and `CoveringsCoverBuffer`: a covering covers its region. That
  is what `CoveringFits` checks of the coverer.
* `PairsAssumption`: the indexes that are joined have disjoint cells that cover
  their edges, and a cell without edges lies inside its region or outside
  (`IsIndex`). `IndexCellsExact` checks that of the model of the shape index.
* `OperandsAreCells`: unions are built from vectors of valid ids.
* `ValuesAreNat`, `IdsAreNoEmptySet`: a lexicon holds numbers that are not negative,
  and so few sequences that no complement of an id is `kEmptySetId` (2^31 in the
  code, a million in the model).
* `PowersOfTwo`, `PowersOfFour`: facts about `^` (powers of four are positive, that
  of a sum is a product), of which the provers know nothing.
* `RoundsSuffice`: the bound on rounds of merging is no limit.

*Shape index.* `UpdateStateLifetime` is not inductive: whether the `UpdateState`
may be freed depends on a number that `UnlockAndSignal` read before it released
the lock. `SyncInv` adds who owns `lock_` and `wait_mutex` (`LockOwner`,
`MutexOwner`), that the status is UPDATING exactly during an update
(`StatusOfUpdate`), that nobody waits while it is STALE (`StaleIsUntouched`), that
`num_waiting` is the number of threads that wait (`WaitersCounted`), and that the
local copy of it is still exact while the mutex is held (`UnlockCountExact`).
There is one lemma per action; `StartWaiting` and `StopWaiting`, which change the
set of waiters, use the cardinality theorems. The mutex makes the stale copy
harmless: only its owner lowers `num_waiting`, and nobody starts waiting once the
index is FRESH. `ContentsInv` says that the cells are the processed live shapes
and the queued removals, that removals lie before `pending_additions_begin_`, and
that a FRESH index has nothing queued, the last only without a memory limit: what
is left behind FRESH when memory is refused is the finding `refused_memory`. Together they give `ReadersSeeLiveShapes`
and, step by step, the refinement: a mutation maps to the contract's mutation, the
step that makes a thread a reader to `BeginRead`, all of the building to
stuttering.

*Batches.* `BatchesInv` has three parts. `SizesInv` is about `max_batch_sizes_`: the
sizes fall, to no less than half of the one before (except behind a first size
that the removed edges fill), are positive, and together have room for all edges
before the duplicated last one. It is proved of `GetMaxBatchSizes` itself: that
no more edges are removed than the first size takes rests on the comparison with
the ideal size, that the sizes have room for all on the loop, which takes away at
least one edge a turn. `WithinSizes` is the heart of the generator: the sizes up
to `batch_index` have room for exactly the edges of the batches so far and
`edges_left` more, and `edges_left` is less than the last of them. So while edges
are left that do not fit into the current batch there is a next size
(`LookAheadStays`), which is why `next_max_batch_size` never reads behind the
vector, and the loop of `FinishBatch` makes at most one turn (`AdvanceIndexIs`).
`BatchOK` is what `BatchesExact` says of each batch. The loop of `AddShape` keeps
`Fills`, ends since only its first turn may fill no edge (`FillBatchesFill`), and
leaves a rest that two batches hold; that the room left is at most twice the next
size (`RoomHalves`) makes the division by two cut a piece that is neither negative
nor the whole rest (`SplitShapeKeeps`). The loops are recursive functions; that
they are what they seem is proved with a least counterexample (`Induction`,
`LoopExists`).

*Cells.* An id is an odd multiple of its least bit (`CellForm`), so the ids of the
descendants of a cell are an interval around it in which only they lie, and two
cells are nested or apart (`Laminar`). The leaf cells are the odd numbers
(`OddIsLeafOf`), so that what two cells leave between them can be counted. From
this follow the binary searches: the cell found by `Seek` or the one before it is
the only one that can contain the target (`LocateInside`), and if neither does,
every index cell inside the target comes after the place found (`LocateAround`).

*Cell unions.* `UnionInv` says that the vector is one of cells, is normalized and
covers what is expected, and that the last answer was right. All of it is needed at
once, since the walks and searches are right for normalized vectors only. A vector
is normalized if and only if its cells precede one another and no cell has all of
its children among them (`NormalizedIs`). That last part is what each operation
owes. `Normalize` collapses until no family is left at the end, and a parent that
is put there contains all that it replaces (`CollapseStepIs`); rounds are bounded
since each goes up a level. `Intersection` gives cells of one of the two unions
that lie in cells of both: were all children of a cell given, the cell itself
would lie in a cell of each, and no child of it could be in either
(`IntersectionIs`). `Difference` divides a cell only where the other union meets
it and so meets one of its children, which is not left whole (`DifferenceIs`).
The tiles of a range are maximal, and the first child of a cell is so only where
the range ends before the last child does (`TilesNormalized`). A binary search
that skips cells is harmless because what it passes precedes the other walk's cell
(`AllPrecede`, `CommonSkip`, `HolderIs`). Every recursion has a rank that falls
(`RecursionExists`), and is followed along it (`ByRank`).

*Matrix operators.* `MatrixInv` keeps that `shapes` and `values_` are those of the
elements added (`ShapesAreAdded`), that the cells divide their region
(`CellsAreBuilt`), and that every answer given so far is right. A step that
answers one `x` rests on `QueryFinds`: a leaf cell that both touch lies in a cell
of the covering and in an index cell, one of which contains the other, and
`Locate` finds the index cell in either case; that the candidates are then
filtered by the exact predicate makes the answer neither smaller nor larger than
that of brute force. An edge query answers with the least distance over the
shapes, which is the distance to the element the shape belongs to.

*Prepared predicate.* `KeptFits`: the kept query is for the same `y` as the kept
covering, which covers that `y` buffered by the distance of *some* earlier pair.
As long as distances do not grow, that buffer contains the one now needed
(`CoveringLetsPass`). The condition is not a convenience: the run
`prepared_dwithin_varied` violates the conclusion without it.

*Joins.* A range iterator that is behind seeks the other's cell, and so passes cells
that nobody has looked at; one that is at a cell in which the other is nested lets
a whole run of the other's cells be handled at once. `JoinInv` says of all this:
every pair of overlapping cells of which one has been passed has been handled
(`WalkInv`), and in the join of cells the pairs given out are exactly those, each
once (`CellsInv`). A step keeps it since `SeekTo` and `SeekBeyond` pass only cells
that lie beside the other iterator's cell, whose partners have been passed before
(`BesideIsPassed`, `NewlyPassed`). Handled are the pairs of edges that meet in the
cells and, in a relation, the centres that have both crossing targets; where many
edges are replaced by a query, that query reaches every cell that the edge has in
the subtree, as it descends from the face or the cell given to the children that
the edge touches and stops at index cells (`QueriesFindAll`). The walk ends when one
iterator is done, and then no overlapping pair is left. What is left is to see that
a leaf that two indexes share lies in a pair of overlapping cells, and that a cell
without edges speaks for all its leaves with its centre (`CenterSpeaks`).

*Predicates.* `Sign` breaks ties as if points were perturbed. The proof carries
the perturbation out: for any five points there are five vectors, no three on a
great circle, whose determinants have the signs that `Sign` returns
(`Realizable`). One point is moved after another, the smallest first, by steps too
small to change a sign that was not zero (`MovedDecides`). What holds for the
signs of all determinants, the Grassmann–Plücker relation above all, so holds for
`Sign`; the wedge relations follow from it.

*Crosser.* The invariant is what the kept orientation and tangents are. The filter
with the tangents works with the points as they are, the orientations with the
perturbed ones. The points are moved into general position in such a way that they
stay on their side of the tangents (`Keeps`); then a crossing would give the two
sides of an identity (`CrossingIdentity`) different signs.

*Builder input.* The invariant relates the edges of all layers to the history of
calls since the last `Build`, over any number of builds: an edge ends in the
vertices given (`VerticesInv`), and layers begin where the one before ended
(`LayersInv`). For the labels two things of the history are needed, whether any
were set or cleared since `Reset` (`labelled`) and the label set id that it left
(`kept`). As long as none were, the builder has no ids and `label_set_id_` is the
kept one; from then on an edge has the id of the labels it was given under, if
there were any by then, and else the kept id (`LabelsInv`). In a new builder that
is the empty set; that it is not in one used again is the finding `stale_labels`.

*Lexicons.* `LexiconsExact` is about ids returned in the past: each still stands for
what was added, the ids of equal sets are equal and those of different ones differ,
also after a copy, a move or an assignment. `LexiconInv` says that the begins tile
the vector of values (`TilingGrows`), that the hash set holds all ids from 0 on and
no two of their sequences are equal, that what was returned can be read back, and
that the hash functions are bound to the lexicon whose set they serve
(`AllBound`), which copies, moves and assignments have to see to.
`Add` appends to the vector before it looks the new id up, and takes the values
back when the set has an equal one. A set with one member is its own id, one with
more the complement of its sequence's id, which is negative, the empty one
`kEmptySetId`: so the three kinds are never confused (`IdsAgree`). That a set sorted
and made unique is determined by its members is `SortedIs`.

*Aggregator.* `AggInv` says that an object covers what its element covers and no
more (`HeapInv`), that nodes refer to objects that are alive and no deeper than
the rounds they went through (`TreeInv`), and that the root and the nodes together
cover exactly the elements added so far (`ContentInv`). `CountInv` counts: in a
round, twice the nodes less the position stays the number of nodes it started
with, and each of them stands for `2 ^ round` elements, so the rounds are bounded
by the logarithm of the elements.

### What is only model-checked

* Liveness (`QueryReturns`), which is beyond the prover.
* `IndexCellsExact`, `FeaturesExact`, `GraphFits`, `ChainsTile`,
  `ClosedSetExact`, `SnappingExact`, `NestingExact`: their modules use recursive
  operators, as the code recurses over trees, graphs and lists.
* `CoveringFits`, `TermsFindCoverings`, `NearJoinedOnce`, `ClosestFound`,
  `CellIndexExact`, `SimplifierExact`, `TablesExact`: they rest on folds over
  sequences and on recursive operators, and what these compute for every input
  needs induction over data. Where a recursion is over ranked places, as in
  `UnionExact`, it could be rewritten as a recursive function and followed with
  `RecursionExists`; that has not been done for these.
* Some properties say less than everything of what they name: `TablesExact` speaks
  of tables that fit; `DistancesExact` shows that `CompareEdgePairDistance` never
  says edges are further apart than they are, not the converse; `ChainsTile` leaves
  out walks with degenerate edges; `BooleanExact` judges the edges of a difference
  of polygons by the parts of the sphere they separate and by the degrees of
  vertices; `SyncInv` and `ContentsInv` say nothing of work queued behind FRESH
  under a memory limit, which is what `RefusedIndexDiscarded` is about.
* `DistancesExact`, `ContainmentExact`, `BooleanExact`, `EmptyAgrees`: not
  attempted. The first needs the inequality of Cauchy for the squared distances,
  the second the parity of crossings along closed chains.

## Findings

Runs that are expected to fail, each against a line of the repository:

* `near_join` (`s2cell_iterator_join.h:431`): a count that stops at twelve cells is
  taken for the number of cells, and pairs within the tolerance are missed.
* `open_difference_empty` (`s2boolean_operation.cc:1872`): `IsEmpty` says that the
  difference of two open polygons with a common edge is not empty although the
  result is.
* `prepared_dwithin_varied` (`s2-predicates.cpp:147`): the covering of the first
  distance is kept for a `y` that is recycled over growing distances; pairs that
  are near enough are then answered FALSE.
* `stale_labels` (`s2builder.cc:421`): `Reset` (lines 550 to 565) keeps
  `label_set_id_`, and a builder used again gives it to the edges before the first
  labels.
* `loose_tables` (`util/gtl/densehashtable.h:889`): a table that was moved from
  keeps its thresholds with 32 buckets, and `set_empty_key` does not renew them;
  the table fills up and a search in it never ends.
* `refused_memory` (`mutable_s2shape_index.cc:538`): when memory is refused to
  `Add` while a removal is queued, the index becomes FRESH (line 515) and queries
  meet a shape that was released. The package installs no memory tracker.

Seen while modelling, without a run:

* Removed edges that fit the first ideal batch can make the list of batch sizes
  longer than `kMaxBatches` (`mutable_s2shape_index.cc:903`).
* `s2_equals_matrix` does not find empty geographies equal (`s2-matrix.cpp:163`);
  `MatrixExact` is about the elements of `y` that are not empty.
* `s2_disjoint_matrix` reports a missing `x` disjoint from all of `y`
  (`src/R/s2-matrix.R:137`), where the brute-force matrix gives NULL.
* `CircleEdgeIntersectionOrdering` compares triple products that are not
  normalised.
* `BuildWalk` and `MaximizeWalk` may reorder a walk with degenerate edges; an
  undirected edge that is present twice makes `GetUndirectedComponents` fail.
* Loops oriented inconsistently give a polygon that depends on their order; the
  error flag is set.
* Boolean operations: `is_degenerate_hole_` (about line 1807) is looked up with an
  id of the other region; `b_chain_info` (about line 1084) is kept per shape;
  predicates decide the first edge of a degenerate chain before the map is
  filled. `EmptyAgrees` is therefore about simple polygons and not about the
  difference of open ones.
* Hash tables: assigning from a table without an empty key keeps `num_elements`
  of the target (`densehashtable.h:867`); the model does the same, and no property
  is claimed of the table.

## What is not modelled

* Floating-point geometry: clipping, projections, intersection points, error
  bounds, measures. Regions, radii and distances are exact in small geometries.
* Byte formats: the package does not call them. `EncodedS2ShapeIndex`: not used.
* Accessors, linear referencing, bounds: functions without state.
* `s2_rebuild`, `s2_unary_union`, `s2_geography_from_layers`: wrappers of modelled
  parts.
* Export to wk events; `s2_cell_*` vectors: walks without kept state.
* `RGeography`: its lazy index is one test and one assignment in R's only thread.
* R code: coercion, recycling, printing, plotting, except the functions that are
  part of `GeographyIndex` and `PreparedDWithin`.
* ALTREP, registration, Rcpp wrappers, the vendored abseil.
* In modelled parts: `touches`, `may_intersect`, `closest_edges` and the distance
  matrices; `Expand` of cell unions; filtering of vertices and the validation in
  polygon layers; the memory trackers of builder and boolean operation; resizing
  parameters of the hash table.

## Plan

Theorems next: `CellIndexExact` from the laws of cells that `S2CellUnionProofs`
states, with its recursions over the tree of cells followed along their rank;
`TablesExact`, beginning with the fact that quadratic
probing visits every bucket; `NearJoinedOnce`; `DistancesExact`.

Modules next: the exporter, composed with `FeatureConstructor` (what is exported
and constructed again is the same geography); `EncodedS2ShapeIndex` as another
implementation of `ShapeIndexContract`; the `s2_cell_*` vectors.
