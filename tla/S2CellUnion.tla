------------------------------ MODULE S2CellUnion ------------------------------
(***************************************************************************)
(* A region of the sphere as a sorted vector of disjoint cells:            *)
(* src/s2/s2cell_union.{h,cc}, as the s2_cell_union_* functions of         *)
(* src/s2-cell-union.cpp drive it.                                         *)
(*                                                                         *)
(* The state is one cell union that is built from vectors of cell ids and  *)
(* combined with others, with the set of leaf cells it should stand for,   *)
(* and the answer to the last question asked of it.                        *)
(***************************************************************************)
EXTENDS S2CellVector

CONSTANT Operands       \* vectors of cell ids to build unions from

ASSUME OperandsAreCells == Operands \subseteq Seq(CellIds)

VARIABLES cell_ids,     \* cell_ids_
          expected,     \* the leaf cells the union should stand for
          reply         \* [got, want] of the last query

union_vars == <<cell_ids, expected, reply>>

-----------------------------------------------------------------------------
(* The state machine.                                                      *)

NoReply == [got |-> FALSE, want |-> FALSE]

UnionInit == cell_ids = <<>> /\ expected = {} /\ reply = NoReply

\* The cell unions that this one meets, and their leaf cells.
Unions == { [cells |-> Normalize(v), leaves |-> LeavesOf(v)] : v \in Operands }

SetUnion(v, leaves) == cell_ids' = v /\ expected' = leaves /\ reply' = NoReply

\* A question leaves the union as it is: nothing follows on its answer.
Ask(got, want) == reply' = [got |-> got, want |-> want] /\ UNCHANGED <<cell_ids, expected>>

\* cell_union_from_cell_id_vector: ids in any order, repeated and nested.
FromVector ==
  /\ cell_ids = <<>>
  /\ \E y \in Unions : SetUnion(y.cells, y.leaves)

FromRange ==
  /\ cell_ids = <<>>
  /\ \E begin \in LeafIds, end \in LeafIds \cup {LeafEnd} :
       /\ begin <= end
       /\ SetUnion(FromBeginEnd(begin, end), { leaf \in LeafIds : begin <= leaf /\ leaf < end })

UnionWith == \E y \in Unions :
  SetUnion(Union(cell_ids, y.cells), expected \cup y.leaves)
IntersectionWith == \E y \in Unions :
  SetUnion(GetIntersection(cell_ids, y.cells), expected \cap y.leaves)
IntersectionWithCell == \E id \in CellIds :
  SetUnion(IntersectionCell(cell_ids, id), expected \cap Leaves(id))
DifferenceWith == \E y \in Unions :
  SetUnion(Difference(cell_ids, y.cells), expected \ y.leaves)

AskContains == \E y \in Unions :
  Ask(ContainsUnion(cell_ids, y.cells), y.leaves \subseteq expected)
AskIntersects == \E y \in Unions :
  Ask(IntersectsUnion(cell_ids, y.cells), y.leaves \cap expected # {})
AskContainsCell == \E id \in CellIds :
  Ask(ContainsCell(cell_ids, id), Leaves(id) \subseteq expected)
AskIntersectsCell == \E id \in CellIds :
  Ask(IntersectsCell(cell_ids, id), Leaves(id) \cap expected # {})

UnionNext ==
  /\ reply = NoReply
  /\ \/ FromVector
     \/ FromRange
     \/ UnionWith
     \/ IntersectionWith
     \/ IntersectionWithCell
     \/ DifferenceWith
     \/ AskContains
     \/ AskIntersects
     \/ AskContainsCell
     \/ AskIntersectsCell

UnionSpec == UnionInit /\ [][UnionNext]_union_vars
-----------------------------------------------------------------------------
(* Properties.                                                             *)

\* However it was built and combined, the union covers exactly the leaf cells
\* that set algebra says it should.
RegionExact == LeavesOf(cell_ids) = expected

\* Every operation leaves the union normalized, although only the constructor
\* and Union call Normalize: Intersection, Difference and the tiling of a range
\* rely on producing sorted, disjoint and collapsed cells by themselves.  So
\* equal regions are equal vectors, which operator== relies on.
StaysNormalized == IsNormalized(cell_ids)

\* Contains and Intersects, which search and walk instead of comparing every
\* pair of cells, answer as set inclusion and intersection do.
AnswersExact == reply.got = reply.want

\* A cell union stands for a set of leaf cells: every operation of S2CellUnion
\* gives the set that set algebra says, in the one normalized form of it, and
\* the searches Contains and Intersects answer for that set.
UnionExact ==
  /\ RegionExact
  /\ StaysNormalized
  /\ AnswersExact
=============================================================================
