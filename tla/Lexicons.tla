------------------------------ MODULE Lexicons ------------------------------
(* The lexicons that give compact ids to label sets and input edges           *)
(* (sequence_lexicon.h, value_lexicon.h, id_set_lexicon.h).  A lexicon keeps  *)
(* its values in one vector and looks ids up in a hash set of ids whose hash  *)
(* and equality read the values back through the lexicon, so a value is       *)
(* appended before it is looked up and taken away again when it was there.    *)
(* The hash set is used by its contract (DenseHashTable): insert(id) returns  *)
(* the id of an equal key, or adds this one.                                  *)
EXTENDS Integers, Sequences, SequencesExt

CONSTANTS Values,       \* non-negative integers
          MaxLength,    \* bound on an added sequence
          MaxIds        \* bound on the sequences of a lexicon

\* The sets are sets of non-negative numbers, and a complement is never the id
\* of the empty set (which is that of the largest number of the type).
ASSUME ValuesAreNat == Values \subseteq Nat
ASSUME IdsAreNoEmptySet == MaxIds \in Nat /\ MaxIds < 1000000

Lexs == {1, 2}
Added == SeqOf(Values, MaxLength)
kEmptySetId == -1000000        \* numeric_limits<int32>::min()
Complement(id) == (-1) - id    \* operator~

VARIABLES id_sets,     \* two IdSetLexicons: values, begins and ids of their sequences, and
                       \* whether the hash set is bound to this lexicon
          values,      \* two ValueLexicons
          returned     \* what was added and the id returned since the last Clear,
                       \* without the sets that take no space
lexicon_vars == <<id_sets, values, returned>>

(***************************************************************************)
(* SequenceLexicon and IdSetLexicon.  The hash and equality of the set of   *)
(* ids read sequences of the lexicon they are bound to; in any other, which *)
(* is not the one that has just grown, a new id equals none.                *)
(***************************************************************************)
EmptyLexicon == [values |-> <<>>, begins |-> <<0>>, ids |-> {}, bound |-> TRUE]
sequence(lex, id) == SubSeq(lex.values, lex.begins[id + 1] + 1, lex.begins[id + 2])
SequencesOf(lex) == {sequence(lex, id) : id \in 0..(Len(lex.begins) - 2)}
KeyEqualIds(lex, id) ==
  {i \in lex.ids : i = id \/ (lex.bound /\ sequence(lex, i) = sequence(lex, id))}

\* The sequence is appended behind the others, which have the given ids.
Appended(lex, s, ids) ==
  LET vals == lex.values \o s
  IN [values |-> vals, begins |-> Append(lex.begins, Len(vals)), ids |-> ids,
      bound |-> lex.bound]

\* The id in the hash set that is equal to the one looked up.
Equal(found) == CHOOSE i \in found : TRUE

\* <<the lexicon, the id>>.
AddSequence(lex, s) ==
  LET grown == Appended(lex, s, lex.ids)
      id == Len(grown.begins) - 2
      found == KeyEqualIds(grown, id)
  IN IF found = {} THEN <<Appended(lex, s, lex.ids \cup {id}), id>>
     ELSE <<lex, Equal(found)>>

\* std::sort and std::unique: the members of a set in order, each once.
InOrderOnce(S, t) == ToSet(t) = S /\ \A a, b \in DOMAIN t : a < b => t[a] < t[b]
Sorted(S) == CHOOSE t \in [1 .. Cardinality(S) -> S] : InOrderOnce(S, t)

AddInternal(lex, s) ==
  CASE s = <<>> -> <<lex, kEmptySetId>>
    [] Len(s) = 1 -> <<lex, s[1]>>
    [] Len(s) > 1 /\ Len(Sorted(ToSet(s))) = 1 -> <<lex, Sorted(ToSet(s))[1]>>
    [] OTHER -> LET r == AddSequence(lex, Sorted(ToSet(s))) IN <<r[1], Complement(r[2])>>
id_set(lex, set_id) ==
  CASE set_id >= 0 -> <<set_id>>
    [] set_id = kEmptySetId -> <<>>
    [] OTHER -> sequence(lex, Complement(set_id))

\* Mutant: the hash set is copied with its functions, which stay bound to the
\* lexicon that it is copied from.
CopiedWithFunctions(lex) == [lex EXCEPT !.bound = FALSE]
\* Constructors and assignments, by copy or move, take the vectors and insert
\* the ids into a new hash set, with functions bound to the new lexicon.
Copied(lex) == [lex EXCEPT !.bound = TRUE]
\* A move leaves the vectors of the source empty, and its ids behind.
MovedFrom(lex) == [lex EXCEPT !.values = <<>>, !.begins = <<>>]
Usable(lex) == lex.begins # <<>>

(***************************************************************************)
(* ValueLexicon.                                                            *)
(***************************************************************************)
EmptyValues == [values |-> <<>>, ids |-> {}, bound |-> TRUE]
ValuesUsable(lex) == lex.ids \subseteq 0..(Len(lex.values) - 1)
\* <<the lexicon, the id>>: the last value is recognised without a look-up.
AddValue(lex, v) ==
  LET id == Len(lex.values)
      found == {i \in lex.ids : lex.bound /\ lex.values[i + 1] = v}
  IN IF lex.values # <<>> /\ Last(lex.values) = v THEN <<lex, id - 1>>
     ELSE IF found = {}
     THEN <<[values |-> Append(lex.values, v), ids |-> lex.ids \cup {id}, bound |-> lex.bound], id>>
     ELSE <<lex, Equal(found)>>

(***************************************************************************)
(* The lexicons in use.                                                     *)
(***************************************************************************)
LexiconInit == /\ id_sets = [i \in Lexs |-> EmptyLexicon]
               /\ values = [i \in Lexs |-> EmptyValues]
               /\ returned = [i \in Lexs |-> [sets |-> {}, vals |-> {}]]

AddIdSet(i) ==
  /\ Usable(id_sets[i])
  /\ \E s \in Added :
       LET r == AddInternal(id_sets[i], s)
       IN /\ Len(r[1].begins) <= MaxIds + 1
          /\ id_sets' = [id_sets EXCEPT ![i] = r[1]]
          /\ returned' = [returned EXCEPT ![i].sets =
               IF r[2] < 0 /\ s # <<>> THEN @ \cup {<<ToSet(s), r[2]>>} ELSE @]
  /\ UNCHANGED values
AddToValues(i) ==
  /\ ValuesUsable(values[i])
  /\ \E v \in Values :
       LET r == AddValue(values[i], v)
       IN /\ values' = [values EXCEPT ![i] = r[1]]
          /\ returned' = [returned EXCEPT ![i].vals = @ \cup {<<v, r[2]>>}]
  /\ UNCHANGED id_sets
ClearLexicons(i) ==
  /\ id_sets' = [id_sets EXCEPT ![i] = [EmptyLexicon EXCEPT !.bound = id_sets[i].bound]]
  /\ values' = [values EXCEPT ![i] = [EmptyValues EXCEPT !.bound = values[i].bound]]
  /\ returned' = [returned EXCEPT ![i] = [sets |-> {}, vals |-> {}]]
AssignTo(i, j) ==
  /\ Usable(id_sets[j]) /\ ValuesUsable(values[j])
  /\ id_sets' = [id_sets EXCEPT ![i] = Copied(id_sets[j])]
  /\ values' = [values EXCEPT ![i] = Copied(values[j])]
  /\ returned' = [returned EXCEPT ![i] = returned[j]]
MoveAssign(i, j) ==
  /\ Usable(id_sets[j]) /\ ValuesUsable(values[j])
  /\ id_sets' = [id_sets EXCEPT ![i] = Copied(id_sets[j]), ![j] = MovedFrom(id_sets[j])]
  /\ values' = [values EXCEPT ![i] = Copied(values[j]), ![j].values = <<>>]
  /\ returned' = [returned EXCEPT ![i] = returned[j], ![j] = [sets |-> {}, vals |-> {}]]

LexiconNext ==
  \/ \E i \in Lexs : ClearLexicons(i)
  \/ AddIdSet(1) \/ AddToValues(1)          \* the other gets its values by a move
  \/ \E i \in Lexs : \E j \in Lexs \ {i} : AssignTo(i, j) \/ MoveAssign(i, j)

LexiconSpec == LexiconInit /\ [][LexiconNext]_lexicon_vars

(***************************************************************************)
(* Properties.                                                              *)
(***************************************************************************)
\* Ids stand for values: a lexicon returns one id for equal sets, in whatever
\* order and with whatever repetitions their members were added, different ids
\* for different sets (the empty set and singletons included, which take no
\* space), an id returned once keeps reading back its sorted set whatever is
\* added, copied or moved afterwards, and no sequence is stored twice.
IdsStandForSets ==
  \A i \in Lexs : Usable(id_sets[i]) =>
    LET implicit == {<<ToSet(s), AddInternal(id_sets[i], s)[2]>> :
                      s \in {t \in Added : Cardinality(ToSet(t)) < 2}}
        all == returned[i].sets \cup implicit
    IN
    /\ \A p, q \in all : p[1] = q[1] <=> p[2] = q[2]
    /\ \A p \in all :
         LET s == id_set(id_sets[i], p[2])
         IN InOrderOnce(p[1], s)
    /\ Cardinality(SequencesOf(id_sets[i])) = Len(id_sets[i].begins) - 1
    /\ Len(id_sets[i].values) = Last(id_sets[i].begins)

\* The same for single values, whose ids count from zero without a gap.
IdsStandForValues ==
  \A i \in Lexs : ValuesUsable(values[i]) =>
    /\ \A p \in returned[i].vals : values[i].values[p[2] + 1] = p[1]
    /\ {p[2] : p \in returned[i].vals} = 0..(Len(values[i].values) - 1)
    /\ \A a, b \in DOMAIN values[i].values :
         values[i].values[a] = values[i].values[b] => a = b

\* Ids of lexicons stand for values and sets of values, whatever is added,
\* cleared, copied or moved, so a lexicon copied or moved into must look ids up
\* by its own sequences, not by those of the lexicon it was made from (sequence_lexicon.h, value_lexicon.h,
\* id_set_lexicon.cc).
LexiconsExact ==
  /\ IdsStandForSets
  /\ IdsStandForValues
=============================================================================
