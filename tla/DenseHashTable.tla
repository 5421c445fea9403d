--------------------------- MODULE DenseHashTable ---------------------------
(* The open-addressing hash table of util/gtl (densehashtable.h with the      *)
(* resizing rules of hashtable_common.h), the id set of the lexicons.  Two    *)
(* tables are driven through the whole interface: buckets are found by        *)
(* quadratic probing, an erased key leaves a deleted mark, marks count as     *)
(* elements until a rebucket drops them, and the table grows and shrinks with *)
(* thresholds kept beside it.  `contents' is what a set would hold.  A move   *)
(* leaves the thresholds of the table it empties, and an assignment from a    *)
(* table without an empty key leaves the counts of its target: `fits' says    *)
(* that the table was given its buckets with no elements and thresholds of    *)
(* their number.                                                              *)
EXTENDS Integers, Sequences, SequencesExt

CONSTANTS Keys,                 \* the regular keys
          DeletedKeys,          \* the keys a client may name as deleted key
          Hash,                 \* [Keys -> Nat]
          HT_MIN_BUCKETS, HT_DEFAULT_STARTING_BUCKETS,
          Sizes,                \* arguments of constructors and of resize
          MaxBuckets,           \* bound on the size of a table
          MaxUsed,              \* bound on the used buckets of each table
          MaxLoose              \* the same for tables that do not fit
Tables == {1, 2}
Empty == 0       \* the empty key, no regular key
None == <<>>     \* no table, no position
Never == -1
ILLEGAL_BUCKET == -1

VARIABLES ht,        \* the tables
          contents   \* the set each of them stands for
ht_vars == <<ht, contents>>

(***************************************************************************)
(* The settings.  Factors are in percent.                                   *)
(***************************************************************************)
HT_OCCUPANCY_PCT == 50
HT_EMPTY_PCT == 20
enlarge_size(x) == Min({x - 1, (x * HT_OCCUPANCY_PCT) \div 100})
shrink_size(x) == (x * HT_EMPTY_PCT) \div 100
reset_thresholds(t) ==
  [t EXCEPT !.enlarge_threshold = enlarge_size(t.num_buckets),
            !.shrink_threshold = shrink_size(t.num_buckets),
            !.consider_shrink = FALSE]
Powers == {HT_MIN_BUCKETS * 2^i : i \in 0..5}
min_buckets(num_elts, wanted) ==
  Min({sz \in Powers : sz >= wanted /\ num_elts < (sz * HT_OCCUPANCY_PCT) \div 100})

(***************************************************************************)
(* Buckets and probing: the n-th probe of a search is n(n+1)/2 past the     *)
(* first, so the first num_buckets probes visit every bucket.               *)
(***************************************************************************)
test_empty(t, b) == t.table[b] = Empty
test_deleted(t, b) == t.num_deleted > 0 /\ t.table[b] = t.delkey
Live(t, b) == ~ test_empty(t, b) /\ ~ test_deleted(t, b)
size(t) == t.num_elements - t.num_deleted
Probe(n, buckets, key) == (Hash[key] + (n * (n + 1)) \div 2) % buckets
FirstProbe(buckets, key, Stop(_)) ==
  LET stops(n) == Stop(Probe(n, buckets, key))
      first == CHOOSE n \in 0..(buckets - 1) : stops(n) /\ \A m \in 0..(n - 1) : ~ stops(m)
  IN IF \E n \in 0..(buckets - 1) : stops(n) THEN first ELSE Never

\* <<where the key is, where it would go>>; None where the loop never ends.
find_position(t, key) ==
  LET stop == FirstProbe(t.num_buckets, key, LAMBDA b : test_empty(t, b) \/ t.table[b] = key)
      marks == {n \in 0..(t.num_buckets - 1) :
                 n < stop /\ test_deleted(t, Probe(n, t.num_buckets, key))}
      at == Probe(stop, t.num_buckets, key)
  IN CASE stop = Never -> None
       [] stop # Never /\ ~ test_empty(t, at) -> <<at, ILLEGAL_BUCKET>>
       [] OTHER -> <<ILLEGAL_BUCKET,
                     IF marks = {} THEN at ELSE Probe(Min(marks), t.num_buckets, key)>>
find_if_present(t, key) ==
  LET stop == FirstProbe(t.num_buckets, key, LAMBDA b : t.table[b] = key \/ test_empty(t, b))
  IN stop # Never /\ t.table[Probe(stop, t.num_buckets, key)] = key

\* The elements between begin() and end(), in bucket order.
Elements(t) ==
  SelectSeq([b \in 1..t.num_buckets |-> IF Live(t, b - 1) THEN t.table[b - 1] ELSE Empty],
            LAMBDA k : k # Empty)

fill_range_with_empty(buckets) == [b \in 0..(buckets - 1) |-> Empty]
copy_elements(elements, buckets) ==
  LET copy(table, key) ==
        [table EXCEPT ![Probe(FirstProbe(buckets, key, LAMBDA b : table[b] = Empty),
                              buckets, key)] = key]
  IN FoldLeft(copy, fill_range_with_empty(buckets), elements)

(***************************************************************************)
(* Resizing.                                                                *)
(***************************************************************************)
\* Mutant: the marks that a rebucket drops still count as elements.
RebucketKeepsCount(t, buckets) ==
  IF t.table = None THEN [t EXCEPT !.num_buckets = buckets]
  ELSE reset_thresholds([t EXCEPT !.table = copy_elements(Elements(t), buckets),
                                  !.num_buckets = buckets, !.num_deleted = 0])
rebucket(t, buckets) ==
  IF t.table = None THEN [t EXCEPT !.num_buckets = buckets]
  ELSE reset_thresholds(
         [t EXCEPT !.table = copy_elements(Elements(t), buckets), !.num_buckets = buckets,
                   !.num_elements = @ - t.num_deleted, !.num_deleted = 0])

ShrunkTo(t) ==
  LET wide(sz) == sz > HT_DEFAULT_STARTING_BUCKETS /\ size(t) * 100 < sz * HT_EMPTY_PCT
      down[sz \in Powers] == IF wide(sz) THEN down[sz \div 2] ELSE sz
  IN down[t.num_buckets \div 2]
ShouldShrink(t) == /\ t.shrink_threshold > 0
                   /\ size(t) < t.shrink_threshold
                   /\ t.num_buckets > HT_DEFAULT_STARTING_BUCKETS
maybe_shrink(t) ==
  [(IF ShouldShrink(t) THEN rebucket(t, ShrunkTo(t)) ELSE t) EXCEPT !.consider_shrink = FALSE]

\* <<the table, whether it was rebuilt>>.
ResizeDeltaBySize(t, delta) ==
  LET s == IF t.consider_shrink THEN maybe_shrink(t) ELSE t
      needed == min_buckets(size(s) + delta, 0)
  IN IF \/ s.num_buckets >= HT_MIN_BUCKETS /\ size(s) + delta <= s.enlarge_threshold
        \/ needed <= s.num_buckets
     THEN <<s, t.consider_shrink /\ ShouldShrink(t)>>
     ELSE <<rebucket(s, needed), TRUE>>
resize_delta(t, delta) ==
  LET s == IF t.consider_shrink THEN maybe_shrink(t) ELSE t
      needed == min_buckets(s.num_elements + delta, 0)
      least == min_buckets(size(s) + delta, s.num_buckets)
      resize_to == IF least < needed /\ size(s) + delta >= shrink_size(least * 2)
                   THEN least * 2 ELSE least
  IN IF \/ s.num_buckets >= HT_MIN_BUCKETS /\ s.num_elements + delta <= s.enlarge_threshold
        \/ needed <= s.num_buckets
     THEN <<s, t.consider_shrink /\ ShouldShrink(t)>>
     ELSE <<rebucket(s, resize_to), TRUE>>
resize(t, req) ==
  LET s == IF t.consider_shrink \/ req = 0 THEN maybe_shrink(t) ELSE t
  IN IF req > s.num_elements THEN resize_delta(s, req - s.num_elements)[1] ELSE s

(***************************************************************************)
(* Construction, copies and moves.                                          *)
(***************************************************************************)
Constructed(expected) ==
  LET t == [table |-> None, use_empty |-> FALSE, use_deleted |-> FALSE, delkey |-> Empty,
            num_elements |-> 0, num_deleted |-> 0, num_buckets |-> 0, consider_shrink |-> FALSE,
            enlarge_threshold |-> 0, shrink_threshold |-> 0, fits |-> TRUE]
  IN reset_thresholds([t EXCEPT !.num_buckets =
       IF expected = 0 THEN HT_DEFAULT_STARTING_BUCKETS ELSE min_buckets(expected, 0)])
clear_to_size(t, buckets) ==
  reset_thresholds([t EXCEPT !.table = fill_range_with_empty(buckets), !.num_buckets = buckets,
                             !.num_elements = 0, !.num_deleted = 0, !.fits = TRUE])
copy_from(t, from, wanted) ==
  LET c == clear_to_size(t, min_buckets(size(from), wanted))
  IN [c EXCEPT !.table = copy_elements(Elements(from), c.num_buckets),
               !.num_elements = size(from), !.fits = Len(Elements(from)) = size(from)]
Settings(t, from) ==
  [from EXCEPT !.table = t.table, !.num_elements = t.num_elements,
               !.num_deleted = t.num_deleted, !.num_buckets = t.num_buckets]
CopyConstructed(from) ==
  LET t == Settings(Constructed(0), from)
  IN IF from.use_empty
     THEN copy_from(reset_thresholds([t EXCEPT !.num_buckets = 0]), from,
                    HT_DEFAULT_STARTING_BUCKETS)
     ELSE reset_thresholds([t EXCEPT !.num_buckets =
                              min_buckets(size(from), HT_DEFAULT_STARTING_BUCKETS)])
Assigned(t, from) ==
  IF from.use_empty THEN copy_from(Settings(t, from), from, HT_MIN_BUCKETS)
  ELSE [Settings(t, from) EXCEPT !.table = None]
\* Without use_deleted the deleted key is not read.
MovedFrom(t) ==
  [t EXCEPT !.table = None, !.num_elements = 0, !.num_deleted = 0, !.use_empty = FALSE,
            !.use_deleted = FALSE, !.delkey = Empty,
            !.num_buckets = HT_DEFAULT_STARTING_BUCKETS]

(***************************************************************************)
(* Keys in and out.  A call whose search never ends gives None.             *)
(***************************************************************************)
insert_at(t, key, pos) ==
  [(IF test_deleted(t, pos) THEN [t EXCEPT !.num_deleted = @ - 1]
    ELSE [t EXCEPT !.num_elements = @ + 1]) EXCEPT !.table[pos] = key]
insert_noresize(t, key) ==
  LET pos == find_position(t, key)
  IN CASE t = None \/ pos = None -> None
       [] OTHER -> IF pos[1] # ILLEGAL_BUCKET THEN t ELSE insert_at(t, key, pos[2])
inserted(t, key) == insert_noresize(resize_delta(t, 1)[1], key)
insert_range(t, keys) == FoldLeft(insert_noresize, resize_delta(t, Len(keys))[1], keys)
find_or_insert(t, key) ==
  LET pos == find_position(t, key)
      grown == resize_delta(t, 1)
  IN IF pos = None THEN None ELSE IF pos[1] # ILLEGAL_BUCKET THEN t
     ELSE IF grown[2] THEN insert_noresize(grown[1], key) ELSE insert_at(grown[1], key, pos[2])
erase(t, key) ==
  LET pos == find_position(t, key)
  IN IF pos = None THEN None ELSE IF ~ find_if_present(t, key) THEN t
     ELSE [t EXCEPT !.table[pos[1]] = t.delkey, !.num_deleted = @ + 1, !.consider_shrink = TRUE]
\* erase(f, l) for the range from a live bucket to the end.
erase_range(t, first) ==
  LET gone == {b \in first..(t.num_buckets - 1) : Live(t, b)}
  IN [t EXCEPT !.table = [b \in DOMAIN t.table |-> IF b \in gone THEN t.delkey ELSE t.table[b]],
               !.num_deleted = @ + Cardinality(gone), !.consider_shrink = TRUE]
squash_deleted(t) ==
  IF t.num_deleted > 0 THEN rebucket(t, min_buckets(size(t), t.num_buckets)) ELSE t
SetDeletedKeyAlone(t, key) == [t EXCEPT !.use_deleted = TRUE, !.delkey = key]
set_deleted_key(t, key) == [squash_deleted(t) EXCEPT !.use_deleted = TRUE, !.delkey = key]
Fitting(t) == IF t.table = None THEN t.num_elements = 0 /\ t.enlarge_threshold < t.num_buckets
              ELSE t.fits
set_empty_key(t) ==
  [t EXCEPT !.use_empty = TRUE, !.table = fill_range_with_empty(t.num_buckets),
            !.fits = Fitting(t)]
clear(t) == LET buckets == min_buckets(0, 0)
            IN IF t.num_elements = 0 /\ buckets = t.num_buckets THEN t ELSE clear_to_size(t, buckets)
clear_no_resize(t) ==
  [reset_thresholds(IF t.num_elements > 0
                    THEN [t EXCEPT !.table = fill_range_with_empty(t.num_buckets)] ELSE t)
   EXCEPT !.num_elements = 0, !.num_deleted = 0, !.fits = TRUE]

(***************************************************************************)
(* The tables.                                                              *)
(***************************************************************************)
TableInit == /\ ht = [i \in Tables |-> Constructed(0)]
             /\ contents = [i \in Tables |-> {}]
Bounded(i, t) == /\ t # None /\ t.num_buckets <= MaxBuckets
                 /\ t.num_elements <= IF Fitting(t) THEN MaxUsed[i] ELSE MaxLoose[i]
Becomes(i, t, set) == /\ Bounded(i, t)
                      /\ ht' = [ht EXCEPT ![i] = t]
                      /\ contents' = [contents EXCEPT ![i] = set]
Keyed(i) == ht[i].use_empty
Erasable(i) == Keyed(i) /\ ht[i].use_deleted

Construct(i) == \E n \in Sizes : Becomes(i, Constructed(n), {})
SetEmptyKey(i) == ~ Keyed(i) /\ Becomes(i, set_empty_key(ht[i]), {})
SetDeletedKey(i) == \E d \in DeletedKeys : Becomes(i, set_deleted_key(ht[i], d), contents[i])
Insert(i) == /\ Keyed(i)
             /\ \E k \in Keys : Becomes(i, inserted(ht[i], k), contents[i] \cup {k})
InsertRange(i) == /\ Keyed(i)
                  /\ \E k, l \in Keys : Becomes(i, insert_range(ht[i], <<k, l>>), contents[i] \cup {k, l})
FindOrInsert(i) == /\ Keyed(i)
                   /\ \E k \in Keys : Becomes(i, find_or_insert(ht[i], k), contents[i] \cup {k})
Erase(i) == /\ Erasable(i)
            /\ \E k \in Keys : Becomes(i, erase(ht[i], k), contents[i] \ {k})
EraseRange(i) ==
  /\ Erasable(i)
  /\ \E b \in 0..(ht[i].num_buckets - 1) :
       /\ Live(ht[i], b)
       /\ Becomes(i, erase_range(ht[i], b),
                  contents[i] \ {ht[i].table[c] : c \in b..(ht[i].num_buckets - 1)})
Clear(i) == Keyed(i) /\ Becomes(i, clear(ht[i]), {})
ClearNoResize(i) == Keyed(i) /\ Becomes(i, clear_no_resize(ht[i]), {})
Resize(i) == \E n \in Sizes : Becomes(i, resize(ht[i], n), contents[i])
Copyable(j) == Keyed(j) \/ size(ht[j]) = 0
Copy(i, j) == Copyable(j) /\ Becomes(i, CopyConstructed(ht[j]), contents[j])
Assign(i, j) == Copyable(j) /\ Becomes(i, Assigned(ht[i], ht[j]), contents[j])
Move(i, j) == /\ Bounded(i, ht[j])
              /\ ht' = [ht EXCEPT ![i] = ht[j], ![j] = MovedFrom(ht[j])]
              /\ contents' = [contents EXCEPT ![i] = contents[j], ![j] = {}]
Swap(i, j) == /\ Bounded(i, ht[j]) /\ Bounded(j, ht[i])
              /\ ht' = [ht EXCEPT ![i] = ht[j], ![j] = ht[i]]
              /\ contents' = [contents EXCEPT ![i] = contents[j], ![j] = contents[i]]

\* Operations on one table are taken on the first: the other comes to the same
\* states by a swap or a move.
TableNext ==
  \/ \E i \in {1} :
       \/ Construct(i) \/ SetEmptyKey(i) \/ SetDeletedKey(i) \/ Insert(i) \/ InsertRange(i)
       \/ FindOrInsert(i) \/ Erase(i) \/ EraseRange(i) \/ Clear(i) \/ ClearNoResize(i)
       \/ Resize(i)
  \/ \E i \in Tables : \E j \in Tables \ {i} :
       Copy(i, j) \/ Assign(i, j) \/ Move(i, j) \/ Swap(i, j)
TableSpec == TableInit /\ [][TableNext]_ht_vars

Equal(s, t) == size(s) = size(t) /\ \A e \in Range(Elements(s)) : find_if_present(t, e)

(***************************************************************************)
(* Properties.                                                              *)
(***************************************************************************)
\* Whatever was inserted, erased, cleared, resized, copied or moved before, a
\* table whose counts and thresholds were those of its buckets when they were
\* made answers as the set it stands for: find() knows exactly the members,
\* size() counts them, iteration meets each of them once and no deleted mark,
\* and operator== compares the sets.
Sound(i) == Keyed(i) /\ ht[i].fits
TableIsItsSet ==
  /\ \A i \in Tables : Sound(i) =>
       LET t == ht[i]
           elements == Elements(t)
       IN /\ \A k \in Keys : find_if_present(t, k) = (k \in contents[i])
          /\ size(t) = Cardinality(contents[i])
          /\ Len(elements) = size(t) /\ Range(elements) = contents[i]
  /\ Sound(1) /\ Sound(2) => (Equal(ht[1], ht[2]) <=> contents[1] = contents[2])

\* In such a table every search ends: deleted marks and elements together never
\* fill it (num_elements counts both), so the probes of an absent key meet an
\* empty bucket, the size stays a power of two and the table is enlarged before
\* it is full (the assertion of resize_delta).
SearchesEnd ==
  \A i \in Tables : Sound(i) =>
    LET t == ht[i]
        used == {b \in 0..(t.num_buckets - 1) : t.table[b] # Empty}
    IN /\ Cardinality(used) = t.num_elements
       /\ t.num_elements < t.num_buckets
       /\ t.enlarge_threshold < t.num_buckets
       /\ t.num_buckets \in Powers
       /\ \A k \in Keys : find_position(t, k) # None

\* The assertion of the search loops, "Hashtable is full: an error in
\* key_equal<> or hash<>": with sound equality and hash functions no search
\* visits every bucket in vain, in any table that has its empty key.
NeverFull == \A i \in Tables : Keyed(i) => \A k \in Keys : find_position(ht[i], k) # None
=============================================================================
