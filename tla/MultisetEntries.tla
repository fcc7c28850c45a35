-------------------------- MODULE MultisetEntries --------------------------
(***************************************************************************)
(* class Multiset (src/src/utils/multiset.h): a vector of entries (id,     *)
(* count) sorted by id, the number of elements, and the fingerprint,       *)
(* which is updated with every insertion and removal.  An entry stays when *)
(* its count drops to zero.                                                *)
(***************************************************************************)
EXTENDS Fingerprint, Sequences, FiniteSets

CONSTANTS
  Objects,   \* the multisets of the callers
  MaxCount,  \* bound: no object holds more elements (a count has 32 bits)
  MaxVector  \* bound: length of the vectors a multiset is built from

ASSUME EntriesAssumption == MaxCount \in Nat /\ MaxVector \in Nat

VARIABLE msets  \* object -> [data, nelements, fingerprint]

Entry(id, count) == [id |-> id, count |-> count]
EmptyMultiset == [data |-> << >>, nelements |-> 0, fingerprint |-> SEED2]

\* lower_bound: the first entry that is not smaller, or the end.
find_pos(data, id) == Cardinality({i \in DOMAIN data : data[i].id < id}) + 1

Found(data, id) ==
  find_pos(data, id) \in DOMAIN data /\ data[find_pos(data, id)].id = id

\* vector::insert
InsertEntry(data, pos, e) ==
  [i \in 1..(Len(data) + 1) |->
     IF i < pos THEN data[i] ELSE IF i = pos THEN e ELSE data[i-1]]

\* Raise the count of id, in a new entry if there is none.
Raise(data, id, count) ==
  LET pos == find_pos(data, id)
  IN  IF Found(data, id) THEN [data EXCEPT ![pos].count = @ + count]
                         ELSE InsertEntry(data, pos, Entry(id, count))

insert(m, id, count) ==
  IF count = 0 THEN m
  ELSE [data        |-> Raise(m.data, id, count),
        nelements   |-> m.nelements + count,
        fingerprint |-> FpInsert(m.fingerprint, id, count)]

count_of(m, id) == IF Found(m.data, id) THEN m.data[find_pos(m.data, id)].count ELSE 0
contains(m, id) == count_of(m, id) > 0

\* Faulty variant: the fingerprint is left as it was.
remove_KeepsFingerprint(m, id) ==
  IF contains(m, id)
    THEN [m EXCEPT !.data[find_pos(m.data, id)].count = @ - 1, !.nelements = @ - 1]
    ELSE m

\* Faulty variant: the number of elements is left as it was.
remove_KeepsSize(m, id) ==
  IF contains(m, id)
    THEN [m EXCEPT !.data[find_pos(m.data, id)].count = @ - 1,
                   !.fingerprint = FpRemove(@, id)]
    ELSE m

\* The entry is kept, also with count zero.
remove(m, id) ==
  IF contains(m, id)
    THEN [m EXCEPT !.data[find_pos(m.data, id)].count = @ - 1,
                   !.nelements = @ - 1,
                   !.fingerprint = FpRemove(@, id)]
    ELSE m

\* rehash: the fingerprint from scratch, skipping entries with count zero.
rehash(data) ==
  LET fp[i \in 0..Len(data)] ==
        IF i = 0 THEN SEED2
        ELSE IF data[i].count > 0 THEN FpInsert(fp[i-1], data[i].id, data[i].count)
        ELSE fp[i-1]
  IN  fp[Len(data)]

\* construct: count the elements of a vector.
construct(vec) ==
  LET d[i \in 0..Len(vec)] == IF i = 0 THEN << >> ELSE Raise(d[i-1], vec[i], 1)
      data == d[Len(vec)]
  IN  [data |-> data, nelements |-> Len(vec), fingerprint |-> rehash(data)]

\* std::sort by id: each entry goes in front of those that are not smaller.
sort(data) ==
  LET s[i \in 0..Len(data)] ==
        IF i = 0 THEN << >>
        ELSE InsertEntry(s[i-1], find_pos(s[i-1], data[i].id), data[i])
  IN  s[Len(data)]

\* Faulty variant: an entry replaces the one before it instead of joining it.
merge_Overwrites(data) ==
  LET w[i \in 0..Len(data)] ==
        IF i = 0 THEN << >>
        ELSE IF i > 1 /\ w[i-1][Len(w[i-1])].id = data[i].id
          THEN [w[i-1] EXCEPT ![Len(w[i-1])] = data[i]]
        ELSE Append(w[i-1], data[i])
  IN  w[Len(data)]

\* The loop of map that joins neighbours with equal ids; j is Len(w[i]).
merge(data) ==
  LET w[i \in 0..Len(data)] ==
        IF i = 0 THEN << >>
        ELSE IF i > 1 /\ w[i-1][Len(w[i-1])].id = data[i].id
          THEN [w[i-1] EXCEPT ![Len(w[i-1])].count = @ + data[i].count]
        ELSE Append(w[i-1], data[i])
  IN  w[Len(data)]

\* map: rename the ids by f; an unchanged multiset is left alone.
map(m, f) ==
  LET renamed == [i \in DOMAIN m.data |-> [m.data[i] EXCEPT !.id = f[@]]]
      data    == merge(sort(renamed))
  IN  IF renamed = m.data THEN m
      ELSE [m EXCEPT !.data = data, !.fingerprint = rehash(data)]

insert_all(m, other) ==
  LET r[i \in 0..Len(other.data)] ==
        IF i = 0 THEN m ELSE insert(r[i-1], other.data[i].id, other.data[i].count)
  IN  r[Len(other.data)]

msetdiff(m, other) ==
  LET diff[i \in 0..Len(m.data)] ==
        IF i = 0 THEN EmptyMultiset
        ELSE LET e == m.data[i]
                 c == count_of(other, e.id)
             IN  IF e.count > c THEN insert(diff[i-1], e.id, e.count - c) ELSE diff[i-1]
  IN  diff[Len(m.data)]

\* operator==
equals(m, other) ==
  /\ m.fingerprint = other.fingerprint /\ m.nelements = other.nelements
  /\ \A i \in DOMAIN m.data : count_of(other, m.data[i].id) = m.data[i].count
  /\ \A i \in DOMAIN other.data : count_of(m, other.data[i].id) = other.data[i].count

includes(m, other) ==
  /\ other.nelements <= m.nelements
  /\ \A i \in DOMAIN other.data : count_of(m, other.data[i].id) >= other.data[i].count

collect(m) ==
  LET v[i \in 0..Len(m.data)] ==
        IF i = 0 THEN << >>
        ELSE v[i-1] \o [k \in 1..m.data[i].count |-> m.data[i].id]
  IN  v[Len(m.data)]

empty(m) == m.data = << >>
-----------------------------------------------------------------------------
Init == msets = [o \in Objects |-> EmptyMultiset]

Build(o, vec) == msets' = [msets EXCEPT ![o] = construct(vec)]

InsertMany(o, id, count) ==
  /\ msets[o].nelements + count <= MaxCount
  /\ msets' = [msets EXCEPT ![o] = insert(@, id, count)]

RemoveOne(o, id) == msets' = [msets EXCEPT ![o] = remove(@, id)]

Clear(o) == msets' = [msets EXCEPT ![o] = EmptyMultiset]

Rename(o, f) == msets' = [msets EXCEPT ![o] = map(@, f)]

AddAll(o, p) ==
  /\ msets[o].nelements + msets[p].nelements <= MaxCount
  /\ msets' = [msets EXCEPT ![o] = insert_all(@, msets[p])]

Assign(o, p) == msets' = [msets EXCEPT ![o] = msets[p]]

Subtract(o, p, q) == msets' = [msets EXCEPT ![o] = msetdiff(msets[p], msets[q])]

Vectors == UNION {[1..n -> Ids] : n \in 0..MaxVector}

Next ==
  \E o \in Objects :
    \/ \E vec \in Vectors : Build(o, vec)
    \/ \E id \in Ids, count \in 0..MaxCount : InsertMany(o, id, count)
    \/ \E id \in Ids : RemoveOne(o, id)
    \/ Clear(o)
    \/ \E f \in [Ids -> Ids] : Rename(o, f)
    \/ \E p \in Objects : AddAll(o, p) \/ Assign(o, p)
    \/ \E p, q \in Objects : Subtract(o, p, q)

Spec == Init /\ [][Next]_msets
-----------------------------------------------------------------------------
M == INSTANCE Multisets

Counts(m) == [x \in Ids |-> count_of(m, x)]

\* The entries are sorted strictly by id, whatever a history of insertions,
\* removals and renamings did to them: binary search relies on it.
Sorted(data) == \A i, j \in DOMAIN data : i < j => data[i].id < data[j].id

TypeOK ==
  \A o \in Objects :
    /\ msets[o].data \in Seq([id : Ids, count : Nat])
    /\ msets[o].nelements \in Nat
    /\ msets[o].fingerprint \in Residues
    /\ Sorted(msets[o].data)

\* The fingerprint depends on the contents alone, not on the way to them nor on
\* entries left behind with count zero: it is the seed plus the hashes of all
\* elements.  The AC relation finds its tuples by it (relation_ac.cpp:26).
FingerprintFollows ==
  \A o \in Objects : msets[o].fingerprint = Digest(Counts(msets[o]))

\* The queries answer for the contents: operator== (the congruence cache compares
\* with it), includes, size and collect see no difference between an entry with
\* count zero and none.
QueriesExact ==
  \A o, p \in Objects :
    /\ equals(msets[o], msets[p]) <=> Counts(msets[o]) = Counts(msets[p])
    /\ includes(msets[o], msets[p]) <=> M!Includes(Counts(msets[o]), Counts(msets[p]))
    /\ msets[o].nelements = M!MsetSize(Counts(msets[o]), MaxIds)
    /\ Counts(construct(collect(msets[o]))) = Counts(msets[o])

\* Seen through count(), the entry vector, its binary search, the sorting and
\* joining of map and the loops of insert_all and msetdiff do what the operators
\* of module Multisets say, from which the relations and indices are modelled.
OperationsExact ==
  \A o \in Objects :
    LET m == msets[o]
        c == Counts(m)
    IN  /\ \A x \in Ids : /\ Counts(insert(m, x, 1)) = M!Insert(c, x)
                          /\ Counts(remove(m, x)) = M!Remove(c, x)
        /\ \A f \in [Ids -> Ids] : Counts(map(m, f)) = M!MapMset(c, f, MaxIds)
        /\ \A p \in Objects : LET other == msets[p] IN
             /\ Counts(insert_all(m, other)) = M!InsertAll(c, Counts(other))
             /\ Counts(msetdiff(m, other)) = M!MsetDiff(c, Counts(other))

=============================================================================
