----------------------------- MODULE AcVector -----------------------------
(***************************************************************************)
(* RelationAC as it is stored (src/src/relations/relation_ac.cpp): a       *)
(* vector of tuples sorted by id and by the fingerprint of the multiset,   *)
(* searched by bisection.  Tuples count as equal when id and fingerprint   *)
(* are.  Congruence is one scan of the vector with a cache from multisets  *)
(* to ids; flatten and unflatten fill a worklist in the order of the       *)
(* vector.  Module EGraph keeps a set of tuples and compares multisets.    *)
(***************************************************************************)
EXTENDS EGraph

CONSTANTS PRIME, SEED2, hash64   \* as in Fingerprint

VARIABLES
  data,   \* AC operator -> its vector
  cache,  \* congruence: multiset -> id
  next    \* congruence: the position of the scan

vecvars == <<data, cache, next>>
allvars == <<rep, memo, rows, phase, pending, todo, cur, changed, did, merged, quiet,
             data, cache, next>>

F == INSTANCE Fingerprint

ASSUME HashAssumption == /\ PRIME \in Nat /\ 42 < PRIME
                         /\ SEED2 \in 0..(PRIME - 1)
                         /\ hash64 \in [Ids -> Nat]

hash(m) == F!Digest(m)

\* The comparison of insert, contains and sort.
Before(s, t) == s.id < t.id \/ (s.id = t.id /\ hash(s.args) < hash(t.args))

\* Equality, as the vector sees it.
SameKey(s, t) == s.id = t.id /\ hash(s.args) = hash(t.args)

\* What a vector holds.
Tuples(vec) == {vec[i] : i \in DOMAIN vec}

lower_bound(vec, t) == Cardinality({i \in DOMAIN vec : Before(vec[i], t)}) + 1

contains(vec, t) ==
  LET pos == lower_bound(vec, t)
  IN  pos \in DOMAIN vec /\ SameKey(vec[pos], t)

\* vector::insert
InsertTuple(vec, pos, t) ==
  [i \in 1..(Len(vec) + 1) |->
     IF i < pos THEN vec[i] ELSE IF i = pos THEN t ELSE vec[i-1]]

\* Faulty variant: a tuple that is not there goes to the end.
insert_Back(vec, t) == IF contains(vec, t) THEN vec ELSE Append(vec, t)

insert(vec, t) ==
  IF contains(vec, t) THEN vec ELSE InsertTuple(vec, lower_bound(vec, t), t)

\* std::sort: each tuple goes in front of those that do not come before it.
sort(vec) ==
  LET s[i \in 0..Len(vec)] ==
        IF i = 0 THEN << >>
        ELSE InsertTuple(s[i-1], lower_bound(s[i-1], vec[i]), vec[i])
  IN  s[Len(vec)]

\* Of neighbours with the same key the first stays.
deduplicate(vec) ==
  LET kept[i \in 0..Len(vec)] ==
        IF i = 0 THEN << >>
        ELSE IF i > 1 /\ SameKey(kept[i-1][Len(kept[i-1])], vec[i]) THEN kept[i-1]
        ELSE Append(kept[i-1], vec[i])
  IN  kept[Len(vec)]

\* An unchanged vector is not sorted again.
canonicalize(op, vec) ==
  LET mapped == [i \in DOMAIN vec |-> CanonRow(op, vec[i])]
  IN  IF mapped = vec THEN vec ELSE deduplicate(sort(mapped))

\* a = f(X + b), b = f(Y)  ~~>  a = f(X + Y)
FlattenPair(a, b) ==
  IF Contains(a.args, b.id) /\ ~ Contains(b.args, b.id)
    THEN << [args |-> InsertAll(Remove(a.args, b.id), b.args), id |-> a.id] >>
    ELSE << >>

\* a = f(X + Y), b = f(Y)  ~~>  a = f(X + b)
UnflattenPair(a, b) ==
  IF Includes(a.args, b.args)
    THEN << [args |-> Insert(MsetDiff(a.args, b.args), b.id), id |-> a.id] >>
    ELSE << >>

\* What the pair of tuples at i, j adds to the worklist: what they derive, if
\* their fingerprints differ and the vector does not contain it.
Pushed(vec, i, j, derived) ==
  IF \/ hash(vec[i].args) = hash(vec[j].args)
     \/ derived # << >> /\ contains(vec, derived[1])
    THEN << >> ELSE derived

\* The sequences of a table, one behind the other.
Joined(n, parts) ==
  LET w[k \in 0..n] == IF k = 0 THEN << >> ELSE w[k-1] \o parts[k]
  IN  w[n]

\* The double loop, over a table of what the pairs add.
Worklist(n, pushed) == Joined(n, [i \in 1..n |-> Joined(n, pushed[i])])

FlattenWorklist(vec) ==
  Worklist(Len(vec), [i \in DOMAIN vec |-> [j \in DOMAIN vec |->
                        Pushed(vec, i, j, FlattenPair(vec[i], vec[j]))]])

UnflattenWorklist(vec) ==
  Worklist(Len(vec), [i \in DOMAIN vec |-> [j \in DOMAIN vec |->
                        Pushed(vec, i, j, UnflattenPair(vec[i], vec[j]))]])

\* add_enode_to_memo, which does not overwrite.
Emplace(m, e, id) ==
  IF e \in DOMAIN m THEN m
  ELSE [k \in DOMAIN m \cup {e} |-> IF k = e THEN id ELSE m[k]]

\* The second loop of flatten and unflatten, in the memo and in the vector.
EmplaceAll(op, known, worklist) ==
  LET m[k \in 0..Len(worklist)] ==
        IF k = 0 THEN known
        ELSE Emplace(m[k-1], ENode(op, worklist[k].args), worklist[k].id)
  IN  m[Len(worklist)]

InsertTuples(vec, worklist) ==
  LET d[k \in 0..Len(worklist)] == IF k = 0 THEN vec ELSE insert(d[k-1], worklist[k])
  IN  d[Len(worklist)]

ApplyWorklist(op, worklist) ==
  /\ memo' = EmplaceAll(op, memo, worklist)
  /\ data' = [data EXCEPT ![op] = InsertTuples(@, worklist)]
-----------------------------------------------------------------------------
VecInit == Init /\ data = [op \in AcOps |-> << >>] /\ cache = << >> /\ next = 1

AddAcEnode(op, args) ==
  LET e  == ENode(op, CanonArgs(op, args))
      id == Len(rep) + 1
  IN  /\ phase = "idle"
      /\ IF Lookup(op, args) # {}
           THEN UNCHANGED <<store, data>>
           ELSE /\ UF!MakeSet
                /\ data' = [data EXCEPT ![op] = insert(@, [args |-> e.args, id |-> id])]
                /\ memo' = [k \in DOMAIN memo \cup {e} |-> IF k = e THEN id ELSE memo[k]]
                /\ UNCHANGED rows
      /\ UNCHANGED <<phase, pending, todo, cur, changed, did, merged, quiet, cache, next>>

VecRebuild ==
  /\ \A op \in AcOps : \A i \in DOMAIN data[op] :
       MsetSize(data[op][i].args, MaxIds) <= MaxMset
  /\ Rebuild
  /\ UNCHANGED vecvars

VecCanonicalize ==
  LET op == Current
      canonical == canonicalize(op, data[op])
  IN  /\ \/ phase = "relation" /\ pending # << >> /\ op \in AcOps
         \/ phase = "again"
      /\ data' = [data EXCEPT ![op] = canonical]
      /\ phase' = IF phase = "again" /\ canonical = data[op]
                    THEN "flatten" ELSE "congruence"
      /\ changed' = FALSE
      /\ cache' = << >> /\ next' = 1
      /\ UNCHANGED <<rep, memo, rows, pending, todo, cur, did, merged, quiet>>

\* Faulty variant: the cached id is taken for equivalent without a look.
VecCongruence_NoUnify ==
  LET vec == data[Current]
      t == vec[next]
  IN  /\ phase = "congruence" /\ next <= Len(vec)
      /\ cache' = [m \in DOMAIN cache \cup {t.args} |->
                     IF m \in DOMAIN cache THEN cache[m] ELSE t.id]
      /\ next' = next + 1
      /\ UNCHANGED <<rep, memo, rows, phase, pending, todo, cur, changed, did, merged,
                     quiet, data>>

\* One tuple of the scan.  A multiset met before: its class and this one are
\* one, and the cache goes on with the root that unify returns.
VecCongruence ==
  LET vec == data[Current]
      t == vec[next]
      found == t.args \in DOMAIN cache
      unites == found /\ rep[t.id] # rep[cache[t.args]]
      entry == IF unites THEN rep'[t.id] ELSE IF found THEN cache[t.args] ELSE t.id
  IN  /\ phase = "congruence" /\ next <= Len(vec)
      /\ IF unites
           THEN UF!Union(t.id, cache[t.args]) /\ changed' = TRUE /\ merged' = TRUE
           ELSE UNCHANGED <<rep, changed, merged>>
      /\ cache' = [m \in DOMAIN cache \cup {t.args} |->
                     IF m = t.args THEN entry ELSE cache[m]]
      /\ next' = next + 1
      /\ UNCHANGED <<memo, rows, phase, pending, todo, cur, did, quiet, data>>

VecCongruent ==
  /\ phase = "congruence" /\ next > Len(data[Current])
  /\ phase' = IF changed THEN "again" ELSE "flatten"
  /\ UNCHANGED <<rep, memo, rows, pending, todo, cur, changed, did, merged, quiet>>
  /\ UNCHANGED vecvars

VecFlatten ==
  /\ phase = "flatten"
  /\ ApplyWorklist(Current, FlattenWorklist(data[Current]))
  /\ phase' = "unflatten"
  /\ UNCHANGED <<rep, rows, pending, todo, cur, changed, did, merged, quiet, cache, next>>

VecUnflatten ==
  /\ phase = "unflatten"
  /\ ApplyWorklist(Current, UnflattenWorklist(data[Current]))
  /\ did' = TRUE
  /\ phase' = "relation"
  /\ pending' = Tail(pending)
  /\ changed' = FALSE
  /\ UNCHANGED <<rep, rows, todo, cur, merged, quiet, cache, next>>

VecStep == \/ VecCanonicalize \/ VecCongruence \/ VecCongruent
           \/ VecFlatten \/ VecUnflatten
           \/ (RowStep \/ RebuildReturn) /\ UNCHANGED vecvars

VecNext ==
  \/ \E op \in RowOps : \E args \in CallArgs(op) :
       AddEnode(op, args) /\ UNCHANGED vecvars
  \/ \E op \in AcOps : \E args \in CallArgs(op) : AddAcEnode(op, args)
  \/ \E a, b \in Live : Unify(a, b) /\ UNCHANGED vecvars
  \/ VecRebuild
  \/ VecStep

VecSpec == VecInit /\ [][VecNext]_allvars
-----------------------------------------------------------------------------
\* The vector is strictly sorted by what it is searched by, at every moment:
\* renaming the ids in place disturbs it, and a search in an unsorted vector
\* misses tuples that are there.
VectorSorted ==
  \A op \in AcOps : \A i, j \in DOMAIN data[op] :
    i < j => Before(data[op][i], data[op][j])

\* The tuples of every operator, wherever they are stored.
Stored == [op \in Ops |-> IF op \in AcOps THEN Tuples(data[op]) ELSE rows[op]]

Sets == INSTANCE EGraph WITH rows <- Stored

\* As long as no two multisets share a fingerprint, the vector is the set of
\* tuples of module EGraph, the scan with the cache unifies what congruence
\* asks for, in whatever order, and the worklists derive what they should.
ImplementsSets == Sets!Init /\ [][Sets!Next]_(Sets!vars)

\* The multisets that the next step of rebuild may compare: those stored, as they
\* are and canonical, and those derived from two of them.
Compared(op) ==
  LET stored == Tuples(data[op])
      derived == UNION {Tuples(FlattenPair(a, b)) \cup Tuples(UnflattenPair(a, b)) :
                          a, b \in stored}
  IN  {t.args : t \in stored \cup {CanonRow(op, r) : r \in stored} \cup derived}

\* None of them are taken for one another.
NoCollision ==
  \A op \in AcOps : \A m, o \in Compared(op) : hash(m) = hash(o) => m = o
=============================================================================
