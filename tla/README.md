# Verification of the e-graph modulo AC

TLA+ models, TLC runs and TLAPS proofs for the equality-saturation engine in
`src/src`: an e-graph whose operators may be associative and commutative (AC).
An AC operator's children are a multiset, and the database closes its relation
under flattening instead of storing every bracketing.

## The system

| Part | State it keeps | Operations | What makes it correct |
|---|---|---|---|
| Union-find (`union_find.*`) | parent vector, class counter | `make_set`, `unify`, `find_root`, `find_root_mut` (path halving), `same`, `normalize` | it is a partition; loops change no class; the counter counts the roots; the loops end |
| E-graph core (`egraph.*`, `handle.*`) | union-find, `memo` (e-node → id), queries, substitutions, `ephemeral_map` | `add_expr`, `add_enode`, `lookup`, `unify`, `apply_match(es)`, `rebuild`, `saturate` | memo and database describe one set of e-nodes; a rebuild that reports nothing to do leaves a congruence-closed e-graph; what is equated is true |
| Row store (`relations/row_store.*`) | flat vector of tuples | `add_tuple`, `rebuild`, `populate_index` | one class per argument tuple after a rebuild |
| AC relation (`relations/relation_ac.*`) | sorted vector of (id, multiset) | `add_tuple`, `canonicalize`, `congruence`, `flatten`, `unflatten`, `rebuild`, `populate_index` | congruence runs to its fixpoint; derived tuples are consequences |
| Database (`database.*`) | relations, indices | `create_relation*`, `add_tuple`, `populate_index`, `get_index`, `clear_indices`, `rebuild` | indices agree with relations; the return value of `rebuild` |
| Multiset, fingerprint (`utils/multiset.h`, `utils/hash.h`) | sorted entries, fingerprint mod 2^63-25 | `insert`, `remove`, `map`, `msetdiff`, ... | counts are right; the fingerprint follows the contents |
| Indices (`indices/*`) | trie or multiset, history | `project`, `select`, `unselect`, `make_enode`, `reset` | `unselect` undoes `select`; copies traverse independently |
| Sets (`sets/*`) | a projection | `intersect_many` | the intersection, sorted |
| Engine (`engine.*`, `egraph_di.*`) | join states, head | `prepare`, `execute`, `lookup_or_ephemeral` | its results are the matches of the query |
| Compiler, query (`compiler.*`, `query.*`) | constraints, substitution | `compile`, `instantiate`, `get_required_indices` | the query matches what the pattern matches |
| Theory (`theory.*`) | symbol table, operators with arities, rules | `add_operator`, `add_opaque_operator`, `add_rewrite_rule`, `get_arity` | a rule is stored entirely or not at all; the e-graph's copy agrees on the symbols it shares |
| Symbol table, parser (`symbol_table.*`, `parser.*`) | names and numbers; tokens, cursor | `intern`, `create_opaque`, `get_string`; `tokenize`, `parse_sexpr` | a symbol keeps its name; the parser accepts the grammar and nothing else, inside its tokens |
| Permutations (`utils/permutation.*`) | none | permutation to number and back | the two are inverse |

**How they interact.** A program builds a `Theory`, then an `EGraph`, adds
terms, and calls `saturate`. Everything runs on one thread, but not in one
piece: the relations call back into the e-graph through `Handle` while they
iterate over their own tuples. `RowStore::rebuild` and `RelationAC::congruence`
merge classes (`Handle::unify`) in the middle of a scan over tuples that were
canonical when it began; `flatten` and `unflatten` write into the memo
(`Handle::add_enode_to_memo`) that `EGraph::rebuild` has just made canonical.
The hard behaviours are therefore orders and staleness: which of several equal
tuples `qsort_r` puts first, which of several colliding memo entries survives,
which relation is rebuilt before the one whose merges concern it, what is stale
when a function returns and what finds it later. The full list, each hazard at
its line with the properties that cover it, is `hazards` in `PROJECT.json`.

## Modules

| Module | Models |
|---|---|
| `Partition` | what the union-find promises: `rep`, a map from ids to the smallest id of their class |
| `UnionFind` | `union_find.*`, one action per operation, one iteration of `find_root_mut` and `normalize` per step |
| `Multisets` | `class Multiset` as functions from ids to counts |
| `EGraphState` | the state the parts share, and canonical forms; uses `Partition` for the union-find |
| `RowStore` | `RowStore::rebuild`, one pair of neighbours per step |
| `RelationAC` | `RelationAC::rebuild`: one action per function, one `unify` of `congruence` per step |
| `EGraph` | the calls `add_enode`, `unify`, `rebuild` (memo pass, then every relation in turn), and the properties |
| `AcVector` | the AC relation as it is stored: a vector sorted by id and fingerprint, searched by bisection, the congruence scan one tuple per step with its cache, the worklists in the order of the vector. Composed with the rest of `EGraph`, it implements `EGraph` |
| `Fingerprint` | `hash.h` and the fingerprint of a multiset: arithmetic modulo a prime |
| `MultisetEntries` | `class Multiset` as it is stored: sorted entries, element count, fingerprint; agrees with `Multisets` |
| `SymbolTable` | interning |
| `Parser` | the tokenizer as a function, `parse_expr` with one frame for each running call |
| `Theory` | `class Theory`, the copy of it that the e-graph takes, rules and terms read from texts, calls that end in an exception at any step |
| `EGraphSoundness` | `EGraph` with a history variable: the value of each id in an algebra |
| `Permutations` | `utils/permutation.cpp`: a permutation to its number and back |
| `Indices` | the trie index as the set of its paths and a position, the multiset index as the table of multisets, the selected one, and its history |
| `Compiler` | a pattern to a query: `is_linear`, `count_ac_operators`, `compile_rec`, the permutation of a `Constraint`; a pattern to the calls that build it; a rule to its `Kernel` |
| `Engine` | `prepare`, `execute`, `execute_rec`, `intersect`, `lookup_or_ephemeral` over any database and any queries |
| `EngineOnPatterns` | `Engine` on queries that `Compiler` makes of patterns, and what a pattern matches by definition |
| `Saturate` | `saturate`, `apply_matches`, `apply_match`, `Subst::instantiate`: composes `EGraphSoundness` and `Engine` |
| `SaturateOnPatterns` | `Saturate` on rules that `Compiler` compiles, and what their matches should lead to by definition |
| `MC_*` | instances for TLC |
| `BasicLemmas` | lemmas: least elements, induction over intervals, initial segments, division, multisets |
| `UnionFindProofs`, `EGraphProofs`, `SoundnessProofs`, `EngineProofs`, `EntriesProofs`, `AcVectorProofs`, `SaturateProofs` | theorems, and the lemmas only they need |

`UnionFind` implements `Partition` (checked and proved), which is why the
e-graph modules may use `Partition` for it: `UF!Merged` is `unify`. In the same
way `AcVector` implements `EGraph`, and `MultisetEntries` computes what
`Multisets` says, which is why everything else may use sets of tuples and
functions from ids to counts.

**State.** `rep`, `memo` and `rows` are the union-find, `EGraph::memo` and the
tuples of all relations. Ids are numbered from 1. `phase` and `pending` say
where a running `rebuild` is: `"relation"` before the next relation of
`Database::rebuild`, `"scan"` inside a `RowStore::rebuild` (`cur` is the tuple
under the scan, `todo` those behind it), `"congruence"`, `"again"`, `"flatten"`,
`"unflatten"` inside `RelationAC::rebuild`. `changed` and `did` are the
variables `changed` and `did_something` of the code. `merged` and `quiet` are
history variables for the properties and guard nothing.

**Abstractions, and why they lose nothing the properties can see.**
- A relation is a *set* of tuples. The code's vectors hold no duplicates when a
  call begins: a row store deduplicates after each scan, neighbours being equal
  because surviving ids only decrease along equal arguments; an AC relation
  inserts only tuples it does not contain. Two tuples that *become* equal inside
  a scan stay two entries: `todo` holds pairs of the stored and the canonical
  tuple.
- `qsort_r` may put tuples with equal arguments in any order: `First` offers
  each of them.
- The memo is a hash map. Among stale entries that become the same e-node the
  model lets any one win (`winners`); an entry that is canonical already wins
  always, since `emplace` does not overwrite. An entry pushed twice to the
  worklist (two stale children) is processed twice with the same result.
- In `flatten` and `unflatten` the worklist follows the relation, sorted by id,
  so for an e-node new to the memo the smallest id wins.
- Multisets are compared by fingerprint in the code; `EGraph` compares the
  multisets themselves. `relation_ac.cpp:22-25` assumes the same, and `AcVector`
  shows what follows: as long as no two multisets that are compared collide
  (`NoCollision`), the vector implements the set (proved). Zero-count entries, which the class keeps, are invisible
  to every operation used here (`QueriesExact`, `OperationsExact`) except that
  `map` may report a change of such an entry; `changed` of `canonicalize` is
  read only after a pass that has unified two ids of the relation, when the
  larger of them certainly changes.
- The second condition of the loop at `relation_ac.cpp:274`, `i >= 0` for an
  unsigned `i`, is always true and does not appear.
- `add_expr` is a sequence of `add_enode` calls, which callers of the model can
  make in any order.
- The order in which `Database::rebuild` visits the relations is that of a hash
  map: the constant `Relations` fixes one.

**The AC relation as stored.** In `AcVector` `data[op]` is the vector of an AC
operator, `next` the position of `congruence` in it and `cache` its map from
multisets to ids, which after a unification holds the root that `unify`
returned. Two tuples count as equal when id and fingerprint are, as in
`relation_ac.cpp:26`. `canonicalize` renames in place and sorts only if
something changed. A worklist is built in the order of the double loop and
applied by insertions, each of them a search. `std::sort` leaves tuples with
equal keys in any order; `sort` fixes one, which only a collision would show,
since `deduplicate` keeps one tuple per key. The refinement mapping replaces
`rows` by the tuples of the vectors; a step of the scan that unifies is an
`AcUnify`, one that does not is a stutter.

**Multisets as stored.** In `MultisetEntries` an object is `data`, `nelements`
and `fingerprint`. `insert`, `remove` change the fingerprint by an increment;
`construct` and `map` compute it anew. Products are taken in 128 bits and sums
of residues fit 64, so `Nat` is faithful there; the number of elements is
bounded by `MaxCount`, far below its 32 bits.

**Texts, theory and symbols.** A text is a sequence of characters, an expression
the tree that `Compiler` takes, with symbols for names. The recursion of
`parse_expr` is unrolled into `frames`; `advance` stops at the end marker, which
`tokenize` always appends, so the cursor never leaves the tokens. An exception ends the parser (`failed`)
and the call that uses it (`ParserThrows`); what was interned by then stays. A
failed assertion (an operator without a relation, a wrong number of children)
ends the program, which then takes no further step (`aborted`): this is a Debug
build; `CMakeLists.txt:26` makes Release builds without assertions, where such a
term is stored. The theory's symbol table and the e-graph's copy are two
`Owners`.

**The query engine.** `Engine` is a state machine for one thread that executes a
list of queries on an e-graph that does not change. The recursion of
`execute_rec` is unrolled: `level` is its depth, `mode` says whether the level
is entered (`Intersect`, or `Report` below the last variable), looks for its
next candidate (`Descend`, `Exhausted`) or has been returned to (`Unselect`).
`states[v]` holds the candidates not tried yet and the current one, `index[c]`
the copy of the index that constraint c moves. Different e-graphs are different
initial values of `db`: rows, AC terms by term-id, memo and canonical ids, chosen
also such that a tuple holds an id that has been merged since. Variables and
term-ids count from 1; where the code sets bit 31, an ephemeral id is above
`MaxIds`. Arity and length checks that throw are the domains of the operators.
`Engine` assumes of its queries what `compile` guarantees of linear patterns
with an operator at the root (`IsQuery`), and that is checked for the compiled
ones. `Compiler`, `EngineOnPatterns` and `SaturateOnPatterns` use recursive
operators; `Engine`, `Indices`, `Permutations` and `Saturate` do not.

**Saturate.** `Saturate` adds to the state of `EGraphSoundness` that of the
engine and of the loop: `stage` (matching, applying, first and second rebuild),
`matches`, the substitution `rule` whose matches are applied, `offset` into
them, the `match` copied and materialized so far, and the ids `built` on the
right side. One step is one call of `add_enode` or `unify`, one step of the
engine or one step of `rebuild`. A caller (`Setup`, `Saturate`) adds terms, unifies ids of equal
value, rebuilds and calls `saturate` in any order, on an empty e-graph too, on
one it has unified and not rebuilt, and again after a call has returned. What is
local to a call (`matches`, the engine) `Return` forgets; `ephemeral` belongs to
the e-graph and lives on. The constant `Kernels` is what the constructor
compiled, a query, an environment and the calls of the right side for each rule;
`KernelsAssumption` says what is assumed of it. In the run it is what `Kernel`
makes of the rules (`KernelsCompiled`). The engine matches on `db`, the copy that `populate_index` made
of the relations; nothing is added or merged before it is done, so `db` also
serves `lookup`. Term-ids number the tuples of an AC relation in a fixed but
arbitrary order. The rules whose matches are applied come in any order, since
`matches` is a hash map. The head of a query ends with the root; ephemeral ids
keep the number of their record, in `ephemeral`, for ever, as in the code. The
environment of a substitution is what `compile` makes it; `Position` also says
what `env[...]` does for a name that is missing, which `IsKernel` excludes.

**Bounds.** `MaxIds` (how many ids exist; also a limit of the code, `id_t`),
`AcArgs` (multisets passed to `add_enode`), `MaxMset` (rebuild is called only
while no multiset is larger, since flattening may grow them for ever). For
`Saturate` also `MaxIters`, the argument of `saturate`, and three bounds on its
caller, which makes `MaxCalls` calls at most (not counting those that change
nothing), adds terms only while there are fewer than `MaxSetup` ids and calls
only while no multiset is larger than `MaxOwnMset`. The last one is a real
narrowing: rebuilds can double multisets (`relation_ac.cpp:206`), so what is
called after one that left a larger multiset is not explored. A step of `saturate` that met `MaxIds` or `MaxMset`
would be stuck and refute `SaturateReturns`, so in the run they are chosen
large enough for two iterations after all that the caller may do. `MaxCount` and `MaxVector` (elements of a
multiset, length of the vectors it is built from), `MaxText` and `MaxPieces`
(length of a text of arbitrary characters, pieces of a text of parentheses and
names), `MaxSymbols` and `MaxRules` (no opaque symbol beyond the first, number
of rules).

**Fairness.** Weak fairness of the steps inside a call (`LoopStep`,
`RebuildStep`, `SaturateStep`, which has the rebuilds of the caller in it; for the engine every step, since `Next` only executes the list of
queries it was started with) and of nothing else: a call runs to completion on its thread, and
nobody has to call anything. `AcVector`, `MultisetEntries`, `Parser` and `Theory`
state no fairness: that a rebuild ends is checked of `EGraph`, which `AcVector`
implements, and the other three have safety properties only. `Converges` therefore has "the caller rebuilds
again and again" as its premise, not as an assumption of `Spec`.

## Runs

| Run | Instance | Shows |
|---|---|---|
| `unionfind` | 5 ids: every forest of parents below children up to that size | `CountsClasses`, `FindReturnsRoot`, `NormalizeFlattens` at every step of the loops; `LoopsEnd`; `ImplementsPartition` |
| `rows` | constant `a`, unary `g`, `h`, 5 ids: terms like g(h(a)), three tuples with equal arguments, a relation rebuilt before the one that merges its arguments | `FunctionalDependency`: after every rebuild arguments determine the class. `RebuildReports`: the return value is exactly "something was merged". `QuietIsClosed`: after a rebuild that returned false, and until the next unification, memo and rows are canonical and congruence-closed and `lookup` finds every tuple. `Converges`: rebuilding again and again comes to an end |
| `ac` | `a`, `b`, unary `g`, AC `f` called with two children, 4 ids, multisets up to 3 before a rebuild | `MemoMatchesRows` at every step of a rebuild; `FlattenSeesClosed`; `RebuildEnds` |
| `ac_dependency` | `a`, AC `f` with two or three children | *violated*: `FunctionalDependency` of an AC relation, see below |
| `ac_reports` | the same | *violated*: `RebuildReports` with an AC relation |
| `ac_vector` | `a`, `b`, AC `f`, 4 ids, sums of two, multisets up to 2 before a rebuild; hashes such that no two multisets collide (the assumption `Injective` of `MC_AcVector`) and the order by fingerprint is not the order by id | `ImplementsSets`: every step of the vector is a step of the set or a stutter; `VectorSorted` at every step |
| `multiset` | two objects, 3 ids, up to 3 elements, PRIME = 47; one id hashes to zero, one to a multiple of PRIME, one such that a sum is exactly PRIME | `FingerprintFollows`: one contents, one fingerprint, whatever the history; `QueriesExact`; `OperationsExact`: the entry vector does what `Multisets` says |
| `soundness` | integers mod 2, `f` = +, `g(x) = 2x+1` | `Sound`: whatever is equated or derived is true in the algebra |
| `parser` | every text of up to five of the characters `( ) a ? < ` and blank, every text of up to seven parentheses and names | `AcceptsGrammar`: exactly the grammar of `parser.cpp:113-164`; `RoundTrip`: what is read prints as the text; the cursor stays inside the tokens |
| `theory` | `f` declared unary, AC or not at all, opaque symbols, four rules: of one the left side is not linear by `is_linear`, one repeats a variable below two operators, one does not parse;, three terms of which two fail | `NamesStable`, `SymbolsInUse`, `TablesAgree` about symbols; `RuleCallsAtomic`; `TermsClosed` |
| `engine` | 3 ids; a constant, a unary, a ternary and an AC operator; 7 patterns; 240 e-graphs with every pair of AC terms of two and three elements, in the memo or not, with and without a merge since the last rebuild | `MatchesExact`: the results are exactly the matches of the pattern; `EphemeralRoots`: only the root may be ephemeral and then stands for an unknown e-node; `IndicesTrackBindings`: whatever was selected and undone, each index is where the current candidates lead; `SelectsOffered`: no select misses; `QueriesEnd`. An assumption of `MC_Engine` compares `Permutations` with its definition on all permutations of up to five positions |
| `saturate` | the rules x·1 → x and x·x⁻¹ → 1 of `evaluation/groups.cpp`, 1, `a`, the inverse and the AC product; up to six calls of `add_expr` (up to four ids), `unify`, `rebuild` and `saturate` in any order, with two iterations each; the algebra is the integers mod 3 | `CallsAreSound`: saturate unifies only ids of equal value, however old the match; `MatchesKnown`: the assertions of `apply_match(es)`; `MatchesActedOn`: after an iteration the right side of every match ever found is in the class of its left side; `SaturatedIsClosed`: an iteration that changed nothing leaves no match outside the class of its right side, by definition of `Denote` and not of the engine; `SaturateReturns` |

The bounds are small but the interesting cases happen in them: the mutants of
`PROJECT.json`, one per property, each break a property within the same
bounds. In particular four ids are enough for a sum nested in a sum, for two
sums that become congruent in the middle of a congruence pass, and for a merge
that makes an already rebuilt relation stale. For the engine, three ids and
terms of three elements give parts of a term that occur in it twice, overlap and
are unknown to the memo; the ternary operator is searched in a cyclic order,
the smallest permutation that is not its own inverse.

`MatchesExact` compares two independent definitions: `Denote` evaluates a
pattern bottom-up on the e-graph (an AC operator denotes the id of any *part* of
a stored term, the whole included), while the results come from compiled
constraints, permuted tries, multisets taken apart and lookups. In the three
AC-nested patterns an inner part without an id has no match, since an ephemeral
id is in no relation: this is what the code does and what `Denote` says.

In the run `saturate` two iterations reach what makes the loop hard: matches of
the first iteration applied again to classes merged since, ephemeral roots of
the first iteration materialized again in the second, fixpoints with and without
matches. The caller's own calls add indices filled from relations that are not
canonical, since something was unified and not rebuilt before, and a second call
that finds the ephemeral ids of the first one still recorded.

`CallsAreSound` is the bridge from the loop to the theorem below:
`SoundNext` is what `EGraphSoundness` demands of a caller (unify only what has
one value), and `Soundness` says that then all the e-graph holds is true
(together: `SaturateSound`).

In `ac_vector` four ids allow two sums with the same canonical multiset, a third
one that meets the cached id after it was merged, and worklists that derive one
tuple twice. In `multiset` the prime is small enough for residues to wrap and to
vanish, and three ids are the least with which renaming joins two and leaves
one. In `parser` the second family of texts reaches three nested calls, an
operator with three children and every way to leave one open.

The runs `parser`, `theory`, `engine` and `saturate` stop when their work is
done, or on an assertion, hence `CHECK_DEADLOCK FALSE`; `SaturateReturns` says
that saturate stops only at its end, `QueriesEnd` that the engine stops nowhere
else, `AcceptsGrammar` what the parser's ends mean.

### Disagreements between code and documentation

- `engine.h:20-23` says there can be only one tuple per argument list. For AC
  relations this fails after a rebuild: with 2 = f(a,a), 3 = f(2,2) and
  4 = f(a,a,2), flattening derives 3 = f(a,a,2) although 4 = f(a,a,2) is there;
  3 and 4 are merged by the next rebuild only, which is one more reason why
  `saturate` calls `rebuild` twice.
- `database.h:98` and `:295` say `rebuild` returns true if something was
  unified. `RelationAC::rebuild` returns true always. (`database.h:297` also
  calls rebuild a no-op for AC relations; it is not.)

Seen while reading, without a run of their own:

- `Multiset::empty` (`multiset.h:346`: "no elements with positive count") asks
  whether there are entries; after the last element was removed it says no,
  because `remove` keeps the entry.
- `theory.h:108` says a linear pattern has each variable at most once, and so
  does the exception of `add_rewrite_rule`; `is_linear` compares the variables
  that are direct children of one operator, as its own comment says
  (`theory.cpp:112-119`), and rules like x·x⁻¹ → 1 need that.
- `row_store.h:49` says `add_tuple` throws for a tuple of a wrong size; it
  asserts (`row_store.h:53`).
- The theory and its copy in the e-graph both go on interning: a name new to one
  and another name new to the other get one symbol. `TablesAgree` says what does
  hold.

## Proofs

All for every value of the constants.

**Union-find** (`UnionFindProofs`). The inductive invariant is
`Inv == TypeOK /\ Forest(vec) /\ CountsClasses /\ LoopInv`: parents are never
larger than children, so `find_root`'s recursion is well founded (`RootExists`,
by least counterexample, from `BasicLemmas`); the counter is the number of
roots; and what each loop has achieved so far: in `find_root_mut` the cursor is
in the class of the argument, in `normalize` the entries before the cursor point
to roots. `TypeOK` and `CountsClasses` alone are not inductive: without the
forest a grandparent link could create a cycle, and the loops' results are about
what happened before. `GrandparentStep` (both loops), `LinkStep` (`unify`) and
`AppendStep` (`make_set`) say how one write changes the root of every id;
`RootUnique` reduces each of them to checking one equation per link. Theorems:
`TypeCorrect`, `Counting`, `FindCorrect`, `NormalizeCorrect`, and
`Implementation`: the parent vector implements `Partition`.

**E-graph, types** (`EGraphProofs`, `TypeCorrect`). `TypeOK` is inductive by
itself: `UF!IsPartition`, `MemoOK`, `RowsOK`, `ScanOK`, `ControlOK` say that
every id anywhere was handed out, that a scan runs on a row store and the AC
phases on an AC relation. The work is in the operators: renaming a multiset by
`rep` yields a multiset of live ids (`MapMsetType`, by induction over the ids,
`IntervalInduction`), `flatten` and `unflatten` mention only ids their tuples
mention (`DerivedType`), the memo gets the least owner of a derived e-node
(`DeriveType`, `LeastElement`), merging keeps a partition (`UnionFacts`).

**E-graph, soundness** (`SoundnessProofs`, `Soundness`). For every algebra
(`Dom`, `Interp`, `Zero`, `Plus`) in which the AC operators are commutative
monoids (`MonoidAssumption`; no inverse, no idempotence), if callers unify only
ids of equal value then `Sound` holds at every step. The invariant is
`SoundInv == TypeOK /\ Valued /\ Sound`, with `Valued`: every id has one value
in `Dom`. `Sound` covers the tuples under and behind a scan (`AllRows`), which
is what makes it inductive. The first lemmas supply the algebra: sums add up when
multisets do (`SumInsertAll`, `SumAddCount`), renaming ids by a map that keeps
values keeps the sum (`SumMap`, hence `ValueCanon`: canonical children have the
value of the children they stand for). `DerivedHolds` is the heart: `flatten`
takes one occurrence of b out of f(X + b) and adds b's arguments,
`unflatten` takes the arguments out and adds b, and both keep the sum, also
when b occurs more than once.

**E-graph, closure** (`EGraphProofs`). `FlattenClosed`: flatten and unflatten
always start on a closed relation. The property speaks of one moment; the
invariant `LoopInv` says what the loop of `RelationAC::rebuild` has reached
before: since `canonicalize` the tuples of the current relation are canonical as
long as nothing was unified, and at `again` equal multisets are in one class
unless `changed`. `AcCanonicalizeCloses` and `AcCongruentCloses` are the two
ways into `flatten`.

`MemoAgrees`: memo and relations describe the same e-nodes at every step.
`MemoMatchesRows` is inductive relative to `TypeOK`, because it is stated up to
`CanonArgs` and `rep` and over `AllRows`, the tuples under and behind a running
scan included. The argument: merging makes the partition coarser
(`UnionCoarser`), and what was congruent stays so (`CanonKept`); a rebuild only
replaces tuples by congruent ones (`RowsFollow`, `MemoFollows`); `add_enode`,
`flatten` and `unflatten` write to both sides (`AddEnodeMatches`,
`DeriveMatches`); the collision of memo entries drops only entries that have a
canonical twin (`RebuildMatches`). Under all of it is that renaming twice is
renaming once by the composition (`MapMsetComposes`), so that canonical forms
can be taken before or after a merge.

**E-graph, what a rebuild guarantees** (`EGraphProofs`). `QuietClosed`: a rebuild
that returned false leaves the e-graph closed. `Dependency`: without AC operators
every rebuild, whatever it returns, leaves relations whose arguments determine
the class (with them it does not, run `ac_dependency`). Both rest on `Passed`,
which says what the scan of a `RowStore` has reached: the tuples before the
cursor are functional together with the one under it, and no tuple still to come
sorts before one that was passed (`Sorted`). A scan compares neighbours only;
that it misses no pair needs the order of the arguments to be total
(`ArgsTotal`), and that a merge in one relation does not undo what was done in
another needs that merging only makes the partition coarser (`ClassesKept`).
Relations without columns or with fewer than two tuples are not scanned: of the
former the memo allows one class (`OneConstantKept`), the latter need that a row
store is finite (`RowsFinite`). `QuietInv` adds that as long as `did` is false
the ids have not moved since the memo pass: memo and finished relations are
still canonical when the call returns. That lookup then finds each tuple takes
`MemoMatchesRows` as well (`QuietCloses`). The two theorems need that every
operator has a relation that is rebuilt, `RelationsAssumption`.

`Reports`: without AC operators the return value of a rebuild is exactly that it
merged something (with them it is not, run `ac_reports`). `RowStore::rebuild`
reports a merge when two neighbours have different *stored* ids, and ids go
stale inside a scan; then `unify` has nothing to do and the report would be
wrong. `ReportsInv` says why it is not: `did = merged`, and as long as nothing
was merged the ids under and behind the scan are roots, so the first difference
met is a real one; afterwards the report is true already.

**Engine** (`EngineProofs`), for all e-graphs and all queries that
`EngineAssumption` admits. `TypeCorrect`, `IndicesTracked` and `SelectsSafe` are
parts of one invariant, `SearchInv`: none of them is inductive alone. That an
index is where the bindings lead (`IndicesTrackBindings`) survives a return only
if `unselect` undoes `select`, and in a multiset index it does so for keys that
were offered only (`SelectUndone`: `remove` of an element that is not there does
nothing, the `insert` of `unselect` would then invent one). That keys are
offered is `Offered`: candidates were taken from the index at the position that
selecting the *bindings before them* leads to, and the search is back at that
position when it tries the next one. `StatesOK` and `PositionsOK` bound what the
search works on. The position that bindings lead to is a recursion over the
variables of a constraint; `ReplayedSteps` gives its equations and
`ReplayedKept` says that it depends on the bindings entered so far and on
nothing else. TLC checks `SearchInv` on the instance of the run `engine`.

**Engine, what it finds** (`EngineProofs`). `ResultsSatisfy`: every result is a
match (`IsMatch`): its ids are those of one binding of the query's variables
that satisfies all constraints (`Satisfied`). For an operator with fixed arity
that is a tuple of its row store; for an AC operator a term that includes the
children with their multiplicities (`KidCounts`), and as id of that part the one
in the memo, or an ephemeral id recorded for exactly that part. The search never
checks this: it intersects, for one variable after the other, what single
indices offer. The proof derives it from `IndicesTrackBindings`. Where a trie is
after n variables, its path is what the columns up to n are bound to
(`TriePosition`), since the columns are searched in ascending order of their
variables (`Sorts`); so when the last column is selected, the whole path is a
tuple (`RowSatisfied`). Where a multiset index is, what was taken out of the
term is what the children are bound to, id by id (`MsetPosition`), so the rest
is never negative (`AcSatisfied`). The id of an AC term is looked up, not
searched: `Sought` and `Looked` say of the candidates of its level, and of the
binding once it is made, that they stand for the children selected before
(`CandidatesLookedUp`, `IntersectLooks`), which stays true while deeper levels
record more ephemeral e-nodes (`EphemeralGrows`, `StandsKept`). `FoundInv` is
all of this with `SearchInv`; it needs in addition that the queries to come are
a suffix of those given (`Remaining`). `RootsEphemeral` (`EphemeralRoots`)
follows: every id of a match but the root is searched in some index, and what
indices offer are ids of the e-graph. That no match is missed is checked by TLC
(`MatchesExact`), not proved.

**Saturate** (`SaturateProofs`), for any rules, any algebra in which they hold
(`RulesHold`: whatever values satisfy the constraints of the left side give both
sides one value), any number of iterations and any number of calls, with other
calls between them. `SoundCalls` (`CallsAreSound`):
every step of `saturate` is one that `EGraphSoundness` allows its caller, hence
all that the e-graph then equates is true (`SaturateSound`). The difficulty is
time. A match is found on the copy in the indices, kept, and applied in this and
all later iterations; meanwhile its ids are merged, and ephemeral ids stand for
e-nodes written down before those merges. The invariant `SatInv` says of a match
what does not age: there are values of the variables of its rule that fit every
constraint, and the ids of the match have these values (`Justified`), where the
value of an ephemeral id is that of its e-node. It is `SoundInv` together with
- `SearchOK`: while matching, the e-graph is what the indices were filled with
  (`Snapshot`), and `FoundInv` of `EngineProofs` holds of them;
- `FoundOK`: the matches of a rule are a list of justified ones, head by head;
- `ApplyOK`: the match being applied is justified, and so are the subterms of
  the right side built so far (`Instantiated`).

What the engine finds is justified (`MatchJustified`): `ResultsSatisfy` gives a
tuple or a part of an AC term for each constraint; a tuple of the e-graph is
true (`Sound`), so the values fit (`RowFits`); a part of an AC term gets its id
from the memo, which is true as well, or is its own ephemeral e-node (`AcFits`,
with `ValueOfCounts`: the sum over a multiset is the sum over its members in any
order). It stays so because no id changes its value (`CallsKeep`, `KnownKept`,
`JustifiedKept`): unification only joins ids of equal value. Materializing
replaces an ephemeral id by one of the same value (`MaterializeCall`,
`AddTermId`), each call of `instantiate` makes the term the algebra makes
(`InstantiateCall`), so at the `unify` both sides have one value (`SidesEqual`).
`KnownIds` (`MatchesKnown`) is part of `FoundOK`; that the cursor is always at the
beginning of a match is arithmetic (`MultiplesApart`). The AC relations are
finite (`AcFinite`), without which term-ids could not number their tuples.

**Multisets as stored** (`EntriesProofs`), for any number of ids, any hash
function and any modulus above 42 (to which `hash.h` maps the hash 0). The
invariant is `EntriesInv`: every object is `Good`, its vector strictly sorted,
its size and its fingerprint those of its `Tally`, the multiset that its entries
add up to. `Tally` makes sense of vectors that are not sorted and have one id in
several entries, which is what `map` works on between its loops; so each loop is
a statement about tallies: `sort` and `merge` keep it, renaming maps it,
`construct`, `insert_all`, `msetdiff` and `collect` build it up (`MapGood`,
`ConstructGood`, `InsertAllGood`, `DiffGood`), `rehash` computes its digest.
On sorted vectors binary search finds the entry (`FindPos`), hence `count` is
the tally. That an increment of the fingerprint is the digest of the result is
arithmetic modulo the prime (`RemainderAdds`, `DigestAdds`). Nothing is assumed
about collisions: `operator==` compares the entries when the fingerprints agree.
`OperationsAreExact` is what justifies `Multisets`, and with it every other
module here.

**AC relation as stored** (`AcVectorProofs`), for any number of ids, any
operators and any hash. The inductive invariant is `VecInv`: `TypeOK`; `DataOK`,
every vector consists of tuples of its relation in strictly increasing order;
`ScanCacheOK`, the cache of a running congruence has an id for every multiset
passed, in the class of every tuple passed with it; the row stores of AC
operators are empty. `SortedAlways`: `VectorSorted` at every step, whether
fingerprints collide or not. `insert` keeps the order because `lower_bound` is
the place of the tuple in it, `sort` ends in an order that allows equal keys
(`Ascending`), `deduplicate` makes it strict (`Increasing`).

`VectorIsSet`: `VecSpec /\ []NoCollision => ImplementsSets`. `NoCollision` is a
predicate of the state: no two of the multisets that the next step may compare,
those stored, their canonical forms and what two of them derive, have one
fingerprint. It is a hypothesis on the behaviour, not an assumption on the
constants, because fingerprints are residues: a hash that tells all multisets
apart exists only for few ids. The code makes the same hypothesis
(`relation_ac.cpp:22-25`), and the instance of the run `ac_vector` satisfies it in
every state, by `Injective`. The steps:
- `add_enode` needs no hypothesis, since the id is new (`RefAddAcEnode`).
- `canonicalize` yields the set of the canonical tuples, and as a strictly
  increasing sequence is determined by its elements (`SortedUnique`), the vector
  is unchanged exactly if the set is: the two leave the loop at the same moment
  (`RefCanonicalize`).
- A tuple of the scan whose multiset is cached with an id of another class is an
  `AcUnify` of two stored tuples, any other a stutter. At the end `ScanCacheOK`
  says that no two equal multisets are left in different classes
  (`RefCongruence`, `RefCongruent`), although the cache holds roots that later
  unifications replaced.
- The worklists derive what the set derives, less what is there already, and as
  they follow the vector the least owner of a new e-node is the first to reach
  the memo (`RefDerive`, `WorklistIsNew`).

Assumptions: `MaxIdsAssumption`, `OpsAssumption`, `BoundsAssumption` (types of
the parameters), `RelationsAssumption` (the constructor of `EGraph` creates a
relation for every operator of the theory), `AlgebraAssumption`,
`MonoidAssumption`, `EngineAssumption` (what `compile` guarantees of its queries and
`populate_index` of the database; `SaturateProofs` proves it of the kernels and
the copy), `SaturateBounds`, `KernelsAssumption` (what the constructor of `EGraph`
compiles: every variable of a right side occurs on the left, a name names one
rule), `RulesHold`, `AcArgsAssumption` (the bound on multisets admits what the
rules build), `FingerprintAssumption`, `EntriesAssumption`,
`HashAssumption` (types again, and a prime above 42); TLC evaluates them in every run that extends their modules.

Not proved, TLC only: liveness (`LoopsEnd`, `Converges`, `RebuildEnds`,
`QueriesEnd`, `SaturateReturns`), which is out of the prover's reach; `Compiler`,
`EngineOnPatterns`, `SaturateOnPatterns`, `Parser` and `Theory`, whose data are trees
and whose operators are recursive, hence also that `Kernels` is what the patterns
ask for, and that every match is found and acted on (`MatchesExact`,
`MatchesActedOn`, `SaturatedIsClosed`); `FunctionalDependency` and `RebuildReports` with AC
operators, where they are false. Of `AcVector` nothing is known once two
multisets have collided, except that the vectors stay sorted.

## Plan

1. *(done)* `Partition`, `UnionFind` and their proofs.
2. *(done)* `Multisets`, `EGraphState`, `RowStore`, `RelationAC`, `EGraph`,
   `EGraphSoundness`: the rebuild algorithm.
3. *(done)* Proofs about `EGraph`: `TypeOK`, `Sound` for every algebra,
   `FlattenSeesClosed`, `MemoMatchesRows`, `QuietIsClosed`,
   `FunctionalDependency` and `RebuildReports` of row stores.
4. *(done)* `Permutations`, `Indices`, `Compiler`, `Engine`, `EngineOnPatterns`.
   Proofs of `TypeOK`, `IndicesTrackBindings` and `SelectsOffered`, and that
   results are matches with ephemeral ids at the root only. To do: a proof that
   no match is missed.
5. *(done)* `Saturate`, `SaturateOnPatterns`: matches, ephemeral ids,
   substitution by name, the indices of an iteration. Proofs that matches stay
   known and justified and that all calls are sound. To do: a second call of
   `saturate` where the first one left large multisets; rules over two AC
   operators (`evaluation/ring.cpp`).
6. *(done)* `Fingerprint`, `MultisetEntries`, `AcVector`: multisets and the AC
   relation as they are stored. Proofs of all that is checked of
   `MultisetEntries` and of `AcVector`. To do: what a collision leads to.
7. *(done)* `SymbolTable`, `Parser`, `Theory`: the way from texts to rules and
   terms. To do: proofs about the symbol tables, apart from the recursive
   functions on texts that `Theory` uses.

## Not modelled

`dump_*` and `to_string` only print. The wording of exceptions is left out.
`SymbolTable::has_symbol` and `Theory::has_operator` are questions nobody asks.
The containers (`small_vector`, `unordered_dense`) are taken for sequences and
maps, and the hash functions of their keys for what places an entry: an order of
iteration is arbitrary. Builds without assertions are not modelled. The programs
under `evaluation/` and `tests/` are callers; tests were read for what the code
is meant to do.
