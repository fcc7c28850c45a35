------------------------------ MODULE Saturate ------------------------------
(***************************************************************************)
(* EGraph::saturate (src/src/egraph.cpp): in each iteration fill the       *)
(* indices, run the query of every rule (module Engine), apply all matches *)
(* found so far, in this and in earlier iterations, and rebuild twice      *)
(* (module EGraph).  Applying a match turns ephemeral ids into real ones,  *)
(* builds the right side of the rule (Subst::instantiate, query.cpp) and   *)
(* unifies.  The history `val' of EGraphSoundness goes along.              *)
(*                                                                         *)
(* A rule appears as the constructor compiled it: a query for its left     *)
(* side, the calls of add_enode that build its right side.                 *)
(***************************************************************************)
EXTENDS EGraphSoundness

CONSTANTS
  Kernels,     \* queries and substs, one of each per rule, in the order of the
               \* theory: [name, query, env, calls, root]
  MaxSetup,    \* bound: the caller adds terms only while there are fewer ids
  MaxIters,    \* the argument of saturate
  MaxCalls,    \* bound: calls that the caller makes
  MaxOwnMset   \* bound: the caller calls only while no multiset is larger

ASSUME SaturateBounds ==
  /\ MaxSetup \in Nat /\ MaxIters \in Nat \ {0}
  /\ MaxCalls \in Nat /\ MaxOwnMset \in Nat

VARIABLES
  stage,      \* where saturate is: "idle" if it is not running; "match",
              \* "apply", "first" and "second" rebuild of an iteration
  ncalls,     \* calls made so far, those that changed nothing not counted
  iter,       \* iterations finished
  matches,    \* rule name -> the matches found, one after the other
  left,       \* names whose matches this iteration has still to apply
  rule,       \* number of the substitution being applied, or 0
  offset,     \* ids of matches[name] that apply_matches is done with
  match,      \* the match being applied, ephemeral ids materialized so far
  built,      \* ids of the subterms of the right side built so far
  db,         \* what the indices were filled with
  queries, index, states, level, mode, results, ephemeral,  \* of the engine
  start       \* history: the e-graph at the start of the iteration

engine == <<db, queries, index, states, level, mode, results, ephemeral>>
applying == <<left, rule, offset, match, built>>
own == <<stage, ncalls, iter, matches, applying, engine, start>>

AllQueries == [i \in DOMAIN Kernels |-> Kernels[i].query]

E == INSTANCE Engine WITH todo <- queries, Databases <- {}, Queries <- AllQueries

Names == {Kernels[i].name : i \in DOMAIN Kernels}
-----------------------------------------------------------------------------
\* The value of an operator on a list of values.
Apply(op, d) ==
  LET sum[k \in 0..Len(d)] ==
        IF k = 0 THEN Zero[op] ELSE Plus[op][<<sum[k-1], d[k]>>]
  IN  IF op \in AcOps THEN sum[Len(d)] ELSE Interp[op][d]

\* A reference is a variable of the pattern or a call that was made before.
RefOK(k, ref, calls) ==
  IF "call" \in DOMAIN ref THEN ref.call \in 1..calls ELSE ref.var \in DOMAIN k.env

\* What compile and the constructor guarantee: env says where in the head of the
\* query the variables of the left side are, and the right side has no others.
IsKernel(k) ==
  /\ E!IsQuery(k.query)
  /\ \A name \in DOMAIN k.env : k.env[name] \in DOMAIN k.query.head
  /\ k.calls \in Seq({k.calls[j] : j \in DOMAIN k.calls})
  /\ \A j \in DOMAIN k.calls :
       LET call == k.calls[j]
       IN  /\ call.op \in Ops
           /\ call.refs \in Seq({call.refs[i] : i \in DOMAIN call.refs})
           /\ call.op \in RowOps => Len(call.refs) = Arity[call.op]
           /\ \A i \in DOMAIN call.refs : RefOK(k, call.refs[i], j - 1)
  /\ RefOK(k, k.root, Len(k.calls))

\* The values sigma of the variables of a query fit a constraint: its last
\* variable has the value of the operator on the others, of which a term-id is
\* none.
Fits(c, sigma) ==
  LET last == Len(c.variables)
      kids == SubSeq(c.variables, IF c.symbol \in AcOps THEN 2 ELSE 1, last - 1)
  IN  sigma[c.variables[last]] = Apply(c.symbol, [i \in DOMAIN kids |-> sigma[kids[i]]])

\* The value of a reference, when w are the values of the calls.
RefValue(k, ref, sigma, w) ==
  IF "call" \in DOMAIN ref THEN w[ref.call] ELSE sigma[k.query.head[k.env[ref.var]]]

\* Values sigma of the variables of the left side and w of the subterms of the
\* right side.
Fitting(k, sigma, w) ==
  /\ \A c \in DOMAIN k.query.constraints : Fits(k.query.constraints[c], sigma)
  /\ \A j \in DOMAIN k.calls :
       w[j] = Apply(k.calls[j].op,
                    [i \in DOMAIN k.calls[j].refs |-> RefValue(k, k.calls[j].refs[i], sigma, w)])

ASSUME KernelsAssumption ==
  /\ Kernels \in Seq({Kernels[i] : i \in DOMAIN Kernels})
  /\ \A i \in DOMAIN Kernels : IsKernel(Kernels[i])
  /\ \A i, j \in DOMAIN Kernels : Kernels[i].name = Kernels[j].name => i = j

\* The rules hold in the algebra: both sides of a rule have one value.
ASSUME RulesHold ==
  \A i \in DOMAIN Kernels :
    LET k == Kernels[i]
    IN  \A sigma \in [1..k.query.nvars -> Dom], w \in [DOMAIN k.calls -> Dom] :
          Fitting(k, sigma, w) =>
            RefValue(k, k.root, sigma, w) = sigma[k.query.head[Len(k.query.head)]]
-----------------------------------------------------------------------------
\* The arguments of an AC tuple, one after the other, in an arbitrary order.
Numbered(R) ==
  LET n == Cardinality(R)
      rest[k \in 0..n] ==
        IF k = 0 THEN R ELSE LET before == rest[k-1] IN before \ {CHOOSE r \in before : TRUE}
  IN  [k \in 1..n |-> (CHOOSE r \in rest[k-1] : TRUE).args]

\* What populate_index puts into the indices, and lookup uses.  The term-ids
\* number the tuples of an AC relation.
Snapshot ==
  [rows  |-> [op \in RowOps |-> {Append(r.args, r.id) : r \in rows[op]}],
   terms |-> [op \in AcOps |-> Numbered(rows[op])],
   memo  |-> [op \in AcOps |->
                [m \in {e.args : e \in {d \in DOMAIN memo : d.op = op}} |-> memo[ENode(op, m)]]],
   rep   |-> [x \in Ids |-> IF x \in Live THEN rep[x] ELSE x]]

\* The matches of a rule, the results of a query behind those found before.
After(found, more) ==
  LET all[n \in 0..Len(more)] == IF n = 0 THEN found ELSE all[n-1] \o more[n]
  IN  all[Len(more)]

\* The first substitution with a name.
SubstNamed(name) ==
  CHOOSE i \in DOMAIN Kernels : /\ Kernels[i].name = name
                                /\ \A j \in 1..(i-1) : Kernels[j].name # name
subst == Kernels[rule]
head_size == Len(subst.query.head)

\* env[...] makes an entry 0 for a variable that the left side does not bind.
Position(name) == IF name \in DOMAIN subst.env THEN subst.env[name] ELSE 1

IdOf(ref) == IF "call" \in DOMAIN ref THEN built[ref.call] ELSE match[Position(ref.var)]

Count(s) == [x \in Ids |-> Cardinality({i \in DOMAIN s : s[i] = x})]
Children(op, s) == IF op \in AcOps THEN Count(s) ELSE s

\* The bound on the multisets that add_enode is called with admits those of
\* saturate: any children of an AC operator on either side of a rule.
ASSUME AcArgsAssumption ==
  \A i \in DOMAIN Kernels :
    /\ \A c \in DOMAIN Kernels[i].query.constraints :
         LET q == Kernels[i].query.constraints[c]
         IN  q.symbol \in AcOps => \A s \in [2..(Len(q.variables) - 1) -> Ids] : Count(s) \in AcArgs
    /\ \A j \in DOMAIN Kernels[i].calls :
         LET call == Kernels[i].calls[j]
         IN  call.op \in AcOps => \A s \in [1..Len(call.refs) -> Ids] : Count(s) \in AcArgs

\* add_enode, the value of a new id, and the id it returns.
AddTerm(op, args) ==
  /\ AddEnode(op, args)
  /\ val' = IF rep' = rep THEN val ELSE Append(val, Value(op, args, val))

IdAfter(op, args) ==
  LET known == Lookup(op, args)
  IN  IF known = {} THEN Len(rep) + 1 ELSE CHOOSE id \in known : TRUE
-----------------------------------------------------------------------------
SatInit ==
  /\ SoundInit
  /\ stage = "idle" /\ ncalls = 0 /\ iter = 0
  /\ matches = << >> /\ left = {} /\ rule = 0 /\ offset = 0
  /\ match = << >> /\ built = << >>
  /\ db = << >> /\ queries = << >> /\ index = << >> /\ states = << >>
  /\ level = 0 /\ mode = "idle" /\ results = << >> /\ ephemeral = << >>
  /\ start = << >>

\* The caller has control and may call again.
Idle ==
  /\ stage = "idle" /\ phase = "idle" /\ ncalls < MaxCalls
  /\ \A op \in AcOps : \A r \in rows[op] : MsetSize(r.args, MaxIds) <= MaxOwnMset

\* add_expr: it calls add_enode for one subterm after the other.
AddExpr ==
  /\ Len(rep) < MaxSetup
  /\ \E op \in Ops : \E args \in CallArgs(op) : AddTerm(op, args)

CallUnify == \E a, b \in Live : val[a] = val[b] /\ Unify(a, b) /\ UNCHANGED val

CallRebuild == Rebuild /\ UNCHANGED val

\* What the caller does before saturate and between two calls of it.
Setup ==
  /\ Idle
  /\ AddExpr \/ CallUnify \/ CallRebuild
  /\ vars' # vars /\ ncalls' = ncalls + 1
  /\ UNCHANGED <<stage, iter, matches, applying, engine, start>>

\* The head of the loop: fill the indices, start with the first query.
BeginIteration ==
  /\ iter' < MaxIters
  /\ stage' = "match"
  /\ db' = Snapshot
  /\ queries' = AllQueries
  /\ start' = store

\* saturate is called, on whatever the e-graph holds.
Saturate ==
  /\ Idle
  /\ ncalls' = ncalls + 1 /\ iter' = 0
  /\ matches' = [name \in Names |-> << >>]
  /\ UNCHANGED <<vars, val, applying, index, states, level, mode, results, ephemeral>>
  /\ BeginIteration

\* Faulty: the results of a query replace the earlier matches of its rule, so
\* that only the last level of the search is kept.
Match_KeepsLast ==
  /\ stage = "match" /\ E!Next
  /\ matches' = IF queries' = queries THEN matches
                ELSE [matches EXCEPT ![Kernels[Len(Kernels) - Len(queries) + 1].name] =
                        IF results = << >> THEN << >> ELSE results[Len(results)]]
  /\ UNCHANGED <<vars, val, stage, ncalls, iter, applying, start>>

\* A step of the engine; the results of a query go behind the earlier matches
\* of its rule.
Match ==
  /\ stage = "match" /\ E!Next
  /\ matches' = IF queries' = queries THEN matches
                ELSE [matches EXCEPT ![Kernels[Len(Kernels) - Len(queries) + 1].name] =
                        After(@, results)]
  /\ UNCHANGED <<vars, val, stage, ncalls, iter, applying, start>>

\* All queries are done.
BeginApply ==
  /\ stage = "match" /\ queries = << >> /\ mode = "idle"
  /\ stage' = "apply"
  /\ left' = {name \in Names : matches[name] # << >>}
  /\ UNCHANGED <<vars, val, ncalls, iter, matches, rule, offset, match, built, engine, start>>

\* apply_matches for the next name, in any order: matches is a hash map.
ApplyMatches ==
  /\ stage = "apply" /\ rule = 0
  /\ \E name \in left : left' = left \ {name} /\ rule' = SubstNamed(name)
  /\ offset' = 0
  /\ UNCHANGED <<vars, val, stage, ncalls, iter, matches, match, built, engine, start>>

\* apply_match begins with a copy of the next match.
ApplyMatch ==
  /\ stage = "apply" /\ rule # 0 /\ match = << >>
  /\ offset + head_size <= Len(matches[subst.name])
  /\ match' = SubSeq(matches[subst.name], offset + 1, offset + head_size)
  /\ built' = << >>
  /\ UNCHANGED <<vars, val, stage, ncalls, iter, matches, left, rule, offset, engine, start>>

IsEphemeral(id) == id > MaxIds

\* The e-node behind an ephemeral id is added.
Materialize ==
  /\ \E k \in DOMAIN match :
       /\ IsEphemeral(match[k]) /\ \A j \in 1..(k-1) : ~ IsEphemeral(match[j])
       /\ LET e == ephemeral[match[k] - MaxIds]
          IN  AddTerm(e.op, e.args) /\ match' = [match EXCEPT ![k] = IdAfter(e.op, e.args)]
  /\ UNCHANGED <<stage, ncalls, iter, matches, left, rule, offset, built, engine, start>>

Materialized == match # << >> /\ \A k \in DOMAIN match : ~ IsEphemeral(match[k])

\* The next call of add_enode in instantiate.
Instantiate ==
  /\ Materialized /\ Len(built) < Len(subst.calls)
  /\ LET call == subst.calls[Len(built) + 1]
         args == Children(call.op, [i \in DOMAIN call.refs |-> IdOf(call.refs[i])])
     IN  AddTerm(call.op, args) /\ built' = Append(built, IdAfter(call.op, args))
  /\ UNCHANGED <<stage, ncalls, iter, matches, left, rule, offset, match, engine, start>>

\* Faulty: the cursor into the matches stays where it is.
UnifySides_Again ==
  /\ Materialized /\ Len(built) = Len(subst.calls)
  /\ Unify(match[Len(match)], IdOf(subst.root))
  /\ match' = << >> /\ built' = << >>
  /\ UNCHANGED <<val, stage, ncalls, iter, matches, left, rule, offset, engine, start>>

\* Faulty: the first id of the match is taken for its root.
UnifySides_FirstId ==
  /\ Materialized /\ Len(built) = Len(subst.calls)
  /\ Unify(match[1], IdOf(subst.root))
  /\ match' = << >> /\ built' = << >>
  /\ offset' = offset + head_size
  /\ UNCHANGED <<val, stage, ncalls, iter, matches, left, rule, engine, start>>

\* Both sides are there: apply_match ends with unify.
UnifySides ==
  /\ Materialized /\ Len(built) = Len(subst.calls)
  /\ Unify(match[Len(match)], IdOf(subst.root))
  /\ match' = << >> /\ built' = << >>
  /\ offset' = offset + head_size
  /\ UNCHANGED <<val, stage, ncalls, iter, matches, left, rule, engine, start>>

\* Faulty: the last match is left out.
MatchesApplied_Early ==
  /\ stage = "apply" /\ rule # 0 /\ match = << >>
  /\ offset + 2 * head_size > Len(matches[subst.name])
  /\ rule' = 0 /\ offset' = 0
  /\ UNCHANGED <<vars, val, stage, ncalls, iter, matches, left, match, built, engine, start>>

\* apply_matches returns.
MatchesApplied ==
  /\ stage = "apply" /\ rule # 0 /\ match = << >>
  /\ offset + head_size > Len(matches[subst.name])
  /\ rule' = 0 /\ offset' = 0
  /\ UNCHANGED <<vars, val, stage, ncalls, iter, matches, left, match, built, engine, start>>

\* clear_indices, and the first call of rebuild.
FirstRebuild ==
  /\ stage = "apply" /\ left = {} /\ rule = 0
  /\ Rebuild
  /\ stage' = "first"
  /\ db' = << >>
  /\ UNCHANGED <<val, ncalls, iter, matches, applying, queries, index, states, level, mode, results,
                 ephemeral, start>>

SecondRebuild ==
  /\ stage = "first"
  /\ Rebuild
  /\ stage' = "second"
  /\ UNCHANGED <<val, ncalls, iter, matches, applying, engine, start>>

\* In a rebuild of saturate or of its caller.
InRebuild ==
  /\ stage \in {"idle", "first", "second"}
  /\ RebuildStep
  /\ UNCHANGED <<val, own>>

IterationDone == stage = "second" /\ phase = "idle"

NextIteration ==
  /\ IterationDone
  /\ iter' = iter + 1
  /\ UNCHANGED <<vars, val, ncalls, matches, applying, index, states, level, mode, results, ephemeral>>
  /\ BeginIteration

\* saturate returns; matches and the engine were local variables, the map of
\* ephemeral ids is not.
Return ==
  /\ IterationDone /\ iter + 1 = MaxIters
  /\ stage' = "idle" /\ iter' = iter + 1
  /\ matches' = << >> /\ index' = << >> /\ states' = << >> /\ results' = << >>
  /\ UNCHANGED <<vars, val, ncalls, applying, db, queries, level, mode, ephemeral, start>>

\* What goes on inside a call of saturate, or in a rebuild outside.
SaturateStep ==
  \/ Match \/ BeginApply \/ ApplyMatches \/ ApplyMatch
  \/ Materialize \/ Instantiate \/ UnifySides \/ MatchesApplied
  \/ FirstRebuild \/ SecondRebuild \/ InRebuild \/ NextIteration \/ Return

SatNext == Setup \/ Saturate \/ SaturateStep

\* A call runs to completion once made; nobody has to make one.
SatSpec == SatInit /\ [][SatNext]_<<vars, val, own>> /\ WF_<<vars, val, own>>(SaturateStep)
-----------------------------------------------------------------------------
\* The ids of a match are ids of the e-graph, or ephemeral ids whose e-node is
\* recorded, and the matches of a rule have the length its substitution expects
\* (the assertions at egraph.cpp:150 and 174).
MatchesKnown ==
  \A name \in DOMAIN matches :
    /\ Len(matches[name]) % Len(Kernels[SubstNamed(name)].query.head) = 0
    /\ \A i \in DOMAIN matches[name] :
         LET id == matches[name][i]
         IN  IF IsEphemeral(id) THEN id - MaxIds \in DOMAIN ephemeral ELSE id \in Live

\* Seen as a caller of the e-graph, saturate does what EGraphSoundness allows: it
\* unifies only ids that have the same value, however old the match is, whatever
\* was merged since, and whichever e-node an ephemeral id stood for.
CallsAreSound == [][SoundNext]_<<vars, val>>

\* saturate returns: the search of every query ends, matching and rebuilding
\* between them do not run for ever, and all max_iters iterations are done.
SaturateReturns == stage # "idle" ~> stage = "idle" /\ iter = MaxIters
=============================================================================
