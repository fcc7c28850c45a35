------------------------------- MODULE EGraph -------------------------------
(***************************************************************************)
(* class EGraph (src/src/egraph.h, egraph.cpp): the calls add_enode, unify *)
(* and rebuild on a shared union-find, memo and database.  A caller makes  *)
(* one call at a time; rebuild is modelled step by step, every relation in *)
(* turn (modules RowStore and RelationAC).                                 *)
(***************************************************************************)
EXTENDS RowStore, RelationAC

CONSTANTS
  AcArgs,    \* bound: the multisets add_enode is called with
  MaxMset    \* bound: rebuild is called only while no multiset is larger

ASSUME BoundsAssumption == AcArgs \subseteq Mset /\ MaxMset \in Nat

Init == /\ rep = << >>
        /\ memo = << >>
        /\ rows = [op \in Ops |-> {}]
        /\ phase = "idle" /\ pending = << >>
        /\ todo = {} /\ cur = {} /\ changed = FALSE
        /\ did = FALSE /\ merged = FALSE /\ quiet = TRUE

\* The children a caller may pass: ids it was given before.
CallArgs(op) == IF op \in AcOps THEN AcArgs \cap Args(op) ELSE Args(op)

\* lookup: the memo entry of the e-node with canonical children, if any.
Lookup(op, args) ==
  LET e == ENode(op, CanonArgs(op, args))
  IN  IF e \in DOMAIN memo THEN {memo[e]} ELSE {}

\* Faulty variant: the number of ids after make_set is taken for the new id.
AddEnode_SizeAfter(op, args) ==
  LET e  == ENode(op, CanonArgs(op, args))
      id == Len(rep) + 2
  IN  /\ phase = "idle"
      /\ IF Lookup(op, args) # {}
           THEN UNCHANGED store
           ELSE /\ UF!MakeSet
                /\ rows' = [rows EXCEPT ![op] = @ \cup {[args |-> e.args, id |-> id]}]
                /\ memo' = [k \in DOMAIN memo \cup {e} |-> IF k = e THEN id ELSE memo[k]]
      /\ UNCHANGED <<phase, pending, todo, cur, changed, did, merged, quiet>>

\* add_enode: a known e-node returns at once, a new one gets a fresh class, a
\* tuple and a memo entry.
AddEnode(op, args) ==
  LET e  == ENode(op, CanonArgs(op, args))
      id == Len(rep) + 1
  IN  /\ phase = "idle"
      /\ IF Lookup(op, args) # {}
           THEN UNCHANGED store
           ELSE /\ UF!MakeSet
                /\ rows' = [rows EXCEPT ![op] = @ \cup {[args |-> e.args, id |-> id]}]
                /\ memo' = [k \in DOMAIN memo \cup {e} |-> IF k = e THEN id ELSE memo[k]]
      /\ UNCHANGED <<phase, pending, todo, cur, changed, did, merged, quiet>>

Unify(a, b) ==
  /\ phase = "idle"
  /\ UF!Union(a, b)
  /\ quiet' = (quiet /\ rep[a] = rep[b])
  /\ UNCHANGED <<memo, rows, phase, pending, todo, cur, changed, did, merged>>

\* rebuild, first part: give every memo entry canonical children and a
\* canonical id.  Of several stale entries that become the same e-node one
\* wins, whichever the worklist holds first; an entry that is canonical
\* already always wins, because emplace does not overwrite.
Rebuild ==
  /\ phase = "idle"
  /\ \A op \in AcOps : \A r \in rows[op] : MsetSize(r.args, MaxIds) <= MaxMset
  /\ LET worklist == {e \in DOMAIN memo : CanonENode(e) # e}
     IN  \E placed \in SUBSET worklist :
           LET winners == (DOMAIN memo \ worklist) \cup placed
           IN  /\ {CanonENode(e) : e \in winners} = {CanonENode(e) : e \in DOMAIN memo}
               /\ ~ \E d, e \in winners : d # e /\ CanonENode(d) = CanonENode(e)
               /\ memo' = [k \in {CanonENode(e) : e \in winners} |->
                             rep[memo[CHOOSE e \in winners : CanonENode(e) = k]]]
  /\ phase' = "relation"
  /\ pending' = Relations
  /\ quiet' = FALSE
  /\ UNCHANGED <<rep, rows, todo, cur, changed, did, merged>>

\* Faulty variant: did_something survives from one call to the next.
RebuildReturn_StickyDid ==
  /\ phase = "relation"
  /\ pending = << >>
  /\ phase' = "idle"
  /\ quiet' = ~ did
  /\ merged' = FALSE
  /\ UNCHANGED <<rep, memo, rows, pending, todo, cur, changed, did>>

\* rebuild, last part: Database::rebuild has visited every relation.
RebuildReturn ==
  /\ phase = "relation"
  /\ pending = << >>
  /\ phase' = "idle"
  /\ quiet' = ~ did
  /\ did' = FALSE /\ merged' = FALSE
  /\ UNCHANGED <<rep, memo, rows, pending, todo, cur, changed>>

\* What goes on inside a call of rebuild.
RebuildStep == RowStep \/ AcStep \/ RebuildReturn

Next == \/ \E op \in Ops : \E args \in CallArgs(op) : AddEnode(op, args)
        \/ \E a, b \in Live : Unify(a, b)
        \/ Rebuild
        \/ RebuildStep

\* rebuild runs to completion once called; nobody has to call anything.
Spec == Init /\ [][Next]_vars /\ WF_vars(RebuildStep)
-----------------------------------------------------------------------------
\* What the memo and the relations mention are ids that were handed out.
MemoOK ==
  \A e \in DOMAIN memo : /\ e.op \in Ops /\ e.args \in Args(e.op)
                         /\ e = ENode(e.op, e.args)
                         /\ memo[e] \in Live

RowsOK == DOMAIN rows = Ops /\ \A op \in Ops : rows[op] \subseteq Row(op)

ScanOK ==
  IF phase = "scan"
    THEN /\ \E c \in Row(Current) : cur = {c}
         /\ todo \subseteq Row(Current) \X Row(Current)
    ELSE cur = {} /\ todo = {}

ControlOK ==
  /\ phase \in {"idle", "relation", "scan", "congruence", "again",
                "flatten", "unflatten"}
  /\ pending \in Seq(Ops)
  /\ phase = "scan" => pending # << >> /\ Current \in RowOps
  /\ phase \in {"congruence", "again", "flatten", "unflatten"} =>
       pending # << >> /\ Current \in AcOps
  /\ changed \in BOOLEAN /\ did \in BOOLEAN /\ merged \in BOOLEAN
  /\ quiet \in BOOLEAN

\* Types, and no dangling id: whatever the database or the memo mentions is an
\* id that was handed out.
TypeOK == UF!IsPartition /\ MemoOK /\ RowsOK /\ ScanOK /\ ControlOK

\* The memo and the database describe the same e-nodes up to equivalence, also
\* in the middle of rebuild: every memo entry has a tuple in the same class,
\* and every tuple has an entry.
MemoMatchesRows ==
  /\ \A e \in DOMAIN memo : \E r \in AllRows(e.op) :
       /\ CanonArgs(e.op, r.args) = CanonArgs(e.op, e.args)
       /\ rep[r.id] = rep[memo[e]]
  /\ \A op \in Ops : \A r \in AllRows(op) : \E e \in DOMAIN memo :
       e.op = op /\ CanonArgs(op, e.args) = CanonArgs(op, r.args)

\* In a relation just rebuilt the arguments determine the class (the
\* functional dependency that e-matching relies on, engine.h:20-23).
FunctionalDependency ==
  [][phase # "idle" /\ phase' = "idle" =>
       \A op \in Ops : \A r, s \in rows[op] :
         r.args = s.args => rep[r.id] = rep[s.id]]_vars

\* rebuild returns true exactly if it merged classes (database.h:94-97,
\* 295: "Returns true if any unifications occurred").
RebuildReports ==
  [][phase # "idle" /\ phase' = "idle" => did = merged]_vars

\* When rebuild returns false the e-graph is closed and stays closed until the
\* next unification: memo and tuples are canonical, no two congruent tuples
\* are in different classes, and lookup finds every tuple.
QuietIsClosed ==
  quiet =>
    /\ \A e \in DOMAIN memo : CanonENode(e) = e
    /\ \A op \in Ops : \A r \in rows[op] :
         /\ CanonArgs(op, r.args) = r.args
         /\ \A s \in rows[op] : r.args = s.args => rep[r.id] = rep[s.id]
         /\ \E id \in Lookup(op, r.args) : rep[id] = rep[r.id]

\* Rebuilding converges: a caller that from some point on does nothing but call
\* rebuild, again and again, ends up with a rebuild that returns false, after
\* which no rebuild returns true.
Converges ==
  <>[][~ (phase = "idle" /\ phase' = "idle")]_vars /\ []<><<Rebuild>>_vars
    => <>[](phase = "idle" => quiet)

\* Flattening works on a closed relation: canonical, one class per multiset
\* (relation_ac.cpp:156 assumes the first, the loop above it is there for the
\* second).
FlattenSeesClosed ==
  phase = "flatten" =>
    \A r, s \in rows[Current] :
      CanonRow(Current, r) = r /\ (r.args = s.args => r.id = s.id)

\* Every rebuild returns, although its AC loop has no iteration bound.
RebuildEnds == phase # "idle" ~> phase = "idle"
=============================================================================
