---------------------------- MODULE SymbolTable ----------------------------
(***************************************************************************)
(* class SymbolTable (src/src/symbol_table.h, symbol_table.cpp): numbers   *)
(* for names.  Named and opaque symbols share one counter.                 *)
(***************************************************************************)
EXTENDS Naturals, FiniteSets

EmptyTable == [map |-> << >>, next_id |-> 0]

\* Faulty variant: every call hands out a new number.
intern_Always(t, str) ==
  [map     |-> [s \in DOMAIN t.map \cup {str} |-> IF s = str THEN t.next_id ELSE t.map[s]],
   next_id |-> t.next_id + 1]

intern(t, str) ==
  IF str \in DOMAIN t.map THEN t
  ELSE [map     |-> [s \in DOMAIN t.map \cup {str} |->
                       IF s = str THEN t.next_id ELSE t.map[s]],
        next_id |-> t.next_id + 1]

\* Faulty variant: for a new name, the counter after it was incremented.
SymbolOf_Incremented(t, str) == IF str \in DOMAIN t.map THEN t.map[str] ELSE t.next_id + 1

\* What intern returns.
SymbolOf(t, str) == IF str \in DOMAIN t.map THEN t.map[str] ELSE t.next_id

\* Faulty variant: the next number is the number of names.
create_opaque_BySize(t) == [t EXCEPT !.next_id = Cardinality(DOMAIN t.map)]

create_opaque(t) == [t EXCEPT !.next_id = @ + 1]

opaque == <<"<opaque>">>  \* no name: the parser does not read "<"

get_string(t, symbol) ==
  IF \E s \in DOMAIN t.map : t.map[s] = symbol
    THEN CHOOSE s \in DOMAIN t.map : t.map[s] = symbol
    ELSE opaque
=============================================================================
