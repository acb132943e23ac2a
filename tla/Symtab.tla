------------------------------- MODULE Symtab -------------------------------
(***************************************************************************)
(* The symbol tables of the debugger (src/src/symtab.c): symbols in two    *)
(* hash tables of chains, by name and by value, as functions on tables.    *)
(*                                                                         *)
(* A chain is a sequence of positions in syms, head first, and a position  *)
(* stands for the address of a struct symbol.  Abstracted: the string      *)
(* space, the types (every caller passes the same one) and the parent      *)
(* tables, which are never set.                                            *)
(***************************************************************************)
EXTENDS Integers, Sequences, SequencesExt

CONSTANTS
  HashOfName,       \* sym_hash_name, which distinct names may share
  MAX_SYMBOL_HASH   \* 1009

ASSUME SymtabAssumption == MAX_SYMBOL_HASH \in Nat \ {0}

NULL == 0

sym_hash_value(value) == value % MAX_SYMBOL_HASH

symtab_init ==
  [syms |-> << >>,
   syms_by_name  |-> [h \in {HashOfName[n] : n \in DOMAIN HashOfName} |-> << >>],
   syms_by_value |-> [h \in 0..(MAX_SYMBOL_HASH - 1) |-> << >>]]

\* The first of a chain that passes the test, or NULL.
OnChain(chain, Test(_)) ==
  LET i == SelectInSeq(chain, Test)
  IN  IF i = 0 THEN NULL ELSE chain[i]

sym_find1(symtab, name) ==
  OnChain(symtab.syms_by_name[HashOfName[name]], LAMBDA s : symtab.syms[s].name = name)

sym_lookup(symtab, value) ==
  OnChain(symtab.syms_by_value[sym_hash_value(value)], LAMBDA s : symtab.syms[s].value = value)

\* Mutant: the value's chain grows at its end.
sym_add_last(symtab, name, value) ==
  LET s == Len(symtab.syms) + 1
  IN  [symtab EXCEPT !.syms = Append(@, [name |-> name, value |-> value]),
                     !.syms_by_name[HashOfName[name]] = <<s>> \o @,
                     !.syms_by_value[sym_hash_value(value)] = Append(@, s)]

\* A new symbol goes to the head of both chains, whether the name is new or not.
sym_add(symtab, name, value) ==
  LET s == Len(symtab.syms) + 1
  IN  [symtab EXCEPT !.syms = Append(@, [name |-> name, value |-> value]),
                     !.syms_by_name[HashOfName[name]] = <<s>> \o @,
                     !.syms_by_value[sym_hash_value(value)] = <<s>> \o @]

\* A symbol that is there gets its new value in place, in its old value's chain.
sym_set(symtab, name, value) ==
  LET s == sym_find1(symtab, name)
  IN  IF s # NULL THEN [symtab EXCEPT !.syms[s].value = value]
                  ELSE sym_add(symtab, name, value)
=============================================================================
