---------------------------- MODULE Expressions -----------------------------
(***************************************************************************)
(* The debugger's expressions (src/src/command.c): eval splits the text at *)
(* the first operator it finds, in a fixed order of operators, looks names *)
(* up in the symbol tables, reads and writes memory, and keeps the values  *)
(* it printed for $n and $$n.  The commands are print, set, set var and    *)
(* symbol-file.                                                            *)
(*                                                                         *)
(* Abstracted: an expression is the sequence of its tokens, a pair each;   *)
(* there is one device, a RAM mapped one to one with a cell for every      *)
(* number: to_absolute keeps both a 16-bit address of such a machine and   *)
(* what is larger.  Virtual registers ($pc, ...) and formats are left out. *)
(***************************************************************************)
EXTENDS Symtab, FiniteSets

CONSTANTS
  Word,          \* 2^64, the values of an unsigned long
  Uint,          \* 2^32, the values of an unsigned int
  Byte,          \* 2^8
  MAX_HISTORY,   \* 10
  Prints,        \* expressions that are printed
  Assignments,   \* expressions of set
  Variables,     \* pairs of a name and an expression, for set var
  MapFiles,      \* map files: sequences of a name and a value
  MaxSymbols,    \* bounds on the symbols of a table
  MaxPrints      \* and on the values printed

Undefined == -1

ASSUME ExpressionsAssumption ==
  /\ {Word, Uint, Byte, MAX_HISTORY} \subseteq Nat \ {0}
  /\ Byte <= Word

VARIABLES
  program_symtab,
  internal_symtab,
  historytab,
  history_count,
  target,
  alive,     \* FALSE after a division by zero, which ends the program
  latest,    \* history: the value last given to each name in each table
  printed,   \* history: every value printed
  answer     \* history: what the last command gave, and what it should have given

expr_vars == <<program_symtab, internal_symtab, historytab, history_count, target, alive,
               latest, printed, answer>>

-----------------------------------------------------------------------------
(* Evaluation.  A result is a value, the error flag, memory, and whether the *)
(* program survived. *)

IsOp(t, op) == t[1] = "op" /\ t[2] = op

\* Where strchr and strstr find an operator, 0 if nowhere.
Split(expr, op) == SelectInSeq(expr, LAMBDA t : IsOp(t, op))
LeftOf(expr, i)  == SubSeq(expr, 1, i - 1)
RightOf(expr, i) == SubSeq(expr, i + 1, Len(expr))

Failed(s) == [s EXCEPT !.val = 0, !.eflag = TRUE]

eval_historical(id) == historytab[(id % Uint) % MAX_HISTORY]

\* The address a name stands for: the program's symbols come first.
SymbolValue(name, s) ==
  LET p == sym_find1(program_symtab, name)
      i == sym_find1(internal_symtab, name)
  IN  IF p # NULL THEN [s EXCEPT !.val = program_symtab.syms[p].value]
      ELSE IF i # NULL THEN [s EXCEPT !.val = internal_symtab.syms[i].value]
      ELSE Failed(s)

\* eval_mem as an rvalue reads a byte.
Dereferenced(s) == [s EXCEPT !.val = s.target[@]]

\* What eval does with a text in which it finds no operator: history, &name, a
\* name, or a number, which may have a sign in front.
Operand(expr, s) ==
  IF expr = << >> THEN Failed(s) ELSE
  LET t == Head(expr)
  IN  CASE t[1] = "$"   -> [s EXCEPT !.val = eval_historical(t[2])]
        [] t[1] = "$$"  -> [s EXCEPT !.val = eval_historical(history_count - 1 - t[2])]
        [] t[1] = "&"   -> SymbolValue(t[2], s)
        [] t[1] = "sym" -> Dereferenced(SymbolValue(t[2], s))
        [] t[1] = "num" -> [s EXCEPT !.val = t[2] % Word]
        [] t[1] = "op"  -> IF t[2] \in {"+", "-"} /\ Len(expr) > 1 /\ expr[2][1] = "num"
                           THEN [s EXCEPT !.val = (IF t[2] = "-" THEN -expr[2][2] ELSE expr[2][2]) % Word]
                           ELSE Failed(s)

\* The operators in the order in which fold_binary is tried, and one of the
\* mutants that try them in another order.
Folds_products_first == <<"*", "+", "-", "/">>
Folds == <<"+", "-", "*", "/">>

\* fold_binary does not match an operator at the start of the text.
Fold(expr) == SelectInSeq(Folds, LAMBDA op : Split(expr, op) > 1)

Binary(op, val1, r) ==
  CASE op = "+" -> [r EXCEPT !.val = (val1 + @) % Word]
    [] op = "-" -> [r EXCEPT !.val = (val1 - @) % Word]
    [] op = "*" -> [r EXCEPT !.val = (val1 * @) % Word]
    [] op = "/" -> IF r.val = 0 THEN [r EXCEPT !.alive = FALSE] ELSE [r EXCEPT !.val = val1 \div @]

\* The byte is stored only if nothing was wrong so far.
Assigned(dst, val) ==
  IF dst.eflag \/ ~dst.alive THEN [dst EXCEPT !.val = val]
  ELSE [dst EXCEPT !.target[dst.val] = val % Byte, !.val = val]

\* eval.  The operands of a comparison may be evaluated in either order.  On the
\* left of an assignment a text that starts with a letter has to be a name, and one
\* that starts with a dollar a virtual register, which $n and $$n are not.
RECURSIVE eval(_, _, _)
eval(expr, s, left_first) ==
  LET Of(e, r) == eval(e, r, left_first)
      comparison == IF Split(expr, "==") # 0 THEN Split(expr, "==") ELSE Split(expr, "!=")
      assignment == Split(expr, "=")
      fold == Fold(expr)
  IN  IF ~s.alive THEN s
      ELSE IF comparison # 0 THEN
        LET lhs == LeftOf(expr, comparison)
            rhs == RightOf(expr, comparison)
            l == Of(lhs, IF left_first THEN s ELSE Of(rhs, s))
            r == Of(rhs, IF left_first THEN l ELSE s)
            holds == (l.val = r.val) = IsOp(expr[comparison], "==")
        IN  [(IF left_first THEN r ELSE l) EXCEPT !.val = IF holds THEN 1 ELSE 0]
      ELSE IF assignment # 0 THEN
        LET lhs == LeftOf(expr, assignment)
            rhs == Of(RightOf(expr, assignment), s)
            kind == IF lhs = << >> THEN "none" ELSE Head(lhs)[1]
            dst == IF kind \notin {"sym", "$", "$$"} THEN Of(lhs, rhs)
                   ELSE IF kind = "sym" /\ Len(lhs) = 1 THEN SymbolValue(Head(lhs)[2], rhs)
                   ELSE Failed(rhs)
        IN  Assigned(dst, rhs.val)
      ELSE IF fold # 0 THEN
        LET i == Split(expr, Folds[fold])
            l == Of(LeftOf(expr, i), s)
            r == Of(RightOf(expr, i), l)
        IN  IF r.alive THEN Binary(Folds[fold], l.val, r) ELSE r
      ELSE Operand(expr, s)

Start == [val |-> 0, eflag |-> FALSE, target |-> target, alive |-> TRUE]

-----------------------------------------------------------------------------
(* What an expression means on paper: products before sums, sums before     *)
(* comparisons, operators of one kind from left to right, names as they were *)
(* last defined, $n as it was printed. *)

NameMeans(name) ==
  IF latest.program[name] # Undefined THEN latest.program[name] ELSE latest.internal[name]

TokenMeans(t) ==
  CASE t[1] = "num" -> t[2] % Word
    [] t[1] = "$"   -> printed[t[2] + 1]
    [] t[1] = "$$"  -> printed[Len(printed) - t[2]]
    [] t[1] = "&"   -> NameMeans(t[2])
    [] t[1] = "sym" -> target[NameMeans(t[2])]

Levels == <<{"==", "!="}, {"+", "-"}, {"*", "/"}>>

RECURSIVE Meaning(_)
Meaning(expr) ==
  LET Ops(level) == {i \in DOMAIN expr : expr[i][1] = "op" /\ expr[i][2] \in level}
      level == SelectInSeq(Levels, LAMBDA l : Ops(l) # {})
      i == CHOOSE j \in Ops(Levels[level]) : \A k \in Ops(Levels[level]) : k <= j
      a == Meaning(LeftOf(expr, i))
      b == Meaning(RightOf(expr, i))
  IN  IF level = 0 THEN TokenMeans(expr[1])
      ELSE CASE expr[i][2] = "==" -> IF a = b THEN 1 ELSE 0
             [] expr[i][2] = "!=" -> IF a # b THEN 1 ELSE 0
             [] expr[i][2] = "+"  -> (a + b) % Word
             [] expr[i][2] = "-"  -> (a - b) % Word
             [] expr[i][2] = "*"  -> (a * b) % Word
             [] expr[i][2] = "/"  -> a \div b

\* Operands and operators alternate, there is one comparison at most, and no
\* difference or quotient is followed by one that it would have to precede.
Conventional(expr) ==
  LET ops == SelectSeq(expr, LAMBDA t : t[1] = "op")
      At(i, level) == ops[i][2] \in level
      Between(i, j, level) == \E k \in (i + 1)..(j - 1) : At(k, level)
  IN  /\ Len(expr) % 2 = 1
      /\ \A i \in DOMAIN expr : expr[i][1] = "op" <=> i % 2 = 0
      /\ \A i \in DOMAIN ops : ~At(i, {"="})
      /\ \A i, j \in DOMAIN ops : i < j =>
           /\ ~(At(i, {"==", "!="}) /\ At(j, {"==", "!="}))
           /\ At(i, {"-"}) /\ At(j, {"-"}) => Between(i, j, {"+", "==", "!="})
           /\ At(i, {"*", "/"}) /\ At(j, {"/"}) => Between(i, j, {"+", "-", "==", "!="})

\* Every name is defined and every value of the history is still kept.
Meaningful(expr) ==
  \A i \in DOMAIN expr :
    /\ expr[i][1] \in {"sym", "&"} => NameMeans(expr[i][2]) # Undefined
    /\ expr[i][1] = "$"  => expr[i][2] \in (history_count - MAX_HISTORY)..(history_count - 1)
    /\ expr[i][1] = "$$" => expr[i][2] < history_count /\ expr[i][2] < MAX_HISTORY

NoAnswer == [given |-> 0, meant |-> 0]
Answered(expr, given, meant) ==
  answer' = IF Conventional(expr) /\ Meaningful(expr) THEN [given |-> given, meant |-> meant] ELSE NoAnswer

-----------------------------------------------------------------------------
(* Commands. *)

symbols_unchanged == UNCHANGED <<program_symtab, internal_symtab, latest>>
history_unchanged == UNCHANGED <<historytab, history_count, printed>>

\* An assignment inside the expression is made even when an error is found later.
cmd_print(expr, left_first) ==
  LET r == eval(expr, Start, left_first)
      fine == r.alive /\ ~r.eflag
  IN  /\ alive /\ history_count < MaxPrints
      /\ target' = r.target
      /\ alive' = r.alive
      /\ historytab' = IF fine THEN [historytab EXCEPT ![history_count % MAX_HISTORY] = r.val]
                               ELSE historytab
      /\ history_count' = IF fine THEN history_count + 1 ELSE history_count
      /\ printed' = IF fine THEN Append(printed, r.val) ELSE printed
      /\ IF fine THEN Answered(expr, r.val, Meaning(expr)) ELSE answer' = NoAnswer
      /\ symbols_unchanged

\* set name=expr, which stores a byte.  A comparison on the right is split off
\* before the assignment and is not what is stored.
cmd_set(name, expr, left_first) ==
  LET r == eval(<<<<"sym", name>>, <<"op", "=">>>> \o expr, Start, left_first)
      fine == r.alive /\ ~r.eflag
  IN  /\ alive
      /\ target' = r.target
      /\ alive' = r.alive
      /\ IF fine /\ Split(expr, "==") = 0 /\ Split(expr, "!=") = 0
         THEN Answered(expr, r.target[NameMeans(name)], Meaning(expr) % Byte)
         ELSE answer' = NoAnswer
      /\ symbols_unchanged
      /\ history_unchanged

\* set var name=expr.
cmd_set_var(name, expr, left_first) ==
  LET r == eval(expr, Start, left_first)
      fine == r.alive /\ ~r.eflag
  IN  /\ alive /\ Len(internal_symtab.syms) < MaxSymbols
      /\ target' = r.target
      /\ alive' = r.alive
      /\ internal_symtab' = IF fine THEN sym_set(internal_symtab, name, r.val) ELSE internal_symtab
      /\ latest' = IF fine THEN [latest EXCEPT !.internal[name] = r.val] ELSE latest
      /\ answer' = NoAnswer
      /\ UNCHANGED program_symtab
      /\ history_unchanged

\* symbol-file adds the symbols of a map file to those that are there.
load_map_file(file) ==
  /\ alive /\ Len(program_symtab.syms) + Len(file) <= MaxSymbols
  /\ program_symtab' = FoldLeft(LAMBDA t, s : sym_add(t, s[1], s[2]), program_symtab, file)
  /\ latest' = [latest EXCEPT !.program = FoldLeft(LAMBDA l, s : [l EXCEPT ![s[1]] = s[2]], @, file)]
  /\ answer' = NoAnswer
  /\ UNCHANGED <<internal_symtab, target, alive>>
  /\ history_unchanged

ExprInit ==
  /\ program_symtab = symtab_init
  /\ internal_symtab = symtab_init
  /\ historytab = [i \in 0..(MAX_HISTORY - 1) |-> 0]
  /\ history_count = 0
  /\ target = [a \in 0..(Word - 1) |-> 0]
  /\ alive = TRUE
  /\ latest = [t \in {"program", "internal"} |-> [n \in DOMAIN HashOfName |-> Undefined]]
  /\ printed = << >>
  /\ answer = NoAnswer

\* The orders of evaluation the compiler may have chosen.
Orders(expr) == IF Split(expr, "==") + Split(expr, "!=") = 0 THEN {TRUE} ELSE BOOLEAN

ExprNext ==
  \/ \E expr \in Prints : \E left_first \in Orders(expr) : cmd_print(expr, left_first)
  \/ \E a \in Assignments : \E left_first \in Orders(a[2]) : cmd_set(a[1], a[2], left_first)
  \/ \E v \in Variables : \E left_first \in Orders(v[2]) : cmd_set_var(v[1], v[2], left_first)
  \/ \E file \in MapFiles : load_map_file(file)

ExprSpec == ExprInit /\ [][ExprNext]_expr_vars

-----------------------------------------------------------------------------
(* Properties. *)

\* print and set give what the expression means on paper, after any sequence of
\* definitions, redefinitions, stores and prints, although eval splits a text
\* at the first operator of a kind and the history is a ring.  Chains of
\* differences and quotients are outside it: eval takes them from the right.
AnswersExact == answer.given = answer.meant

\* An address that has names is shown with the one that was added for it last,
\* however the symbols share chains and whatever a later map file redefined
\* (sym_lookup in print_addr and print_insn_long).
AddressNames ==
  \A s \in DOMAIN program_symtab.syms :
    LET value == program_symtab.syms[s].value
        same  == {r \in DOMAIN program_symtab.syms : program_symtab.syms[r].value = value}
    IN  sym_lookup(program_symtab, value) = CHOOSE r \in same : \A q \in same : q <= r
=============================================================================
