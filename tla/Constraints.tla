---------------------------- MODULE Constraints ----------------------------
(* A constraint of a policy, as it is written piece by piece, and the two     *)
(* ways it is decided: by the evaluator, and by the conditions it compiles    *)
(* to, where an expression on an absent field is undefined and values of      *)
(* different types are ordered by their types.                                *)
EXTENDS Integers, Sequences

CONSTANTS
  Leaves,     \* the comparisons, calls and quantifiers to write with
  Contexts,   \* the calls: a value, or None, of each args.<field>
  Starts(_),  \* of a string value: it starts with the prefix looked for
  MaxPieces,
  None

VARIABLES
  node,       \* what has been written
  pieces      \* how many pieces went into it

vars == <<node, pieces>>

(* A value is [type, val]; of a "list" or an "object" val is the sequence of   *)
(* its elements, or of the values under its keys, and of a "string" also the   *)
(* length.  An operand is [kind, of]: a "ref" or "count" of a field, the       *)
(* element "elem" of a quantifier's body, or a value, as a literal "lit" or a  *)
(* named constant "const".                                                    *)

Init == node \in Leaves /\ pieces = 1

Negate ==
  /\ pieces < MaxPieces
  /\ node' = [op |-> "not", inner |-> node] /\ pieces' = pieces + 1

Join(op, leaf) ==
  /\ pieces < MaxPieces
  /\ node' = [op |-> op, parts |-> <<node, leaf>>] /\ pieces' = pieces + 1

Next == Negate \/ \E op \in {"and", "or"}, leaf \in Leaves : Join(op, leaf)

Spec == Init /\ [][Next]_vars

-----------------------------------------------------------------------------
(* The evaluator.                                                            *)

Is(type, v) == v # None /\ v.type = type

\* None: a reference that misses, a count of what has none.
Operand(o, context, elem) ==
  CASE o.kind \in {"lit", "const"} -> o.of
    [] o.kind = "ref" -> context[o.of]
    [] o.kind = "elem" -> elem
    [] o.kind = "count" ->
         LET v == context[o.of]
         IN  CASE Is("list", v) \/ Is("object", v) -> [type |-> "number", val |-> Len(v.val)]
               [] Is("string", v) -> [type |-> "number", val |-> v.val]
               [] OTHER -> None

Elements(v) == {v.val[i] : i \in DOMAIN v.val}

Compare(op, a, b) ==
  CASE op = "<" -> a < b [] op = "<=" -> a <= b [] op = ">" -> a > b [] op = ">=" -> a >= b

Ordered == {"<", "<=", ">", ">="}

OrderedComparable(a, b) == a.type = b.type /\ a.type \in {"number", "string"}

EvalCmp(op, a, b) ==
  /\ a # None /\ b # None
  /\ CASE op = "==" -> a = b
       [] op = "!=" -> a # b
       [] op = "in" -> Is("list", b) /\ a \in Elements(b)
       [] op = "not in" -> Is("list", b) /\ a \notin Elements(b)
       [] OTHER -> OrderedComparable(a, b) /\ Compare(op, a.val, b.val)

RECURSIVE Eval(_, _, _)
Eval(n, context, elem) ==
  CASE n.op = "and" -> \A i \in DOMAIN n.parts : Eval(n.parts[i], context, elem)
    [] n.op = "or" -> \E i \in DOMAIN n.parts : Eval(n.parts[i], context, elem)
    [] n.op = "not" -> ~Eval(n.inner, context, elem)
    [] n.op = "startswith" ->
         LET v == Operand(n.arg, context, elem) IN Is("string", v) /\ Starts(v)
    [] n.op \in {"every", "any"} ->
         LET list == Operand(n.over, context, elem)
         IN  /\ Is("list", list)
             /\ IF n.op = "every"
                THEN \A e \in Elements(list) : Eval(n.body, context, e)
                ELSE \E e \in Elements(list) : Eval(n.body, context, e)
    [] OTHER -> EvalCmp(n.op, Operand(n.left, context, elem), Operand(n.right, context, elem))

-----------------------------------------------------------------------------
(* The conditions it compiles to.  A body holds when each of its lines is     *)
(* defined and true; a rule holds when one of its bodies does, so that its     *)
(* negation is never undefined.                                              *)

TypeRank(type) ==
  CASE type = "null" -> 0 [] type = "bool" -> 1 [] type = "number" -> 2
    [] type = "string" -> 3 [] type = "list" -> 4 [] type = "object" -> 5

\* The order of the target language is total, over all types.
TotalCompare(op, a, b) ==
  IF a.type = b.type /\ a.type \notin {"list", "object"} THEN Compare(op, a.val, b.val)
  ELSE Compare(op, TypeRank(a.type), TypeRank(b.type))

\* The type an operand pins, "bad" for a literal that is in no order, or None.
Hint(o) ==
  CASE o.kind = "count" -> "number"
    [] o.kind = "lit" -> IF o.of.type \in {"number", "string"} THEN o.of.type ELSE "bad"
    [] OTHER -> None


\* An ordered comparison is compiled with guards on what pins no type itself.
Guarded(n, a, b) ==
  LET hints == {Hint(n.left), Hint(n.right)}
      Guard(o, v, type) == Hint(o) = None => v.type = type
  IN  CASE "bad" \in hints -> FALSE
        [] hints = {None} ->
             \E type \in {"number", "string"} : a.type = type /\ b.type = type
        [] OTHER ->
             LET known == IF Hint(n.left) # None THEN Hint(n.left) ELSE Hint(n.right)
             IN  Guard(n.left, a, known) /\ Guard(n.right, b, known)

Iterable(v) == Is("list", v) \/ Is("object", v)

\* What is iterated over, and what `in' looks among: an object's values are its
\* members, and what is no collection has none.
Members(v) == IF Iterable(v) THEN Elements(v) ELSE {}

CmpLines(n, a, b) ==
  /\ a # None /\ b # None
  /\ CASE n.op = "==" -> a = b
       [] n.op = "!=" -> a # b
       [] n.op = "in" -> a \in Members(b)
       [] n.op = "not in" -> ~(a \in Members(b))
       [] OTHER -> Guarded(n, a, b) /\ TotalCompare(n.op, a, b)

\* (Mutant) Inline, a negation is undefined where a reference misses.
NegationInline(holds, defined) == defined /\ ~holds

\* A condition is negated through the name of a rule, never inline.
Negation(holds, defined) == ~holds

\* No reference of a comparison misses.
Defined(n, context, elem) ==
  n.op \in Ordered \cup {"==", "!=", "in", "not in"} =>
    Operand(n.left, context, elem) # None /\ Operand(n.right, context, elem) # None

RECURSIVE Runs(_, _, _)
Runs(n, context, elem) ==
  CASE n.op = "and" -> \A i \in DOMAIN n.parts : Runs(n.parts[i], context, elem)
    [] n.op = "or" -> \E i \in DOMAIN n.parts : Runs(n.parts[i], context, elem)
    [] n.op = "not" ->
         Negation(Runs(n.inner, context, elem), Defined(n.inner, context, elem))
    [] n.op = "startswith" ->
         LET v == Operand(n.arg, context, elem) IN Is("string", v) /\ Starts(v)
    [] n.op \in {"every", "any"} ->
         LET collection == Operand(n.over, context, elem)
         IN  /\ Iterable(collection)
             /\ IF n.op = "every"
                THEN \A e \in Members(collection) : Runs(n.body, context, e)
                ELSE \E e \in Members(collection) : Runs(n.body, context, e)
    [] OTHER -> CmpLines(n, Operand(n.left, context, elem), Operand(n.right, context, elem))

\* The rule that names the constraint among the reasons of a refusal.
Violated(n, context) == Negation(Runs(n, context, None), Defined(n, context, None))

-----------------------------------------------------------------------------
(* What the analyzer says of a field that no call sets.                      *)

FieldsOf(o) == IF o.kind \in {"ref", "count"} THEN {o.of} ELSE {}

\* (Mutant) A negation is not counted.
FlippedNever(odd) == odd

Flipped(odd) == ~odd

\* The fields that are read, with whether that is under an odd number of `not'.
RECURSIVE Uses(_, _)
Uses(n, odd) ==
  CASE n.op \in {"and", "or"} -> UNION {Uses(n.parts[i], odd) : i \in DOMAIN n.parts}
    [] n.op = "not" -> Uses(n.inner, Flipped(odd))
    [] n.op = "startswith" -> FieldsOf(n.arg) \X {odd}
    [] n.op \in {"every", "any"} -> (FieldsOf(n.over) \X {odd}) \cup Uses(n.body, odd)
    [] OTHER -> (FieldsOf(n.left) \cup FieldsOf(n.right)) \X {odd}

\* The worst of a field's uses.
MissingSeverity(f) == IF <<f, TRUE>> \in Uses(node, FALSE) THEN "error" ELSE "warning"

-----------------------------------------------------------------------------

\* A field that no call sets, for its name is misspelt or a usage value is
\* unknown, is reported as an error when some call thereby gets through that
\* would not have, had it been set (analyzer.py: _missing_refs).
FailOpenIsAnError ==
  \A f \in {use[1] : use \in Uses(node, FALSE)} : MissingSeverity(f) # "error" =>
    \A context \in Contexts :
      Eval(node, [context EXCEPT ![f] = None], None) => Eval(node, context, None)

\* Nothing in the constraint is a collection to one engine only: no object is
\* quantified over or looked among, and `not in' looks among a list.
RECURSIVE ReadAlike(_, _, _)
ReadAlike(n, context, elem) ==
  CASE n.op \in {"and", "or"} -> \A i \in DOMAIN n.parts : ReadAlike(n.parts[i], context, elem)
    [] n.op = "not" -> ReadAlike(n.inner, context, elem)
    [] n.op \in {"every", "any"} ->
         LET collection == Operand(n.over, context, elem)
         IN  /\ ~Is("object", collection)
             /\ \A e \in Members(collection) : ReadAlike(n.body, context, e)
    [] n.op = "in" -> ~Is("object", Operand(n.right, context, elem))
    [] n.op = "not in" -> Is("list", Operand(n.right, context, elem))
    [] OTHER -> TRUE

Negated == \E use \in Uses(node, FALSE) : use[2]

\* The evaluator and the compiled conditions decide a constraint alike on every
\* call, fields absent or of the wrong type included, and whatever fails is named
\* among the reasons (rego.py:478-493), but for two things the docs' promise of
\* one decision (constraints.mdx:65, :907) does not hold for: an object, which
\* rego.py:587 iterates and constraints.py:847 takes for no collection, and
\* `not in' over a constant that is no list, true in rego.py:632 and false in
\* constraints.py:910.  There the compiled conditions let more through, never
\* less, as long as nothing is negated.
ConstraintsAgree ==
  \A context \in Contexts :
    LET holds == Eval(node, context, None)
        runs  == Runs(node, context, None)
    IN  /\ ReadAlike(node, context, None) => (runs <=> holds)
        /\ ~Negated => (holds => runs)
        /\ Violated(node, context) <=> ~runs
=============================================================================
