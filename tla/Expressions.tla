----------------------------- MODULE Expressions -----------------------------
(***************************************************************************)
(* The rules of DECISION steps and the assertions of VERIFY steps          *)
(* (engine/expressions.py; _context of engine/executor.py).                *)
(*                                                                         *)
(* Values are typed; true and false have the numbers 1 and 0, as in the    *)
(* program, which tells when a list contains a value.  A name of the       *)
(* context may be absent: a step that was not taken has no result.  An     *)
(* error is a value of its own here, and no step takes it for an answer.   *)
(***************************************************************************)
EXTENDS Integers

CONSTANTS
    Name,      \* names a path may begin with
    Op,        \* comparisons
    Literal,   \* values that stand in an expression
    Given      \* values the context may have for a name

VARIABLE
    asked      \* the expression evaluated last, and its context

vars == <<asked>>

Number(n) == [type |-> "number", is |-> n]
Boolean(b) == [type |-> "boolean", is |-> IF b THEN 1 ELSE 0]
List(items) == [type |-> "list", is |-> items]
Null == [type |-> "null", is |-> 0]
Error == [type |-> "error", is |-> 0]
Absent == [type |-> "absent", is |-> 0]

-----------------------------------------------------------------------------
(* What parse returns.                                                     *)

\* An operand that is a path, or a literal.
Operand == [kind: {"path"}, name: Name] \cup [kind: {"lit"}, value: Literal]
Compare ==
    [kind: {"cmp"}, op: Op,
     left: [kind: {"path"}, name: Name], right: Operand]
Unary == Compare \cup [kind: {"path"}, name: Name]
              \cup [kind: {"not"}, of: Compare \cup [kind: {"path"}, name: Name]]
Expression == Unary \cup [kind: {"and", "or"}, left: Unary, right: Compare]
Node == [kind: {"lit"}, value: Literal] \cup Expression

-----------------------------------------------------------------------------
(* Evaluation.                                                             *)

\* A path is read from the context, and what is absent is an error.
Resolve(name, context) == IF context[name].type = "absent" THEN Error ELSE context[name]

\* Equality of the program, in which true is 1; type says what may be compared at all.
SameValue(l, r) ==
    /\ l.type = r.type \/ {l.type, r.type} = {"number", "boolean"}
    /\ l.is = r.is
Contains(list, l) == \E item \in list.is : SameValue(l, item)
Comparable(l, r) == l.type = "null" \/ r.type = "null" \/ l.type = r.type
Same(l, r) == l.type = r.type /\ l.is = r.is

Equal(op, l, r) == IF Comparable(l, r) THEN Boolean((op = "==") = Same(l, r)) ELSE Error

\* Only numbers are ordered here, strings among themselves in the program too.
Order(op, l, r) ==
    IF l.type = "number" /\ r.type = "number"
    THEN Boolean(IF op = "<" THEN l.is < r.is ELSE l.is >= r.is)
    ELSE Error
Member(op, l, r) ==
    IF r.type = "list" THEN Boolean((op = "in") = Contains(r, l)) ELSE Error

Compared(op, l, r) ==
    IF "error" \in {l.type, r.type} THEN Error
    ELSE CASE op \in {"==", "!="} -> Equal(op, l, r)
           [] op \in {"in", "not in"} -> Member(op, l, r)
           [] OTHER -> Order(op, l, r)

AsBoolean(v) == IF v.type = "boolean" THEN v ELSE Error

\* Mutant: what is absent is false.
Lenient(v) == IF v.type = "boolean" THEN v ELSE Boolean(FALSE)

\* The operand of a connective: anything but true or false is an error.
Operated(v) == AsBoolean(v)

\* "and" and "or" look at the right side only when the left one leaves it open.
Eval(e, context) ==
    LET value[n \in Node] ==
            CASE n.kind = "lit" -> n.value
              [] n.kind = "path" -> Resolve(n.name, context)
              [] n.kind = "not" ->
                    LET v == Operated(value[n.of]) IN
                    IF v = Error THEN Error ELSE Boolean(v = Boolean(FALSE))
              [] n.kind \in {"and", "or"} ->
                    LET v == Operated(value[n.left]) IN
                    IF v = Boolean(n.kind = "and") THEN Operated(value[n.right]) ELSE v
              [] OTHER -> Compared(n.op, value[n.left], value[n.right])
    IN  value[e]

Evaluate(e, context) == AsBoolean(Eval(e, context))

Context == [Name -> Given \cup {Absent}]

-----------------------------------------------------------------------------
Answers == {Boolean(TRUE), Boolean(FALSE), Error}
TypeOK == asked \in [expression: Expression, context: Context] \cup {<<>>}

Init == asked = <<>>
Ask ==
    /\ asked = <<>>
    /\ \E e \in Expression, context \in Context :
          asked' = [expression |-> e, context |-> context]
Next == Ask
Spec == Init /\ [][Next]_vars

-----------------------------------------------------------------------------
\* The contexts that tell more than this one.
Completions(context) ==
    {more \in Context : \A n \in Name : context[n] # Absent => more[n] = context[n]}

\* "Callers treat that as cannot continue, never as true": an answer does not rest on what is
\* absent.  A rule that is true, or false, while some results are missing stays so whatever
\* those results would have been; in all other cases it is an error.
RestsOnWhatIsThere ==
    asked # <<>> =>
        LET answer == Evaluate(asked.expression, asked.context) IN
        /\ answer \in Answers
        /\ answer # Error =>
              \A more \in Completions(asked.context) : Evaluate(asked.expression, more) = answer
=============================================================================
