------------------------------ MODULE JSONExpr ------------------------------
(***************************************************************************)
(* The small JSON expression language of the HTTP, log, exec and           *)
(* Kubernetes conditions: a path into a document, and perhaps a comparison *)
(* of what is there with a literal.  A value carries its kind, since the   *)
(* comparison depends on it: [kind, is], where is is a number, a text, a   *)
(* truth value, a function from names to values or a sequence of values.   *)
(***************************************************************************)
EXTENDS Integers, Sequences

CONSTANTS
    NumberOf,  \* the literals that strconv.ParseFloat reads, each with its number
    NaN,       \* the number of nan, which is not one; an infinity is just a large one
    Spelling   \* how fmt.Sprint spells a number

ASSUME JSONConfig ==
    /\ DOMAIN NumberOf \cap {"true", "false", "null"} = {}
    /\ \A literal \in DOMAIN NumberOf : NumberOf[literal] \in Int \cup {NaN}
    /\ NaN \notin Int

Null == [kind |-> "null", is |-> 0]
Number(n) == [kind |-> "number", is |-> n]
Text(s) == [kind |-> "string", is |-> s]
Truth(b) == [kind |-> "bool", is |-> b]
Object(f) == [kind |-> "object", is |-> f]
Array(s) == [kind |-> "array", is |-> s]
Missing == [kind |-> "missing", is |-> 0]

\* traverseField and traverseIndexes: one step of a path.
Field(name) == [name |-> name, index |-> -1]
Index(i) == [name |-> "", index |-> i]
Traverse(v, part) ==
    CASE v.kind = "object" /\ part.name # "" /\ part.name \in DOMAIN v.is -> v.is[part.name]
      [] v.kind = "array" /\ part.name = "" /\ part.index + 1 \in DOMAIN v.is -> v.is[part.index + 1]
      [] OTHER -> Missing

\* lookupJSONPath
Lookup(doc, path) ==
    LET after[k \in 0..Len(path)] ==
            IF k = 0 THEN doc ELSE Traverse(after[k - 1], path[k])
    IN  after[Len(path)]

\* parseLiteral: quotes make no difference, a quoted numeral is a number.
ParseLiteral(raw) ==
    CASE raw = "true" -> Truth(TRUE)
      [] raw = "false" -> Truth(FALSE)
      [] raw = "null" -> Null
      [] raw \in DOMAIN NumberOf -> Number(NumberOf[raw])
      [] OTHER -> Text(raw)

\* toString. A composite's spelling is the literal of no test of this kind.
ToText(v) ==
    CASE v.kind = "string" -> v.is
      [] v.kind = "number" -> Spelling[v.is]
      [] v.kind = "bool" -> (IF v.is THEN "true" ELSE "false")
      [] OTHER -> "map[]"

Verdict(b) == IF b THEN "yes" ELSE "no"

\* compareBool, compareString and compareNullable know equality only.
CompareEqual(a, b, op) ==
    CASE op = "==" -> Verdict(a = b)
      [] op = "!=" -> Verdict(a # b)
      [] OTHER -> "error"

\* Mutant of CompareNumbers: the bound itself is left out.
CompareNumbersStrict(a, b, op) ==
    IF a = NaN \/ b = NaN THEN Verdict(op = "!=")
    ELSE CASE op \in {">=", ">"} -> Verdict(a > b)
           [] op \in {"<=", "<"} -> Verdict(a < b)
           [] OTHER -> CompareEqual(a, b, op)

\* compareFloat64: NaN is different from every number, and neither smaller nor greater.
CompareNumbers(a, b, op) ==
    IF a = NaN \/ b = NaN THEN Verdict(op = "!=")
    ELSE CASE op = ">=" -> Verdict(a >= b)
           [] op = "<=" -> Verdict(a <= b)
           [] op = ">" -> Verdict(a > b)
           [] op = "<" -> Verdict(a < b)
           [] OTHER -> CompareEqual(a, b, op)

\* compareValues: "yes", "no" or "error". A number or a truth value is unlike a value
\* of another kind, and not different from it either.
CompareValues(found, want, op) ==
    LET strict == found.kind \in {"number", "bool"}
    IN  CASE "null" \in {found.kind, want.kind} -> CompareEqual(found.kind, want.kind, op)
          [] strict /\ want.kind \notin {found.kind, "null"} -> "no"
          [] strict /\ want.kind = found.kind /\ found.kind = "number" -> CompareNumbers(found.is, want.is, op)
          [] strict /\ want.kind = found.kind /\ found.kind = "bool" -> CompareEqual(found.is, want.is, op)
          [] OTHER -> CompareEqual(ToText(found), ToText(want), op)

\* truthy
Truthy(v) ==
    CASE v.kind = "null" -> FALSE
      [] v.kind = "bool" -> v.is
      [] v.kind = "number" -> v.is # 0
      [] v.kind = "string" -> v.is # ""
      [] v.kind = "object" -> DOMAIN v.is # {}
      [] OTHER -> v.is # <<>>

\* Expression.Evaluate of e, a path with an operator and a literal, or with op = "".
Evaluate(doc, e) ==
    LET found == Lookup(doc, e.path)
    IN  CASE found.kind = "missing" -> "no"
          [] found.kind # "missing" /\ e.op = "" -> Verdict(Truthy(found))
          [] OTHER -> CompareValues(found, ParseLiteral(e.want), e.op)
=============================================================================
