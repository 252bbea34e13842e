-------------------------- MODULE ThreeValuedLogic --------------------------
(***************************************************************************)
(* The part of SQL that a compiled WHERE clause relies on                  *)
(* (adapters/postgres/sql.go hands it to PostgreSQL): a test of a column   *)
(* that is NULL is unknown, and the connectives carry that on.             *)
(***************************************************************************)
EXTENDS Integers

CONSTANT Null   \* what a column holds that holds nothing

Truths   == {"true", "false", "unknown"}
Truth(b) == IF b THEN "true" ELSE "false"

Not3(a) == CASE a = "true" -> "false" [] a = "false" -> "true" [] OTHER -> "unknown"
And3(truths) ==
  IF "false" \in truths THEN "false"
  ELSE IF "unknown" \in truths THEN "unknown" ELSE "true"
Or3(truths) == Not3(And3({Not3(a) : a \in truths}))

Connected(kind, truths) ==
  CASE kind = "not" -> Not3(CHOOSE a \in truths : TRUE)
    [] kind = "and" -> And3(truths)
    [] kind = "or"  -> Or3(truths)

Compared(a, operator, b) ==
  CASE operator = "eq" -> a = b  [] operator = "neq" -> a # b
    [] operator = "lt" -> a < b  [] operator = "lte" -> a <= b
    [] operator = "gt" -> a > b  [] operator = "gte" -> a >= b

(* column IS NULL, column <operator> $n and column IN ($n, ...).           *)
IsNull3(value) == Truth(value = Null)
Compare3(value, operator, argument) ==
  IF value = Null THEN "unknown" ELSE Truth(Compared(value, operator, argument))
In3(value, items) == IF value = Null THEN "unknown" ELSE Truth(value \in items)
=============================================================================
