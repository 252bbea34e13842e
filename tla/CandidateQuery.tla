--------------------------- MODULE CandidateQuery ---------------------------
(***************************************************************************)
(* Which rows a job may touch: the condition trees of a job are validated  *)
(* (protocol/v1/job.go), their columns compared with the allow-list        *)
(* (internal/policy/policy.go), and compiled to WHERE clauses with         *)
(* numbered placeholders (adapters/postgres/sql.go), which PostgreSQL      *)
(* evaluates in three-valued logic.  DeleteExecution takes a row to be a   *)
(* candidate, held or outside; this module says which of them it is.       *)
(*                                                                         *)
(* A clause is a tree: the code puts every operand in parentheses, so its  *)
(* text can be read in one way only.  Column values are numbers or Null.   *)
(***************************************************************************)
EXTENDS Integers, Sequences, FiniteSets, SequencesExt, ThreeValuedLogic

CONSTANTS
  Jobs,         \* the jobs a control plane may send
  Columns,      \* the plain identifiers, all of them columns of the table
  Listed,       \* the columns the table's rule lists
  Values,       \* what a column may hold, besides Null
  Cutoff,       \* the retention predicate's value
  MaxNodes,     \* the budget of a job's conditions (500 in the code)
  MaxDepth,     \* their depth (16)
  MaxMembers    \* the members of a group and of a list (100)

ASSUME QueryAssumption ==
  /\ Listed \subseteq Columns /\ Values \subseteq Nat /\ Null \notin Values
  /\ Cutoff \in Nat /\ MaxNodes \in Nat /\ MaxDepth \in Nat /\ MaxMembers \in Nat

VARIABLES job, phase, statement

vars == <<job, phase, statement>>

None == <<>>
Nowhere == [none |-> TRUE]

(* A condition as it is decoded: a column, an operator and a value, the    *)
(* members of "all" and of "any", and what "not" negates, each perhaps     *)
(* absent.  A value is a scalar or a sequence of literals; an Unsupported  *)
(* literal is a null, a float, an integer out of range or a nested list.   *)
Condition(column, operator, value, all, any, not) ==
  [column |-> column, operator |-> operator, value |-> value,
   all |-> all, any |-> any, not |-> not]
NoColumn    == ""
NoOperator  == ""
Scalar(v)   == [kind |-> "scalar", items |-> <<v>>]
List(items) == [kind |-> "sequence", items |-> items]
Unsupported == -1

Valueless   == {"isNull", "isNotNull", "beforeCutoff", "afterCutoff"}
Membership  == {"in", "notIn"}
Comparisons == {"eq", "neq", "lt", "lte", "gt", "gte"}

-----------------------------------------------------------------------------
(* DecodeConditionValue: every literal is a string, boolean or integer.    *)
Decodable(value) == Unsupported \notin Range(value.items)

HasPredicate(c) == c.column # NoColumn \/ c.operator # NoOperator \/ c.value # None

validatePredicate(c) ==
  /\ c.column \in Columns
  /\ c.operator \in Valueless \cup Membership \cup Comparisons
  /\ c.operator \in Valueless <=> c.value = None
  /\ c.value # None =>
       /\ Decodable(c.value)
       /\ c.operator \in Membership =>
            c.value.kind = "sequence" /\ Len(c.value.items) \in 1..MaxMembers
       /\ c.operator \in Comparisons => c.value.kind = "scalar"

Forms(c) ==
  Cardinality({form \in {"predicate", "all", "any", "not"} :
                 \/ form = "predicate" /\ HasPredicate(c)
                 \/ form = "all" /\ c.all # <<>>
                 \/ form = "any" /\ c.any # <<>>
                 \/ form = "not" /\ c.not # <<>>})

Members(c) == IF c.any # <<>> THEN c.any ELSE c.all

Rejected == -1

(* Condition.validate: the budget after this tree, or Rejected.  One       *)
(* budget is threaded through every tree of the job.                       *)
RECURSIVE validate(_, _, _)
validate(c, budget, depth) ==
  IF \/ budget + 1 > MaxNodes \/ depth > MaxDepth \/ Forms(c) # 1
     \/ HasPredicate(c) /\ ~validatePredicate(c)
     \/ ~HasPredicate(c) /\ Len(Members(c)) > MaxMembers
  THEN Rejected
  ELSE FoldLeft(LAMBDA b, child : IF b = Rejected THEN b ELSE validate(child, b, depth + 1),
                budget + 1, Members(c) \o c.not)

(* Mutant of validateAll: every tree has a budget of its own.              *)
validateEach(trees) ==
  IF \E i \in DOMAIN trees : validate(trees[i], 0, 0) = Rejected THEN Rejected ELSE 0

validateAll(trees) ==
  FoldLeft(LAMBDA b, c : IF b = Rejected THEN b ELSE validate(c, b, 0), 0, trees)

(* validateOperands: the condition, if there is one, and at least one hold.*)
validateOperands(j) ==
  j.holds # <<>> /\ validateAll(j.condition \o j.holds) # Rejected

-----------------------------------------------------------------------------
(* Mutant of conditionColumns: negated conditions are not visited.         *)
RECURSIVE columnsOfGroups(_)
columnsOfGroups(c) ==
  (IF c.column # NoColumn THEN {c.column} ELSE {})
  \cup UNION {columnsOfGroups(child) : child \in Range(c.all \o c.any)}

(* policy.go, conditionColumns: every column a tree names.                 *)
RECURSIVE conditionColumns(_)
conditionColumns(c) ==
  (IF c.column # NoColumn THEN {c.column} ELSE {})
  \cup UNION {conditionColumns(child) : child \in Range(c.all \o c.any \o c.not)}

Authorized(j) ==
  /\ j.column \in Listed
  /\ \A c \in Range(j.condition \o j.holds) : conditionColumns(c) \subseteq Listed

-----------------------------------------------------------------------------
(* A clause with the arguments its placeholders number.                    *)
Clause(sql, arguments) == [sql |-> sql, arguments |-> arguments]

Compare(column, operator, at) ==
  [kind |-> "compare", column |-> column, operator |-> operator, at |-> at]
IsNull(column)      == [kind |-> "null", column |-> column]
In(column, at)      == [kind |-> "in", column |-> column, at |-> at]
Not(part)           == [kind |-> "not", parts |-> <<part>>]
Join(joiner, parts) == [kind |-> joiner, parts |-> parts]

compilePredicate(c, arguments) ==
  CASE c.operator = "isNull"       -> Clause(IsNull(c.column), arguments)
    [] c.operator = "isNotNull"    -> Clause(Not(IsNull(c.column)), arguments)
    [] c.operator = "beforeCutoff" -> Clause(Compare(c.column, "lt", 1), arguments)
    [] c.operator = "afterCutoff"  -> Clause(Compare(c.column, "gte", 1), arguments)
    [] c.value.kind = "sequence" ->
         LET list == In(c.column, [i \in DOMAIN c.value.items |-> Len(arguments) + i])
         IN  Clause(IF c.operator = "notIn" THEN Not(list) ELSE list,
                    arguments \o c.value.items)
    [] OTHER ->
         Clause(Compare(c.column, c.operator, Len(arguments) + 1), arguments \o c.value.items)

(* compileCondition, and the clauses of several trees over one list of     *)
(* arguments (compileConditions).                                          *)
RECURSIVE compileCondition(_, _)
compileCondition(c, arguments) ==
  LET Extend(acc, child) ==
        LET next == compileCondition(child, acc.arguments)
        IN  [parts |-> Append(acc.parts, next.sql), arguments |-> next.arguments]
      members == FoldLeft(Extend, [parts |-> <<>>, arguments |-> arguments], Members(c) \o c.not)
  IN IF c.column # NoColumn THEN compilePredicate(c, arguments)
     ELSE Clause(IF c.not # <<>> THEN Not(members.parts[1])
                 ELSE Join(IF c.any # <<>> THEN "or" ELSE "and", members.parts),
                 members.arguments)

compileConditions(trees, arguments) ==
  FoldLeft(LAMBDA acc, c :
             LET next == compileCondition(c, acc.arguments)
             IN  [parts |-> Append(acc.parts, next.sql), arguments |-> next.arguments],
           [parts |-> <<>>, arguments |-> arguments], trees)

(* eligibilityWhere: the retention predicate, whose value is $1, and the   *)
(* condition.                                                              *)
eligibilityWhere(j) ==
  LET condition == compileConditions(j.condition, <<Cutoff>>)
      operator  == IF j.type = "onOrBefore" THEN "lte" ELSE "lt"
  IN  [parts |-> <<Compare(j.column, operator, 1)>> \o condition.parts,
       arguments |-> condition.arguments]

(* Mutant of candidateWhere: "(hold) IS NOT TRUE", which a null passes.    *)
candidateWhereCertain(j) ==
  LET eligible == eligibilityWhere(j)
      holds    == compileConditions(j.holds, eligible.arguments)
      Certain(part) == Not([kind |-> "true", parts |-> <<part>>])
  IN  Clause(Join("and", eligible.parts \o [i \in DOMAIN holds.parts |-> Certain(holds.parts[i])]),
             holds.arguments)

(* Mutant of candidateWhere: a row is kept only if every hold matches it.  *)
candidateWhereEvery(j) ==
  LET eligible == eligibilityWhere(j)
      holds    == compileConditions(j.holds, eligible.arguments)
  IN  Clause(Join("and", Append(eligible.parts, Not(Join("and", holds.parts)))), holds.arguments)

(* candidateWhere: eligible, and not held by any.  A job has a hold.       *)
candidateWhere(j) ==
  LET eligible == eligibilityWhere(j)
      holds    == compileConditions(j.holds, eligible.arguments)
  IN  Clause(Join("and", Append(eligible.parts, Not(Join("or", holds.parts)))), holds.arguments)

(* heldCountStatement: eligible, and held by some.                         *)
heldWhere(j) ==
  LET eligible == eligibilityWhere(j)
      holds    == compileConditions(j.holds, eligible.arguments)
  IN  Clause(Join("and", Append(eligible.parts, Join("or", holds.parts))), holds.arguments)

(* deleteBatchStatement: the same rows twice, and a limit in the next      *)
(* placeholder, to which Delete appends the batch's size.                  *)
deleteStatement(j) ==
  LET where == candidateWhere(j)
  IN  [where |-> where, limit |-> Len(where.arguments) + 1]

-----------------------------------------------------------------------------
Init == job \in Jobs /\ phase = "received" /\ statement = Nowhere

Validate ==
  /\ phase = "received"
  /\ phase' = IF validateOperands(job) THEN "valid" ELSE "invalid"
  /\ UNCHANGED <<job, statement>>

Authorize ==
  /\ phase = "valid"
  /\ phase' = IF Authorized(job) THEN "authorized" ELSE "denied"
  /\ UNCHANGED <<job, statement>>

(* Count: the candidates, and those a hold keeps from being one.           *)
Count ==
  /\ phase = "authorized"
  /\ phase' = "counted"
  /\ statement' = [candidates |-> candidateWhere(job), held |-> heldWhere(job)]
  /\ UNCHANGED job

Delete ==
  /\ phase = "counted"
  /\ phase' = "deleting"
  /\ statement' = deleteStatement(job)
  /\ UNCHANGED job

Finished == phase \in {"invalid", "denied", "deleting"} /\ UNCHANGED vars

Next == Validate \/ Authorize \/ Count \/ Delete \/ Finished

Spec == Init /\ [][Next]_vars

-----------------------------------------------------------------------------
(* PostgreSQL's evaluation of a clause for a row: true, false or unknown.  *)
RECURSIVE Evaluate(_, _, _)
Evaluate(sql, arguments, row) ==
  LET parts == {Evaluate(sql.parts[i], arguments, row) : i \in DOMAIN sql.parts}
  IN CASE sql.kind = "null" -> IsNull3(row[sql.column])
       [] sql.kind = "compare" ->
            Compare3(row[sql.column], sql.operator, arguments[sql.at])
       [] sql.kind = "in" ->
            In3(row[sql.column], {arguments[sql.at[i]] : i \in DOMAIN sql.at})
       [] sql.kind = "true" -> Truth(parts = {"true"})
       [] OTHER -> Connected(sql.kind, parts)

Rows == [Columns -> Values \cup {Null}]
Selected(where) == {row \in Rows : Evaluate(where.sql, where.arguments, row) = "true"}

-----------------------------------------------------------------------------
(* What the conditions mean, said without SQL: a condition holds of a row  *)
(* whose unknown values happen to be those of "full", or it does not.      *)
RECURSIVE Matches(_, _, _)
Matches(c, row, full) ==
  CASE c.all # <<>> -> \A child \in Range(c.all) : Matches(child, row, full)
    [] c.any # <<>> -> \E child \in Range(c.any) : Matches(child, row, full)
    [] c.not # <<>> -> ~Matches(c.not[1], row, full)
    [] c.operator = "isNull"       -> row[c.column] = Null
    [] c.operator = "isNotNull"    -> row[c.column] # Null
    [] c.operator = "beforeCutoff" -> full[c.column] < Cutoff
    [] c.operator = "afterCutoff"  -> full[c.column] >= Cutoff
    [] c.operator = "in"    -> full[c.column] \in Range(c.value.items)
    [] c.operator = "notIn" -> full[c.column] \notin Range(c.value.items)
    [] OTHER -> Compared(full[c.column], c.operator, c.value.items[1])

(* What a row's nulls may stand for.                                       *)
Completions(row) ==
  {full \in [Columns -> Values] : \A k \in Columns : row[k] # Null => full[k] = row[k]}

Due(j, row, full) ==
  /\ full[j.column] < Cutoff \/ (j.type = "onOrBefore" /\ full[j.column] = Cutoff)
  /\ \A c \in Range(j.condition) : Matches(c, row, full)

Held(j, row, full) == \E c \in Range(j.holds) : Matches(c, row, full)

RECURSIVE Nodes(_), Depth(_)
Nodes(c) == FoldLeft(LAMBDA n, child : n + Nodes(child), 1, c.all \o c.any \o c.not)
Depth(c) ==
  LET children == Range(c.all \o c.any \o c.not)
  IN  IF children = {} THEN 0
      ELSE 1 + (CHOOSE d \in {Depth(child) : child \in children} :
                  \A child \in children : Depth(child) <= d)

RECURSIVE ColumnsOf(_)
ColumnsOf(sql) ==
  IF sql.kind \in {"compare", "in", "null"} THEN {sql.column}
  ELSE UNION {ColumnsOf(part) : part \in Range(sql.parts)}

(* "Hold matches are always excluded locally" (docs/protocol.md): a row    *)
(* the DELETE selects is past its retention, meets the condition and is    *)
(* matched by no hold, whatever values its nulls may stand for.            *)
DeletesOnlyDueRows ==
  phase = "deleting" =>
    \A row \in Selected(statement.where) : \A full \in Completions(row) :
      Due(job, row, full) /\ ~Held(job, row, full)

(* For rows without nulls the statements of a count (countStatement,       *)
(* heldCountStatement) divide the rows that are due exactly into those a   *)
(* hold matches and the others, and the DELETE selects what was counted;   *)
(* no row is counted twice, nulls or not.                                  *)
CountsAreExact ==
  phase = "counted" =>
    LET candidates == Selected(statement.candidates)
        held       == Selected(statement.held)
    IN  /\ candidates \cap held = {}
        /\ Selected(deleteStatement(job).where) = candidates
        /\ \A row \in [Columns -> Values] :
             /\ row \in candidates <=> Due(job, row, row) /\ ~Held(job, row, row)
             /\ row \in held <=> Due(job, row, row) /\ Held(job, row, row)

(* Every column a DELETE names, at any depth of its trees, is one that the *)
(* table's rule lists (Authorize), and its limit's placeholder is that of  *)
(* the batch size Delete appends.                                          *)
OnlyListedColumns ==
  phase = "deleting" =>
    /\ ColumnsOf(statement.where.sql) \subseteq Listed
    /\ Append(statement.where.arguments, "size")[statement.limit] = "size"

(* What validation accepts is bounded: the condition and the holds of a    *)
(* job together keep to one budget of nodes, and each to the depth.        *)
AcceptedWithinBudget ==
  phase \notin {"received", "invalid"} =>
    LET trees == job.condition \o job.holds
    IN  /\ job.holds # <<>>
        /\ FoldLeft(LAMBDA n, c : n + Nodes(c), 0, trees) <= MaxNodes
        /\ \A c \in Range(trees) : Depth(c) <= MaxDepth
=============================================================================
