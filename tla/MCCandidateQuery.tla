--------------------------- MODULE MCCandidateQuery ---------------------------
(* An instance of CandidateQuery for TLC. *)
EXTENDS CandidateQuery

Predicate(column, operator, value) == Condition(column, operator, value, <<>>, <<>>, <<>>)
AllOf(children) == Condition(NoColumn, NoOperator, None, children, <<>>, <<>>)
AnyOf(children) == Condition(NoColumn, NoOperator, None, <<>>, children, <<>>)
Negation(child) == Condition(NoColumn, NoOperator, None, <<>>, <<>>, <<child>>)

(* One leaf per shape of predicate; the last names an unlisted column. *)
Leaves ==
  { Predicate("tag", "eq", Scalar(1)), Predicate("tag", "neq", Scalar(2)),
    Predicate("tag", "in", List(<<0, 2>>)), Predicate("tag", "notIn", List(<<1>>)),
    Predicate("tag", "isNull", None), Predicate("tag", "isNotNull", None),
    Predicate("at", "beforeCutoff", None), Predicate("at", "afterCutoff", None),
    Predicate("at", "gte", Scalar(0)), Predicate("tag", "lte", Scalar(1)),
    Predicate("at", "lt", Scalar(1)), Predicate("tag", "gt", Scalar(0)),
    Predicate("owner", "eq", Scalar(1)) }

(* What strict decoding lets through and validation must not. *)
Malformed ==
  { Predicate("tag", "eq", List(<<1>>)), Predicate("tag", "in", Scalar(1)),
    Predicate("tag", "in", List(<<>>)), Predicate("tag", "in", List(<<0, 1, 2, 0>>)),
    Predicate("tag", "isNull", Scalar(1)), Predicate("tag", "eq", None),
    Predicate("tag", "eq", Scalar(Unsupported)), Predicate("tag", "like", Scalar(1)),
    Predicate("no column", "eq", Scalar(1)), Predicate(NoColumn, "eq", Scalar(1)),
    AllOf(<<>>),
    Condition("tag", "eq", Scalar(1), <<>>, <<>>, <<Predicate("tag", "isNull", None)>>),
    Condition(NoColumn, NoOperator, None, <<Predicate("tag", "isNull", None)>>,
              <<Predicate("at", "afterCutoff", None)>>, <<>>),
    AllOf(<<Predicate("tag", "eq", Scalar(1)), Predicate("tag", "eq", Scalar(1)),
          Predicate("tag", "eq", Scalar(1)), Predicate("tag", "eq", Scalar(1))>>) }

Pairs  == {<<a, b>> : a \in Leaves, b \in Leaves}
Groups == {AllOf(pair) : pair \in Pairs} \cup {AnyOf(pair) : pair \in Pairs}
Negations == {Negation(c) : c \in Leaves \cup Groups}

(* Trees at the depth allowed, and one below it. *)
Deep == {AnyOf(<<Negation(a), Predicate("tag", "eq", Scalar(1))>>) : a \in Leaves}
     \cup {Negation(Negation(Negation(a))) : a \in Leaves}

Trees == Leaves \cup Groups \cup Negations \cup Deep

Job(type, condition, holds) ==
  [type |-> type, column |-> "at", condition |-> condition, holds |-> holds]

(* Every tree as the condition and as a hold beside simple others, and     *)
(* every pair of leaves as two holds after a condition with arguments.     *)
MCJobs ==
       {Job("before", <<c>>, <<h>>) : c \in Trees \cup Malformed, h \in {Predicate("tag", "eq", Scalar(2))}}
  \cup {Job("onOrBefore", c, <<h>>) : c \in {<<>>, <<Predicate("tag", "in", List(<<0, 1>>))>>},
                                      h \in Trees \cup Malformed}
  \cup {Job("before", <<Predicate("tag", "notIn", List(<<0, 2>>))>>, pair) : pair \in Pairs}
  \cup {Job("before", <<a>>, <<>>) : a \in Leaves}
  \cup {Job("before", <<AnyOf(<<a, a>>)>>, <<b, AllOf(<<a, b>>)>>) : a \in Leaves, b \in Leaves}
=============================================================================
