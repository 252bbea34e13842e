----------------------- MODULE ThreeValuedLogicProofs -----------------------
(***************************************************************************)
(* Why no null makes a held row deletable, for clauses of any size and     *)
(* depth, over any number of columns.  CandidateQuery evaluates a clause   *)
(* by recursion; here the clauses of a job are a forest whose nodes carry  *)
(* the truth SQL computes from the nodes below and what the condition      *)
(* means once every null has a value.  A node that told something false    *)
(* would have a lowest one under it, and there is none.                    *)
(***************************************************************************)
EXTENDS ThreeValuedLogic, WellFoundedInduction, TLAPS

(* What a truth says of the condition it was computed for: a true one      *)
(* holds, a false one does not, and an unknown one may do either.          *)
Tells(truth, holds) ==
  /\ truth = "true"  => holds
  /\ truth = "false" => ~holds

(* Every group is above its members, and a negation has one.               *)
IsForest(Nodes, height, kind, parts) ==
  /\ height \in [Nodes -> Nat]
  /\ kind \in [Nodes -> {"test", "not", "and", "or"}]
  /\ parts \in [Nodes -> SUBSET Nodes]
  /\ \A n \in Nodes : \A m \in parts[n] : height[m] < height[n]
  /\ \A n \in Nodes : kind[n] = "not" => \E m \in Nodes : parts[n] = {m}

(* What SQL makes of each node for a row.                                  *)
Evaluated(Nodes, kind, parts, truth) ==
  /\ truth \in [Nodes -> Truths]
  /\ \A n \in Nodes : kind[n] # "test" =>
       truth[n] = Connected(kind[n], {truth[m] : m \in parts[n]})

(* What the condition of each node means.                                  *)
Meant(Nodes, kind, parts, holds) ==
  /\ holds \in [Nodes -> BOOLEAN]
  /\ \A n \in Nodes :
       /\ kind[n] = "not" => (holds[n] <=> \A m \in parts[n] : ~holds[m])
       /\ kind[n] = "and" => (holds[n] <=> \A m \in parts[n] : holds[m])
       /\ kind[n] = "or"  => (holds[n] <=> \E m \in parts[n] : holds[m])

(* A test of a column, for a row and for values its nulls may stand for.   *)
IsTest(truth, holds, value, full) ==
  \/ truth = IsNull3(value) /\ (holds <=> value = Null)
  \/ \E operator \in {"eq", "neq", "lt", "lte", "gt", "gte"}, argument \in Int :
       /\ truth = Compare3(value, operator, argument)
       /\ holds <=> Compared(full, operator, argument)
  \/ \E items \in SUBSET Int :
       truth = In3(value, items) /\ (holds <=> full \in items)

-----------------------------------------------------------------------------
(* The connectives: AND is true if all its parts are and false if one is,  *)
(* OR the other way round, and only an unknown has an unknown negation.    *)
LEMMA NotTable ==
  \A a \in Truths : /\ Not3(a) \in Truths
                    /\ Not3(a) = "true" <=> a = "false"
                    /\ Not3(a) = "false" <=> a = "true"
BY DEF Not3, Truths

LEMMA AndTable ==
  ASSUME NEW S \in SUBSET Truths
  PROVE  /\ And3(S) \in Truths
         /\ And3(S) = "true" <=> \A a \in S : a = "true"
         /\ And3(S) = "false" <=> "false" \in S
BY DEF And3, Truths

LEMMA OrTable ==
  ASSUME NEW S \in SUBSET Truths
  PROVE  /\ Or3(S) \in Truths
         /\ Or3(S) = "true" <=> "true" \in S
         /\ Or3(S) = "false" <=> \A a \in S : a = "false"
<1> DEFINE N == {Not3(a) : a \in S}
<1>1. N \in SUBSET Truths BY NotTable
<1>2. And3(N) = "true" <=> \A a \in S : a = "false" BY <1>1, AndTable, NotTable
<1>3. And3(N) = "false" <=> "true" \in S BY <1>1, AndTable, NotTable DEF Truths
<1>4. And3(N) \in Truths BY <1>1, AndTable
<1> HIDE DEF N
<1>5. Or3(S) = Not3(And3(N)) BY DEF Or3, N
<1> QED BY <1>2, <1>3, <1>4, <1>5, NotTable

(* Among the heights of some nodes there is a least.                       *)
LEMMA LowestNode ==
  ASSUME NEW Nodes, NEW height \in [Nodes -> Nat],
         NEW T \in SUBSET Nodes, T # {}
  PROVE  \E n \in T : \A m \in T : ~(height[m] < height[n])
<1> DEFINE H == {height[n] : n \in T}
           R == OpToRel(<, Nat)
<1>1. H \subseteq Nat /\ H # {} OBVIOUS
<1>2. IsWellFoundedOn(R, Nat) BY NatLessThanWellFounded
<1>3. PICK x \in H : \A y \in H : ~(<<y, x>> \in R)
      <2> HIDE DEF H, R
      <2> QED BY <1>1, <1>2, WFMin
<1>4. \A y \in H : ~(y < x) BY <1>1, <1>3 DEF OpToRel
<1> QED BY <1>4
-----------------------------------------------------------------------------
(* A test tells the truth of every value its null may stand for.           *)
LEMMA TestsTell ==
  ASSUME NEW truth, NEW holds \in BOOLEAN, NEW value, NEW full,
         value # Null => full = value, IsTest(truth, holds, value, full)
  PROVE  Tells(truth, holds)
<1>1. CASE truth = IsNull3(value) /\ (holds <=> value = Null)
      BY <1>1 DEF Tells, IsNull3, Truth
<1>2. ASSUME NEW operator, NEW argument,
             truth = Compare3(value, operator, argument),
             holds <=> Compared(full, operator, argument)
      PROVE  Tells(truth, holds)
      BY <1>2 DEF Tells, Compare3, Truth
<1>3. ASSUME NEW items, truth = In3(value, items), holds <=> full \in items
      PROVE  Tells(truth, holds)
      BY <1>3 DEF Tells, In3, Truth
<1> QED BY <1>1, <1>2, <1>3 DEF IsTest

(* A row without nulls leaves nothing unknown.                             *)
LEMMA TestsDecide ==
  ASSUME NEW truth, NEW holds \in BOOLEAN, NEW value, value # Null,
         IsTest(truth, holds, value, value)
  PROVE  truth = Truth(holds)
<1>1. CASE truth = IsNull3(value) /\ (holds <=> value = Null)
      BY <1>1 DEF IsNull3, Truth
<1>2. ASSUME NEW operator, NEW argument,
             truth = Compare3(value, operator, argument),
             holds <=> Compared(value, operator, argument)
      PROVE  truth = Truth(holds)
      BY <1>2 DEF Compare3, Truth
<1>3. ASSUME NEW items, truth = In3(value, items), holds <=> value \in items
      PROVE  truth = Truth(holds)
      BY <1>3 DEF In3, Truth
<1> QED BY <1>1, <1>2, <1>3 DEF IsTest

(* One step up a tree: a connective of nodes that tell the truth does.     *)
LEMMA ConnectiveTells ==
  ASSUME NEW Nodes, NEW height, NEW kind, NEW parts, NEW truth, NEW holds,
         IsForest(Nodes, height, kind, parts),
         Evaluated(Nodes, kind, parts, truth), Meant(Nodes, kind, parts, holds),
         NEW n \in Nodes, kind[n] # "test",
         \A m \in parts[n] : Tells(truth[m], holds[m])
  PROVE  Tells(truth[n], holds[n])
<1> DEFINE S == {truth[m] : m \in parts[n]}
<1>1. parts[n] \subseteq Nodes /\ kind[n] \in {"not", "and", "or"} BY DEF IsForest
<1>2. S \in SUBSET Truths BY <1>1 DEF Evaluated
<1>3. truth[n] = Connected(kind[n], S) BY DEF Evaluated
<1>4. CASE kind[n] = "not"
      <2>1. PICK m \in Nodes : parts[n] = {m} BY <1>4 DEF IsForest
      <2>2. S = {truth[m]} /\ truth[m] \in Truths BY <2>1 DEF Evaluated
      <2>3. truth[n] = Not3(truth[m]) BY <1>3, <1>4, <2>2 DEF Connected
      <2>4. holds[n] <=> ~holds[m] BY <1>4, <2>1 DEF Meant
      <2> QED BY <2>1, <2>2, <2>3, <2>4, NotTable DEF Tells
<1>5. CASE kind[n] = "and"
      <2>1. truth[n] = And3(S) BY <1>3, <1>5 DEF Connected
      <2>2. holds[n] <=> \A m \in parts[n] : holds[m] BY <1>5 DEF Meant
      <2> QED BY <1>2, <2>1, <2>2, AndTable DEF Tells
<1>6. CASE kind[n] = "or"
      <2>1. truth[n] = Or3(S) BY <1>3, <1>6 DEF Connected
      <2>2. holds[n] <=> \E m \in parts[n] : holds[m] BY <1>6 DEF Meant
      <2> QED BY <1>2, <2>1, <2>2, OrTable DEF Tells
<1> QED BY <1>1, <1>4, <1>5, <1>6

(* However deep its groups and negations, a clause never tells a falsehood *)
(* about a row: what it finds true holds, and what it finds false does     *)
(* not, whatever values the row's nulls may stand for (compileCondition).  *)
THEOREM ClausesTell ==
  ASSUME NEW Nodes, NEW height, NEW kind, NEW parts, NEW truth, NEW holds,
         IsForest(Nodes, height, kind, parts),
         Evaluated(Nodes, kind, parts, truth), Meant(Nodes, kind, parts, holds),
         \A n \in Nodes : kind[n] = "test" => Tells(truth[n], holds[n])
  PROVE  \A n \in Nodes : Tells(truth[n], holds[n])
<1> DEFINE T == {n \in Nodes : ~Tells(truth[n], holds[n])}
<1> SUFFICES ASSUME T # {} PROVE FALSE OBVIOUS
<1>1. height \in [Nodes -> Nat] BY DEF IsForest
<1>2. PICK n \in T : \A m \in T : ~(height[m] < height[n]) BY <1>1, LowestNode
<1>3. n \in Nodes /\ kind[n] # "test" OBVIOUS
<1>4. \A m \in parts[n] : m \in Nodes /\ height[m] < height[n] BY <1>3 DEF IsForest
<1>5. \A m \in parts[n] : Tells(truth[m], holds[m]) BY <1>2, <1>4
<1>6. Tells(truth[n], holds[n])
      <2> HIDE DEF T
      <2> QED BY <1>3, <1>5, ConnectiveTells
<1> QED BY <1>6
(* The same one step up for a row without nulls: nothing is unknown.       *)
LEMMA ConnectiveDecides ==
  ASSUME NEW Nodes, NEW height, NEW kind, NEW parts, NEW truth, NEW holds,
         IsForest(Nodes, height, kind, parts),
         Evaluated(Nodes, kind, parts, truth), Meant(Nodes, kind, parts, holds),
         NEW n \in Nodes, kind[n] # "test",
         \A m \in parts[n] : truth[m] # "unknown"
  PROVE  truth[n] # "unknown"
<1> DEFINE S == {truth[m] : m \in parts[n]}
<1>1. parts[n] \subseteq Nodes /\ kind[n] \in {"not", "and", "or"} BY DEF IsForest
<1>2. S \in SUBSET Truths /\ "unknown" \notin S BY <1>1 DEF Evaluated
<1>3. truth[n] = Connected(kind[n], S) BY DEF Evaluated
<1>4. CASE kind[n] = "not"
      <2>1. PICK m \in Nodes : parts[n] = {m} BY <1>4 DEF IsForest
      <2>2. S = {truth[m]} /\ truth[m] \in {"true", "false"}
            BY <1>2, <2>1 DEF Evaluated, Truths
      <2>3. truth[n] = Not3(truth[m]) BY <1>3, <1>4, <2>2 DEF Connected
      <2> QED BY <2>2, <2>3 DEF Not3
<1>5. CASE kind[n] = "and"
      BY <1>2, <1>3, <1>5 DEF Connected, And3
<1>6. CASE kind[n] = "or"
      <2>1. truth[n] = Or3(S) BY <1>3, <1>6 DEF Connected
      <2>2. "true" \in S \/ \A a \in S : a = "false" BY <1>2 DEF Truths
      <2> QED BY <1>2, <2>1, <2>2, OrTable
<1> QED BY <1>1, <1>4, <1>5, <1>6

(* For a row without nulls a clause is true exactly when its condition     *)
(* holds, however deep it is: rows are counted and deleted by what their   *)
(* conditions mean (countStatement, heldCountStatement).                   *)
THEOREM ClausesDecide ==
  ASSUME NEW Nodes, NEW height, NEW kind, NEW parts, NEW truth, NEW holds,
         IsForest(Nodes, height, kind, parts),
         Evaluated(Nodes, kind, parts, truth), Meant(Nodes, kind, parts, holds),
         \A n \in Nodes : kind[n] = "test" => truth[n] = Truth(holds[n])
  PROVE  \A n \in Nodes : truth[n] = Truth(holds[n])
<1> DEFINE T == {n \in Nodes : truth[n] = "unknown"}
<1>1. \A n \in Nodes : kind[n] = "test" =>
        Tells(truth[n], holds[n]) /\ truth[n] # "unknown"
      BY DEF Tells, Truth
<1>2. \A n \in Nodes : Tells(truth[n], holds[n]) BY <1>1, ClausesTell
<1>3. T = {}
      <2> SUFFICES ASSUME T # {} PROVE FALSE OBVIOUS
      <2>1. height \in [Nodes -> Nat] BY DEF IsForest
      <2>2. PICK n \in T : \A m \in T : ~(height[m] < height[n]) BY <2>1, LowestNode
      <2>3. n \in Nodes /\ kind[n] # "test" BY <1>1
      <2>4. \A m \in parts[n] : m \in Nodes /\ height[m] < height[n] BY <2>3 DEF IsForest
      <2>5. \A m \in parts[n] : truth[m] # "unknown" BY <2>2, <2>4
      <2>6. truth[n] # "unknown"
            <3> HIDE DEF T
            <3> QED BY <2>3, <2>5, ConnectiveDecides
      <2> QED BY <2>6
<1>4. \A n \in Nodes : truth[n] \in {"true", "false"} /\ holds[n] \in BOOLEAN
      BY <1>3 DEF Evaluated, Meant, Truths
<1> QED BY <1>2, <1>4 DEF Tells, Truth

-----------------------------------------------------------------------------
(* candidateWhere and heldCountStatement join the clauses of a job: all of *)
(* the eligible ones, and not any, or any, of the holds.                   *)
Candidate(eligible, holds) == And3(eligible \cup {Not3(Or3(holds))})
HeldBack(eligible, holds)  == And3(eligible \cup {Or3(holds)})

(* A candidate is one whose every eligibility is true and every hold       *)
(* false: an unknown hold keeps the row.                                   *)
LEMMA CandidateTable ==
  ASSUME NEW E \in SUBSET Truths, NEW H \in SUBSET Truths
  PROVE  /\ Candidate(E, H) = "true" <=>
              (\A a \in E : a = "true") /\ (\A a \in H : a = "false")
         /\ HeldBack(E, H) = "true" <=>
              (\A a \in E : a = "true") /\ "true" \in H
<1>1. Or3(H) \in Truths /\ Not3(Or3(H)) \in Truths BY OrTable, NotTable
<1>2. /\ E \cup {Not3(Or3(H))} \in SUBSET Truths
      /\ E \cup {Or3(H)} \in SUBSET Truths
      BY <1>1
<1>3. Not3(Or3(H)) = "true" <=> \A a \in H : a = "false" BY <1>1, OrTable, NotTable
<1>4. Candidate(E, H) = "true" <=>
        (\A a \in E : a = "true") /\ Not3(Or3(H)) = "true"
      BY <1>2, AndTable DEF Candidate
<1>5. HeldBack(E, H) = "true" <=> (\A a \in E : a = "true") /\ Or3(H) = "true"
      BY <1>2, AndTable DEF HeldBack
<1> QED BY <1>3, <1>4, <1>5, OrTable

(* No row is counted both as a candidate and as held, nulls or not.        *)
THEOREM NeverCountedTwice ==
  ASSUME NEW E \in SUBSET Truths, NEW H \in SUBSET Truths
  PROVE  ~(Candidate(E, H) = "true" /\ HeldBack(E, H) = "true")
BY CandidateTable

(* The tests of a job's forest, for a row and a completion of it.          *)
Tests(Nodes, kind, column, truth, holds, row, full) ==
  \A n \in Nodes : kind[n] = "test" =>
    IsTest(truth[n], holds[n], row[column[n]], full[column[n]])

(* Hold matches are always excluded locally: a row the DELETE selects      *)
(* meets the retention predicate and the condition and is matched by no    *)
(* hold, for all trees and whatever values its nulls may stand for         *)
(* (deleteBatchStatement).                                                 *)
THEOREM DeletedRowsAreDue ==
  ASSUME NEW Nodes, NEW height, NEW kind, NEW parts, NEW truth, NEW holds,
         IsForest(Nodes, height, kind, parts),
         Evaluated(Nodes, kind, parts, truth), Meant(Nodes, kind, parts, holds),
         NEW column, NEW row, NEW full,
         \A n \in Nodes : row[column[n]] # Null => full[column[n]] = row[column[n]],
         Tests(Nodes, kind, column, truth, holds, row, full),
         NEW eligible \in SUBSET Nodes, NEW held \in SUBSET Nodes,
         Candidate({truth[n] : n \in eligible}, {truth[n] : n \in held}) = "true"
  PROVE  (\A n \in eligible : holds[n]) /\ (\A n \in held : ~holds[n])
<1>1. \A n \in Nodes : kind[n] = "test" => Tells(truth[n], holds[n])
      <2> SUFFICES ASSUME NEW n \in Nodes, kind[n] = "test"
                   PROVE  Tells(truth[n], holds[n])
          OBVIOUS
      <2>1. IsTest(truth[n], holds[n], row[column[n]], full[column[n]]) BY DEF Tests
      <2>2. holds[n] \in BOOLEAN BY DEF Meant
      <2> QED BY <2>1, <2>2, TestsTell
<1>2. \A n \in Nodes : Tells(truth[n], holds[n]) BY <1>1, ClausesTell
<1>3. /\ {truth[n] : n \in eligible} \in SUBSET Truths
      /\ {truth[n] : n \in held} \in SUBSET Truths
      BY DEF Evaluated
<1>4. /\ \A n \in eligible : truth[n] = "true"
      /\ \A n \in held : truth[n] = "false"
      BY <1>3, CandidateTable
<1> QED BY <1>2, <1>4 DEF Tells

(* The counts are exact: without nulls, the candidates are the rows that   *)
(* are due and not held, and the held ones those that are due and held     *)
(* (countStatement, heldCountStatement).                                   *)
THEOREM RowsAreDivided ==
  ASSUME NEW Nodes, NEW height, NEW kind, NEW parts, NEW truth, NEW holds,
         IsForest(Nodes, height, kind, parts),
         Evaluated(Nodes, kind, parts, truth), Meant(Nodes, kind, parts, holds),
         NEW column, NEW row,
         \A n \in Nodes : row[column[n]] # Null,
         Tests(Nodes, kind, column, truth, holds, row, row),
         NEW eligible \in SUBSET Nodes, NEW held \in SUBSET Nodes
  PROVE  LET E == {truth[n] : n \in eligible}
             H == {truth[n] : n \in held}
             due == \A n \in eligible : holds[n]
             kept == \E n \in held : holds[n]
         IN  /\ Candidate(E, H) = "true" <=> due /\ ~kept
             /\ HeldBack(E, H) = "true" <=> due /\ kept
<1> DEFINE E == {truth[n] : n \in eligible}
           H == {truth[n] : n \in held}
<1>1. \A n \in Nodes : kind[n] = "test" => truth[n] = Truth(holds[n])
      <2> SUFFICES ASSUME NEW n \in Nodes, kind[n] = "test"
                   PROVE  truth[n] = Truth(holds[n])
          OBVIOUS
      <2>1. IsTest(truth[n], holds[n], row[column[n]], row[column[n]]) BY DEF Tests
      <2>2. holds[n] \in BOOLEAN BY DEF Meant
      <2> QED BY <2>1, <2>2, TestsDecide
<1>2. \A n \in Nodes : truth[n] = Truth(holds[n]) BY <1>1, ClausesDecide
<1>3. \A n \in Nodes : /\ truth[n] = "true" <=> holds[n]
                       /\ truth[n] = "false" <=> ~holds[n]
      BY <1>2 DEF Truth
<1>4. E \in SUBSET Truths /\ H \in SUBSET Truths BY DEF Evaluated
<1>5. /\ (\A a \in E : a = "true") <=> \A n \in eligible : holds[n]
      /\ (\A a \in H : a = "false") <=> \A n \in held : ~holds[n]
      /\ "true" \in H <=> \E n \in held : holds[n]
      BY <1>3
<1>6. /\ Candidate(E, H) = "true" <=>
           (\A a \in E : a = "true") /\ (\A a \in H : a = "false")
      /\ HeldBack(E, H) = "true" <=> (\A a \in E : a = "true") /\ "true" \in H
      <2> HIDE DEF E, H
      <2> QED BY <1>4, CandidateTable
<1> HIDE DEF E, H
<1>7. /\ Candidate(E, H) = "true" <=>
           (\A n \in eligible : holds[n]) /\ ~(\E n \in held : holds[n])
      /\ HeldBack(E, H) = "true" <=>
           (\A n \in eligible : holds[n]) /\ \E n \in held : holds[n]
      BY <1>5, <1>6
<1> QED BY <1>7 DEF E, H
=============================================================================
