----------------------------- MODULE MCPlatform -----------------------------
(* Instances of the parts of Platform: small ones, in which policies share *)
(* a service and an id, backends a name and an id, and adapters an         *)
(* integration, and a client's tasks depend on tasks to come.              *)
EXTENDS Platform

SomePolicies ==
  LET Policy(id, up, down, min, max, cooldown) ==
        [id |-> id, service |-> "web", up |-> up, down |-> down, min |-> min, max |-> max,
         step |-> 1, enabled |-> TRUE, periods |-> 2, cooldown |-> cooldown]
  IN  {Policy(1, 8, 5, 1, 3, 2), Policy(1, 8, 5, 1, 1, 1), Policy(2, 6, 2, 0, 4, 1)}

SomeBackends ==
  {[obj |-> 1, id |-> "i", name |-> "web"], [obj |-> 2, id |-> "j", name |-> "web"],
   [obj |-> 3, id |-> "i", name |-> "api"]}

Kinds4        == [s |-> "slack", j |-> "jira", n |-> "servicenow", p |-> "slack"]
Integrations4 == [s |-> 1, j |-> 2, n |-> 1, p |-> 2]

LabelledKeys == {[name |-> "x", labels |-> {}], [name |-> "x", labels |-> {"a"}]}

SomeAlerts ==
  {[id |-> i, metric |-> "m", condition |-> c, threshold |-> 1] :
     <<i, c>> \in {<<1, "greater_than">>, <<1, "less_than">>, <<2, "equals">>}}

SomeRules ==
  {[id |-> 1, metric |-> "m", condition |-> ">=", threshold |-> 1, for |-> 1],
   [id |-> 2, metric |-> "m", condition |-> "<=", threshold |-> 2, for |-> 0],
   [id |-> 3, metric |-> "m", condition |-> "==", threshold |-> 2, for |-> 1]}

Rated == {[name |-> "a", rate |-> 50], [name |-> "a", rate |-> 80], [name |-> "b", rate |-> 80]}

LastOfJanuary == [y |-> 2024, m |-> 1, d |-> 31]
BothWays      == {-13, -1, 1, 12}
OutOfRange    == {-5, 120}

SomeBaselines == {<<>>, <<5>>, <<2, 2, 2>>, <<0, 0, 0, 9>>, <<0, 0, 0, 0, 0, 0, 0, 9>>}
SomeTrainings == {<<>>, <<0, 4>>, <<1, 5, 6>>}

ForwardTasks ==
  <<[kind |-> "critique", deps |-> {2}], [kind |-> "planner", deps |-> {7}],
    [kind |-> "oracle", deps |-> {}]>>

SomeTitles == {[title |-> "a", severity |-> 1], [title |-> "a", severity |-> 3]}

SomeQueries ==
  {[name |-> "a", star |-> TRUE, where |-> TRUE], [name |-> "b", star |-> FALSE, where |-> TRUE],
   [name |-> "c", star |-> TRUE, where |-> FALSE]}

TwoOnOneKey(s) == IF s = "s3" THEN "system:c" ELSE "task:1:c"
=============================================================================
