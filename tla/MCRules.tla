------------------------------ MODULE MCRules ------------------------------
(* Rules on small graphs, each with rules that can get in each other's way. *)
EXTENDS Rules

Rule(e, s, d, f, k) == [edge |-> e, src |-> s, dst |-> d, field |-> f, k |-> k, min |-> 1, via |-> NoVia]
Over(r, label, edge, out) == [r EXCEPT !.via = [label |-> label, edge |-> edge, out |-> out]]
Holds(a, b) == [x \in Fields |-> IF x = "f" THEN a ELSE b]
Case(labels, values, rules, edges, budget) ==
    [labels |-> labels, values |-> values, rules |-> rules, user |-> edges, budget |-> budget]

N == {}
T1 == {1}
T2 == {2}
T12 == {1, 2}

\* A top-1 rule and a plain one derive the same edge type; a user writes one of them.
Shared ==
    {Case(<<"S", "D", "D">>, <<Holds({T1, T12}, {T1}), Holds({N, T1, T12}, {N, T1}), Holds({N, T1, T12}, {N, T1})>>,
          r, {<<1, 1, 2>>}, 9) :
       r \in {<<Rule(1, "S", "D", "f", 1), Rule(1, "S", "D", "g", 0)>>,
              <<Rule(1, "S", "D", "g", 0), Rule(1, "S", "D", "f", 1)>>}}

\* Rules from a label to itself, one with a budget of two edges.
Budget ==
    {Case(<<"S", "S", "S">>, [n \in 1 .. 3 |-> Holds({N, T1}, {N, T1})],
          <<Rule(1, "S", "S", "f", 0), Rule(1, "S", "S", "g", 1)>>, {<<1, 1, 2>>}, 2)}

\* A rule's edges are the hops of another, which shares an edge type with a third.
Chained ==
    {Case(<<"S", "V", "D", "D">>,
          <<Holds({T1, T12}, {N}), Holds({N, T2}, {T1}), Holds({N, T2}, {N, T1}), Holds({T1}, {N, T1})>>,
          <<Rule(1, "S", "V", "f", 0), Over(Rule(2, "S", "D", "g", 0), "V", 1, TRUE),
            Rule(2, "S", "D", "f", 0)>>, {}, 9)}

\* A top-1 rule over hops into its source, next to a plain rule; users write the hops.
Inward ==
    {Case(<<"S", "V", "D", "D">>,
          <<Holds({T1}, {N}), Holds({T1}, {T1, T12}), Holds({N, T1}, {N, T12}), Holds({N}, {N, T1})>>,
          <<Over(Rule(2, "S", "D", "g", 1), "V", 1, FALSE), Rule(2, "S", "D", "f", 0)>>,
          {<<1, 2, 1>>}, 9)}

\* A plain rule over hops from a label to itself, with a budget of one edge.
Hopping ==
    {Case(<<"S", "S", "S">>, [n \in 1 .. 3 |-> Holds({N, T1}, {N})],
          <<Over(Rule(2, "S", "S", "f", 0), "S", 1, TRUE)>>, {<<1, 1, 2>>, <<1, 2, 3>>}, b) : b \in {1, 9}}

\* Rules that would hop over each other's edges.
Cycle ==
    {Case(<<"S", "S">>, [n \in 1 .. 2 |-> Holds({N, T1}, {N})],
          <<Over(Rule(2, "S", "S", "f", 0), "S", 1, TRUE), Over(Rule(1, "S", "S", "f", 0), "S", 2, TRUE)>>,
          {<<1, 1, 2>>, <<1, 2, 1>>}, 9)}

\* A chain longer than the limit.
Long ==
    {Case(<<"S", "V", "V">>, <<Holds({N}, {N}), Holds({T1}, {N}), Holds({N, T1}, {N})>>,
          [i \in 1 .. 6 |-> Over(Rule(i + 1, "S", "V", "f", 0), "V", i, TRUE)], {<<1, 1, 2>>}, 9)}

MCCases == Shared \cup Budget \cup Chained \cup Inward \cup Hopping \cup Cycle \cup Long
=============================================================================
