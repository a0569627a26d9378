----------------------------- MODULE MCPlatform -----------------------------
(* Platform for TLC. *)
EXTENDS Platform, TLC

CONSTANTS c1, w1, w2, w3, u1, u2, b1, b2, l1, l2, x1, x2, i1, i2, n1, n2, n3

\* Bounds: a behaviour with overlapping requests has no failure and, for the
\* larger parts, fewer rows (one alert, one node, one card); at most one board
\* is restricted, two records come of deals, and people turn off push only.
Bounded ==
    /\ \A s \in Outcomes : delivered[TheChain][s] <= 1
    /\ overlapped => failures = 0
    /\ \A i \in DOMAIN alerts : alerts[i].sent <= 1
    /\ overlapped => Len(alerts) < 2
    /\ due # "later" \/ remitted => \A i \in DOMAIN alerts : alerts[i].rule \in CalendarRules
    /\ overlapped \/ failures > 0 => Cardinality(DOMAIN nodes) < 2
    /\ \/ Cardinality(DOMAIN nodes) < 3
       \/ WellFormed(nodes) /\ \A n \in DOMAIN nodes : nodes[n].weight = 1
    /\ records["ORDER"] + records["CONTRACT"] <= 2 /\ deals <= 2
    /\ overlapped \/ failures > 0 => Cardinality(DOMAIN home) < 2
    /\ LET restricted == {b \in DOMAIN boards : boards[b].visibility # "TEAM" \/ boards[b].members # {}}
       IN /\ overlapped \/ failures > 0 => restricted = {}
          /\ Cardinality(restricted) <= 1 /\ \A b \in restricted : Cardinality(boards[b].members) <= 1
    /\ \A u \in People : off[u] \subseteq {"PUSH"}
    /\ overlapped => off[u2] = {}

\* x1 and x2 name the cards and the cells alike.
Interchangeable == Permutations(Workers) \cup Permutations(BoardIds) \cup Permutations(ListIds)
    \cup Permutations(CardIds) \cup Permutations(Nodes)

=============================================================================
