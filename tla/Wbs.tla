-------------------------------- MODULE Wbs --------------------------------
(***************************************************************************)
(* The work breakdown of one project                                       *)
(* (apps/api/src/projects/projects.service.ts) and its roll-up             *)
(* (wbs.logic.ts): every change of a node is followed by calls that read   *)
(* all the nodes, write the percent of the parents and then that of the    *)
(* project.  Percents are in hundredths of a percent, as round2 keeps them.*)
(***************************************************************************)
EXTENDS Handlers, Functions

CONSTANTS
    Nodes,
    Weights,    \* the weights a node may be given
    Reports     \* the percents a leaf may be reported at

VARIABLES
    nodes,      \* the rows of project_nodes: parent, weight, percent
    projectPct

wbsVars == <<nodes, projectPct>>

Complete == 10000

ASSUME WbsAssumption ==
    None \notin Nodes /\ Weights \subseteq Nat /\ Reports \subseteq 0 .. Complete /\ None \notin Reports

WbsInit == nodes = <<>> /\ projectPct = 0

Ids(ns) == DOMAIN ns
Kids(ns, n) == {k \in Ids(ns) : ns[k].parent = n}
Leaf(ns, n) == Kids(ns, n) = {}

\* No node is above itself: where this fails the recursion of rollUp has no end.
Acyclic(ns) ==
    ~\E C \in SUBSET Ids(ns) : C # {} /\ \A n \in C : ns[n].parent \in C

WellFormed(ns) == Acyclic(ns) /\ \A n \in Ids(ns) : ns[n].parent \in Ids(ns) \cup {None}

\* The weighted average of some percents, the plain one when nothing weighs,
\* rounded to the hundredth.
Average(ns, of, pct) ==
    LET weight == SumFunction([n \in of |-> ns[n].weight])
        counts == [n \in of |-> IF weight > 0 THEN ns[n].weight ELSE 1]
        total == SumFunction([n \in of |-> pct[n] * counts[n]])
        by == SumFunction(counts)
    IN (2 * total + by) \div (2 * by)

rollUp(ns) ==
    LET pct[n \in Ids(ns)] ==
            IF Leaf(ns, n) THEN ns[n].pct ELSE Average(ns, Kids(ns, n), pct)
    IN pct

\* Only the nodes without a parent count for the project.
projectPercent(ns, pct) ==
    LET roots == {n \in Ids(ns) : ns[n].parent = None}
    IN IF roots = {} THEN 0 ELSE Average(ns, roots, pct)

-----------------------------------------------------------------------------
(* Nodes are added, changed, deleted and reported on. *)

Recompute == [then |-> "recompute"]

\* addNode: the parent, if any, was there when it was read.  The id is new:
\* no row and no handler still names it.
AddNodeRead(w, n, p, weight) ==
    /\ n \notin Ids(nodes)
    /\ \A m \in Ids(nodes) : nodes[m].parent # n
    /\ \A v \in Workers : In(v, "add") => call[v].saw.node # n
    /\ p \in Ids(nodes) \cup {None}
    /\ Begin(w, "add", [node |-> n, row |-> [parent |-> p, weight |-> weight, pct |-> 0]])
    /\ UNCHANGED wbsVars

AddNodeWrite(w) ==
    /\ In(w, "add")
    /\ nodes' = [n \in Ids(nodes) \cup {call[w].saw.node} |->
                    IF n = call[w].saw.node THEN call[w].saw.row ELSE nodes[n]]
    /\ Step(w, "recompute", Recompute)
    /\ UNCHANGED projectPct

\* updateNode moves a node below any other node but itself.
UpdateNodeRead(w, n, p, weight) ==
    /\ n \in Ids(nodes)
    /\ p \in Ids(nodes) \cup {None}
    /\ p = n => p = nodes[n].parent
    /\ Begin(w, "update", [node |-> n, row |-> [parent |-> p, weight |-> weight, pct |-> 0]])
    /\ UNCHANGED wbsVars

UpdateNodeWrite(w) ==
    /\ In(w, "update")
    /\ LET n == call[w].saw.node
       IN IF n \in Ids(nodes)
            THEN /\ nodes' = [nodes EXCEPT ![n].parent = call[w].saw.row.parent,
                                           ![n].weight = call[w].saw.row.weight]
                 /\ Step(w, "recompute", Recompute)
            ELSE Done(w) /\ UNCHANGED nodes
    /\ UNCHANGED projectPct

\* deleteNode leaves the children of the node where they are.
DeleteNode(w, n) ==
    /\ n \in Ids(nodes)
    /\ nodes' = [m \in Ids(nodes) \ {n} |-> nodes[m]]
    /\ Begin(w, "recompute", Recompute)
    /\ UNCHANGED projectPct

\* updateProgress: a percent, or none (a note only: the one read is written
\* again), and with them perhaps the mark that the node is complete.
ProgressRead(w, n, complete, pct) ==
    /\ n \in Ids(nodes)
    /\ Begin(w, "progress",
             [node |-> n, above |-> nodes[n].parent, complete |-> complete,
              pct |-> CASE complete -> Complete
                        [] ~complete /\ pct = None -> nodes[n].pct
                        [] OTHER -> pct])
    /\ UNCHANGED wbsVars

\* The node; and if it is marked complete, its parent is looked at.
ProgressWrite(w) ==
    /\ In(w, "progress")
    /\ LET saw == call[w].saw
       IN IF saw.node \notin Ids(nodes)
            THEN Done(w) /\ UNCHANGED nodes
            ELSE /\ nodes' = [nodes EXCEPT ![saw.node].pct = saw.pct]
                 /\ IF saw.complete /\ saw.above # None
                      THEN Step(w, "cascade", [above |-> saw.above])
                      ELSE Step(w, "recompute", Recompute)
    /\ UNCHANGED projectPct

\* cascadeComplete: up the tree while all children are complete; a parent that
\* is gone makes the update, and with it the request, fail.
CascadeRead(w) ==
    /\ In(w, "cascade")
    /\ LET p == call[w].saw.above
       IN IF ~Leaf(nodes, p) /\ \A k \in Kids(nodes, p) : nodes[k].pct >= Complete
            THEN Step(w, "completeParent", call[w].saw)
            ELSE Step(w, "recompute", Recompute)
    /\ UNCHANGED wbsVars

CascadeWrite(w) ==
    /\ In(w, "completeParent")
    /\ LET p == call[w].saw.above
       IN IF p \notin Ids(nodes)
            THEN Done(w) /\ UNCHANGED nodes
            ELSE /\ nodes' = [nodes EXCEPT ![p].pct = Complete]
                 /\ IF nodes[p].parent # None
                      THEN Step(w, "cascade", [above |-> nodes[p].parent])
                      ELSE Step(w, "recompute", Recompute)
    /\ UNCHANGED projectPct

-----------------------------------------------------------------------------
(* recomputeProject *)

\* The roll-up of nodes that form a circle throws, after the change was made.
RecomputeRead(w) ==
    /\ In(w, "recompute")
    /\ IF Acyclic(nodes) THEN Step(w, "rolled", [nodes |-> nodes]) ELSE Done(w)
    /\ UNCHANGED wbsVars

\* The parents whose percent changed, in one transaction: it fails when one of
\* them is gone.
RollUpWrite(w) ==
    /\ In(w, "rolled")
    /\ LET ns == call[w].saw.nodes
           pct == rollUp(ns)
           changed == {n \in Ids(ns) : ~Leaf(ns, n) /\ ns[n].pct # pct[n]}
       IN IF changed \subseteq Ids(nodes)
            THEN /\ nodes' = [n \in Ids(nodes) |->
                        IF n \in changed THEN [nodes[n] EXCEPT !.pct = pct[n]] ELSE nodes[n]]
                 /\ Step(w, "project", call[w].saw)
            ELSE Done(w) /\ UNCHANGED nodes
    /\ UNCHANGED projectPct

ProjectWrite(w) ==
    /\ In(w, "project")
    /\ LET ns == call[w].saw.nodes IN projectPct' = projectPercent(ns, rollUp(ns))
    /\ Done(w)
    /\ UNCHANGED nodes

WbsCalls == {"add", "update", "progress", "cascade", "completeParent", "recompute", "rolled", "project"}

WbsStep(w) ==
    \/ \E n \in Nodes, p \in Nodes \cup {None}, weight \in Weights :
           AddNodeRead(w, n, p, weight) \/ UpdateNodeRead(w, n, p, weight)
    \/ \E n \in Nodes :
           DeleteNode(w, n) \/ \E complete \in BOOLEAN, pct \in Reports \cup {None} : ProgressRead(w, n, complete, pct)
    \/ AddNodeWrite(w) \/ UpdateNodeWrite(w) \/ ProgressWrite(w)
    \/ CascadeRead(w) \/ CascadeWrite(w)
    \/ RecomputeRead(w) \/ RollUpWrite(w) \/ ProjectWrite(w)
    \/ call[w].at \in WbsCalls /\ Crash(w) /\ UNCHANGED wbsVars

WbsNext == \E w \in Workers : WbsStep(w)

-----------------------------------------------------------------------------

WbsTypeOK ==
    /\ Ids(nodes) \subseteq Nodes
    /\ \A n \in Ids(nodes) : nodes[n] \in
           [parent : Nodes \cup {None}, weight : Weights, pct : 0 .. Complete]
    /\ projectPct \in 0 .. Complete

\* Whatever overlaps or fails, no node is its own parent.
NodesApart == \A n \in Ids(nodes) : nodes[n].parent # n

\* One request at a time, none of which failed: the stored percents are the
\* roll-up of the leaves, unless the nodes form a circle or a parent is gone.
RolledUp ==
    AtRest /\ WellFormed(nodes) =>
        LET pct == rollUp(nodes)
        IN /\ \A n \in Ids(nodes) : nodes[n].pct = pct[n]
           /\ projectPct = projectPercent(nodes, pct)

\* Rolling up and completing parents never change what was reported of a leaf.
LeavesKept ==
    ~overlapped' => \A n \in Ids(nodes) \cap Ids(nodes') :
        Leaf(nodes, n) /\ nodes'[n].pct # nodes[n].pct => \E w \in Workers : In(w, "progress")

=============================================================================
