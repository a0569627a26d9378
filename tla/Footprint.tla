------------------------------ MODULE Footprint ------------------------------
(***************************************************************************)
(* The vocabulary in which the modules above this one say what a method of *)
(* the server touches, what an endpoint of a client stands for and what a  *)
(* component of a client reads and offers.                                 *)
(*                                                                         *)
(* A footprint has the tables a method reads, in no order, and the steps   *)
(* in which it writes, in the order of the code; a step has several tables *)
(* where they commit together.  It is what the method touches when every   *)
(* condition lets it: a guard in it may leave any of the writes out, and   *)
(* an error between two of them leaves out the rest.  The rows of the      *)
(* audit log and of the notifications are left out.                        *)
(***************************************************************************)
EXTENDS Sequences, TLC

Nothing == [reads |-> {}, writes |-> <<>>]
Reads(tables) == [reads |-> tables, writes |-> <<>>]
Writes(tables) == [reads |-> {}, writes |-> [i \in DOMAIN tables |-> {tables[i]}]]

(* One method's calls, one after the other. *)
f ++ g == [reads |-> f.reads \cup g.reads, writes |-> f.writes \o g.writes]

(* The writes of a transaction are seen at its commit, or not at all. *)
Atomically(f) ==
    [f EXCEPT !.writes = <<UNION {f.writes[i] : i \in DOMAIN f.writes}>>]

-----------------------------------------------------------------------------
(* Roles, and the groups of them that the decorators and the pages name. *)
Role == {"SITE_CLERK", "SITE_MANAGER", "OPS_STAFF", "FINANCE_OFFICER", "FINANCE_DIRECTOR",
         "OPS_DIRECTOR", "DIRECTOR", "SYS_ADMIN", "AUDITOR"}
Anyone == Role
SiteStaff == {"SITE_CLERK", "SITE_MANAGER", "OPS_STAFF"}
SiteLeads == {"SITE_MANAGER", "FINANCE_DIRECTOR", "OPS_DIRECTOR", "DIRECTOR", "SYS_ADMIN"}
Operations == SiteLeads \cup {"OPS_STAFF"}
FinanceTeam == {"FINANCE_OFFICER", "FINANCE_DIRECTOR", "SYS_ADMIN"}
Leadership == FinanceTeam \cup {"OPS_DIRECTOR", "DIRECTOR"}

(* A route: the roles its decorator names and what its handler touches. *)
Route(roles, f) == [roles |-> roles, reads |-> f.reads, writes |-> f.writes]

(* A controller: its path and the routes under it. *)
At(path, routes) == [r \in DOMAIN routes |-> routes[r] @@ [path |-> path]]

(* An endpoint of a client: its route, and the tags it provides or invalidates. *)
Query(route, tags) == [kind |-> "query", tags |-> tags, route |-> route]
Mutation(route, tags) == [kind |-> "mutation", tags |-> tags, route |-> route]

(* The guard of every route.  A route with no decorator lets everyone in; an auditor    *)
(* passes a decorator only to read.  (The site a role is held for is not in the model.) *)
Admits(endpoint, role) ==
    \/ endpoint.route.roles = Anyone
    \/ role \in endpoint.route.roles /\ ~(role = "AUDITOR" /\ endpoint.kind = "mutation")

-----------------------------------------------------------------------------
(* What a component does with endpoints: which, for whom, and the queries it runs again *)
(* by hand when the call has succeeded.                                                 *)
Uses(names, roles) == {[does |-> n, roles |-> roles, again |-> {}] : n \in names}
Only(roles, uses) == {[u EXCEPT !.roles = @ \cap roles] : u \in uses}
Redo(uses, queries) == {[u EXCEPT !.again = @ \cup queries] : u \in uses}

(* A page: the roles its route lets in, and what its components do. *)
Page(roles, uses) == [roles |-> roles, uses |-> uses]
=============================================================================
