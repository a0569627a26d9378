------------------------------ MODULE Requests ------------------------------
(***************************************************************************)
(* How the API serves requests: a worker runs one handler at a time, cut   *)
(* at its database calls, each of which is a transaction of its own        *)
(* (apps/api/src/prisma/prisma.service.ts); what the handler read earlier  *)
(* is kept in call[w].  A worker also runs the callbacks the approval      *)
(* engine makes, so its outcomes (ApprovalOutcomes) are part of this.      *)
(***************************************************************************)
EXTENDS ApprovalOutcomes

CONSTANT MaxFailures    \* bound: how often workers stop between two calls

VARIABLES
    call,       \* where each worker is in its handler, and what it read
    failures    \* history: how often a worker stopped between two calls

ASSUME RequestsAssumption ==
    /\ None \notin Chains /\ None \notin Outcomes
    /\ MaxFailures \in Nat /\ Overlap \in BOOLEAN

NoCall == [at |-> "none", saw |-> None]

RequestsInit ==
    /\ OutcomesInit
    /\ call = [w \in Workers |-> NoCall]
    /\ failures = 0

\* Every worker serves one request at a time.
Free(w) == task[w].phase = "none" /\ call[w].at = "none"
In(w, at) == call[w].at = at
Go(w, at, saw) == call' = [call EXCEPT ![w] = [at |-> at, saw |-> saw]]
Leave(w) == call' = [call EXCEPT ![w] = NoCall]

\* A database call throws, or the process goes down: what was written stays.
Stop(w) ==
    /\ failures < MaxFailures
    /\ ~Free(w)
    /\ failures' = failures + 1
    /\ Leave(w)
    /\ task' = [task EXCEPT ![w] = NoTask]
    /\ UNCHANGED <<status, delivered>>

AllFree == \A w \in Workers : Free(w)

=============================================================================
