------------------------------ MODULE Handlers ------------------------------
(***************************************************************************)
(* What the handlers of the services around the core have in common: how a *)
(* handler begins, goes on from one database call to the next and ends,    *)
(* how a subject is handed to the approval engine and how its outcome      *)
(* arrives.  Each service adds its tables and its steps.                   *)
(*                                                                         *)
(* "overlapped" remembers whether two handlers ever ran side by side: what *)
(* the services promise for one request at a time is stated under          *)
(* ~overlapped, what they promise always without it.                       *)
(***************************************************************************)
EXTENDS Requests, FiniteSets

CONSTANTS
    People,
    Author      \* who raises the subject

VARIABLES
    subject,    \* what each chain is about: the id given to submit
    overlapped  \* history: two handlers ran at the same time

handlerVars == <<outcomeVars, call, failures, subject, overlapped>>

ASSUME HandlersAssumption == Author \in People /\ IsFiniteSet(Workers)

HandlersInit ==
    /\ RequestsInit
    /\ subject = [c \in Chains |-> None]
    /\ overlapped = FALSE

Alone(w) == \A v \in Workers \ {w} : Free(v)

\* The first call of a handler: what it read is kept.
Begin(w, at, saw) ==
    /\ Free(w)
    /\ Go(w, at, saw)
    /\ overlapped' = (overlapped \/ ~Alone(w))
    /\ UNCHANGED <<outcomeVars, failures, subject>>

\* A later call, and the end of a handler.
Step(w, at, saw) == Go(w, at, saw) /\ UNCHANGED <<outcomeVars, failures, subject, overlapped>>
Done(w) == Leave(w) /\ UNCHANGED <<outcomeVars, failures, subject, overlapped>>

-----------------------------------------------------------------------------
(* The engine: submit opens a chain, decisions resolve it. *)

Route(w, c) ==
    /\ In(w, "route")
    /\ Open(c)
    /\ subject' = [subject EXCEPT ![c] = call[w].saw]
    /\ Leave(w)
    /\ UNCHANGED <<failures, overlapped>>

\* Only decisions that ran side by side give a chain a second outcome.
DecideChain(w, c, s) ==
    /\ Free(w)
    /\ Resolve(w, c, s)
    /\ overlapped' = (overlapped \/ ~Alone(w) \/ status[c] # "PENDING")
    /\ UNCHANGED <<call, failures, subject>>

\* The registry calls the callback of the subject's module, which goes on at
\* one place with an approval and at another with any other outcome.
StartCallback(w, approved, other) ==
    /\ Deliver(w)
    /\ Go(w, IF task[w].outcome = "APPROVED" THEN approved ELSE other, subject[task[w].chain])
    /\ UNCHANGED <<failures, subject, overlapped>>

EndCallback(w) ==
    /\ In(w, "none")
    /\ Return(w)
    /\ UNCHANGED <<call, failures, subject, overlapped>>

\* Also a refusal of the engine (no row of the matrix fits): submit throws.
Crash(w) == Stop(w) /\ UNCHANGED <<subject, overlapped>>

-----------------------------------------------------------------------------

ApprovedFor(x) == \E c \in Chains : subject[c] = x /\ delivered[c]["APPROVED"] > 0
AwaitedFor(x) == \E c \in Chains : subject[c] = x /\ status[c] = "PENDING"

\* One request at a time, none of which failed, and none in progress.
Orderly == ~overlapped /\ failures = 0
AtRest == Orderly /\ AllFree

=============================================================================
