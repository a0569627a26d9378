------------------------------ MODULE Workflow ------------------------------
(***************************************************************************)
(* What the workflow services (requisitions, travel, director withdrawals, *)
(* ...) have in common: a document with a status column, a submit handler  *)
(* that hands it to the approval engine, and a callback that the engine    *)
(* calls with the outcome.  The engine is the abstract one of              *)
(* ApprovalOutcomes.                                                       *)
(*                                                                         *)
(* One document is modelled: documents share no rows but the ledger's.  A  *)
(* definition named for a mistake (SubmitUnchecked, SubmitUnrouted,        *)
(* StartCallbackAlways) is what its successor must not be; so in the       *)
(* modules built on this one.                                              *)
(***************************************************************************)
EXTENDS Requests

CONSTANTS
    MayRefuse,      \* BOOLEAN: the approval matrix may have no row for the document
    People, Requester

VARIABLES
    kind,       \* what the document is; it never changes
    doc,        \* the status of the document
    paid        \* history: journals that paid for the document

given == <<kind, failures>>
workflowVars == <<outcomeVars, doc, paid, call>>

ASSUME WorkflowAssumption == MayRefuse \in BOOLEAN /\ Requester \in People

WorkflowInit ==
    /\ RequestsInit
    /\ doc = "DRAFT"
    /\ paid = 0

-----------------------------------------------------------------------------
(* submit: read and check, write SUBMITTED, then call the engine. *)

SubmitUnchecked(w) ==
    /\ Free(w)
    /\ Go(w, "submit", None)
    /\ UNCHANGED <<outcomeVars, doc, paid>>

SubmitRead(w) ==
    /\ Free(w)
    /\ doc \in {"DRAFT", "RETURNED"}
    /\ Go(w, "submit", None)
    /\ UNCHANGED <<outcomeVars, doc, paid>>

SubmitWrite(w) ==
    /\ In(w, "submit")
    /\ doc' = "SUBMITTED"
    /\ Go(w, "route", None)
    /\ UNCHANGED <<outcomeVars, paid>>

SubmitUnrouted(w, c) ==
    /\ In(w, "route")
    /\ status[c] = "NONE"
    /\ Leave(w)
    /\ UNCHANGED <<outcomeVars, doc, paid>>

SubmitRoute(w, c) ==
    /\ In(w, "route")
    /\ Open(c)
    /\ Leave(w)
    /\ UNCHANGED <<doc, paid>>

\* The engine finds no matrix row and throws; SUBMITTED was written already.
SubmitRefused(w) ==
    /\ MayRefuse
    /\ In(w, "route")
    /\ Leave(w)
    /\ UNCHANGED <<outcomeVars, doc, paid>>

-----------------------------------------------------------------------------
(* The engine's side, and the callback. *)

\* An approver's decision closes or returns a chain.
DecideChain(w, c, s) ==
    /\ Free(w)
    /\ Resolve(w, c, s)
    /\ UNCHANGED <<doc, paid, call>>

\* The callback starts; an approval goes on where the service says.
StartCallback(w, approved) ==
    /\ Deliver(w)
    /\ Go(w, IF task[w].outcome = "APPROVED" THEN approved ELSE "mirror", None)
    /\ UNCHANGED <<doc, paid>>

\* setStatus: REJECTED and RETURNED are written whatever the status was.
Mirror(w) ==
    /\ In(w, "mirror")
    /\ doc' = task[w].outcome
    /\ Leave(w)
    /\ UNCHANGED <<outcomeVars, paid>>

EndCallback(w) ==
    /\ In(w, "none")
    /\ Return(w)
    /\ UNCHANGED <<doc, paid, call>>

Crash(w) ==
    /\ Stop(w)
    /\ UNCHANGED <<doc, paid>>

\* What a worker does of itself in every workflow, once it was asked.
Submitting(w) ==
    \/ SubmitWrite(w)
    \/ \E c \in Chains : SubmitRoute(w, c)
    \/ SubmitRefused(w)

Delivering(w, approved) ==
    \/ StartCallback(w, approved)
    \/ Mirror(w)
    \/ EndCallback(w)

-----------------------------------------------------------------------------

ApprovedOnce == \E c \in Chains : delivered[c]["APPROVED"] > 0
Awaited == \E c \in Chains : status[c] = "PENDING"

=============================================================================
