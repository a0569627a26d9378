------------------------------ MODULE Pipeline ------------------------------
(***************************************************************************)
(* One lead of a marketing campaign and one deal of the sales pipeline     *)
(* (apps/api/src/marketing/responses.service.ts and                        *)
(* apps/api/src/crm/opportunities.service.ts): each moves along a graph of *)
(* statuses and is converted, the lead into a deal and the deal into an    *)
(* order or a contract, by creating the record first and linking it then.  *)
(***************************************************************************)
EXTENDS Handlers

VARIABLES
    stage,      \* the deal: its stage,
    links,      \* the kinds of record it is linked to,
    records,       \* and how many of each kind were created for it
    lead,       \* the status of the lead,
    linked,     \* whether it is linked to a deal,
    deals       \* and how many deals were created for it

pipelineVars == <<stage, links, records, lead, linked, deals>>

STAGE_TRANSITIONS ==
    [CONTACT |-> {"QUALIFIED", "LOST"},
     QUALIFIED |-> {"PROPOSAL", "CONTACT", "LOST"},
     PROPOSAL |-> {"NEGOTIATION", "QUALIFIED", "LOST"},
     NEGOTIATION |-> {"WON", "PROPOSAL", "LOST"},
     WON |-> {},
     LOST |-> {"CONTACT"}]
Stages == DOMAIN STAGE_TRANSITIONS

STATUS_TRANSITIONS ==
    [NEW |-> {"CONTACTED", "DEAD"},
     CONTACTED |-> {"QUALIFIED", "DEAD"},
     QUALIFIED |-> {"DEAD"},
     DEAD |-> {"CONTACTED"}]
LeadStatuses == DOMAIN STATUS_TRANSITIONS

Targets == {"ORDER", "CONTRACT"}

\* A deal may be entered at any stage.
PipelineInit ==
    /\ stage \in Stages
    /\ links = {}
    /\ records = [k \in Targets |-> 0]
    /\ lead = "NEW"
    /\ linked = FALSE
    /\ deals = 0

May(graph, from, to) == from = to \/ to \in graph[from]

-----------------------------------------------------------------------------

\* move: what was read decides, and is not read again.
MoveRead(w, to) ==
    /\ May(STAGE_TRANSITIONS, stage, to)
    /\ Begin(w, "move", to)
    /\ UNCHANGED pipelineVars

MoveWrite(w) ==
    /\ In(w, "move")
    /\ stage' = call[w].saw
    /\ Done(w)
    /\ UNCHANGED <<links, records, lead, linked, deals>>

\* convert: a deal that has no link and may be WON.
ConvertRead(w, k) ==
    /\ links = {}
    /\ May(STAGE_TRANSITIONS, stage, "WON")
    /\ Begin(w, "make", k)
    /\ UNCHANGED pipelineVars

\* convertToOrder, convertToContract: the record, then the deal with its link.
MakeRecord(w) ==
    /\ In(w, "make")
    /\ records' = [records EXCEPT ![call[w].saw] = @ + 1]
    /\ Step(w, "link", call[w].saw)
    /\ UNCHANGED <<stage, links, lead, linked, deals>>

LinkRecord(w) ==
    /\ In(w, "link")
    /\ stage' = "WON"
    /\ links' = links \cup {call[w].saw}
    /\ Done(w)
    /\ UNCHANGED <<records, lead, linked, deals>>

-----------------------------------------------------------------------------

UpdateStatusRead(w, to) ==
    /\ May(STATUS_TRANSITIONS, lead, to)
    /\ Begin(w, "status", to)
    /\ UNCHANGED pipelineVars

UpdateStatusWrite(w) ==
    /\ In(w, "status")
    /\ lead' = call[w].saw
    /\ Done(w)
    /\ UNCHANGED <<stage, links, records, linked, deals>>

ConvertLeadRead(w) ==
    /\ ~linked
    /\ Begin(w, "deal", lead)
    /\ UNCHANGED pipelineVars

CreateDeal(w) ==
    /\ In(w, "deal")
    /\ deals' = deals + 1
    /\ Step(w, "linkDeal", call[w].saw)
    /\ UNCHANGED <<stage, links, records, lead, linked>>

\* The lead that was read DEAD stays so, any other is QUALIFIED.
LinkDeal(w) ==
    /\ In(w, "linkDeal")
    /\ linked' = TRUE
    /\ lead' = IF call[w].saw = "DEAD" THEN "DEAD" ELSE "QUALIFIED"
    /\ Done(w)
    /\ UNCHANGED <<stage, links, records, deals>>

PipelineCalls == {"move", "make", "link", "status", "deal", "linkDeal"}

PipelineStep(w) ==
    \/ \E s \in Stages : MoveRead(w, s)
    \/ \E k \in Targets : ConvertRead(w, k)
    \/ \E s \in LeadStatuses : UpdateStatusRead(w, s)
    \/ ConvertLeadRead(w)
    \/ MoveWrite(w) \/ MakeRecord(w) \/ LinkRecord(w)
    \/ UpdateStatusWrite(w) \/ CreateDeal(w) \/ LinkDeal(w)
    \/ call[w].at \in PipelineCalls /\ Crash(w) /\ UNCHANGED pipelineVars

PipelineNext == \E w \in Workers : PipelineStep(w)

-----------------------------------------------------------------------------

PipelineTypeOK ==
    /\ stage \in Stages /\ links \subseteq Targets /\ records \in [Targets -> Nat]
    /\ lead \in LeadStatuses /\ linked \in BOOLEAN /\ deals \in Nat

\* Whatever overlaps or fails, a link names a record that was created.
LinksAreFounded ==
    /\ \A k \in links : records[k] > 0
    /\ linked => deals > 0

\* One request at a time, none of which failed: one record for a converted
\* deal, which is WON, and none for another; one deal for a converted lead.
PipelineAgrees ==
    AtRest =>
        /\ records["ORDER"] + records["CONTRACT"] = Cardinality(links)
        /\ Cardinality(links) <= 1
        /\ links # {} => stage = "WON"
        /\ deals = IF linked THEN 1 ELSE 0

\* A deal that is WON stays WON, what is converted is not undone, and a lead
\* that is worked on is never NEW again.
PipelineKept ==
    /\ links \subseteq links' /\ (linked => linked')
    /\ ~overlapped' => /\ stage = "WON" => stage' = "WON"
                       /\ lead # "NEW" => lead' # "NEW"

=============================================================================
