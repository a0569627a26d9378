----------------------------- MODULE MobileSync -----------------------------
(***************************************************************************)
(* What the mobile app keeps on the device until the server has it: the    *)
(* outbox of requests (apps/mobile/lib/src/services/sync_service.dart,     *)
(* data/outbox_store.dart) and the drafts of a timesheet period            *)
(* (features/timesheets/cubit/timesheet_grid_cubit.dart,                   *)
(* data/timesheet_sync_service.dart, timesheet_draft_store.dart).  A       *)
(* worker is one asynchronous function of the app; it is cut where it      *)
(* awaits, and others run in between.  A call to the server is answered,   *)
(* refused for good (4xx), or fails in passing (offline, 5xx), before or   *)
(* after the server did what it was asked.                                 *)
(***************************************************************************)
EXTENDS Handlers, Sequences, SequencesExt

CONSTANTS
    Items,          \* the requests a person may queue
    SubmitAfter,    \* those of them to be submitted once they are created
    Cells,          \* the cells of the timesheet
    MaxEdits,       \* bound: edits of one cell
    MaxLost         \* bound: calls that fail in passing

VARIABLES
    outbox,         \* the queued requests, oldest first
    created,           \* how often the server created each request
    sentOn,         \* those of them it has submitted
    conflicts,      \* the requests reported as refused
    flushing,       \* the flag _flushing of SyncService
    edits,          \* the last edit of each cell
    drafts,         \* the edit kept as a draft of each cell, or 0
    stored,         \* the edit the server has of each cell
    refused,        \* the edits reported as refused
    lost            \* history: how many calls failed in passing

outboxVars == <<outbox, created, sentOn, conflicts, flushing>>
draftVars == <<edits, drafts, stored, refused>>
syncVars == <<outboxVars, draftVars, lost>>

ASSUME SyncAssumption == SubmitAfter \subseteq Items /\ MaxEdits \in Nat /\ MaxLost \in Nat

SyncInit ==
    /\ outbox = <<>>
    /\ created = [i \in Items |-> 0]
    /\ sentOn = {} /\ conflicts = {}
    /\ flushing = FALSE
    /\ edits = [c \in Cells |-> 0]
    /\ drafts = edits /\ stored = edits
    /\ refused = {}
    /\ lost = 0

Fails == lost < MaxLost /\ lost' = lost + 1

-----------------------------------------------------------------------------
(* The outbox. *)

Queued(i) == i \in ToSet(outbox)

\* enqueue, once: conflict, created and queued requests have ids of their own.
Enqueue(i) ==
    /\ ~Queued(i) /\ created[i] = 0 /\ i \notin conflicts
    /\ outbox' = Append(outbox, i)
    /\ UNCHANGED <<handlerVars, created, sentOn, conflicts, flushing, draftVars, lost>>

\* flush: the flag is looked at, then the connection is awaited.
Flush(w) ==
    /\ ~flushing
    /\ outbox # <<>>
    /\ Begin(w, "online", <<>>)
    /\ UNCHANGED syncVars

\* The items as they are now, in their order.
StartFlush(w) ==
    /\ In(w, "online")
    /\ flushing' = TRUE
    /\ Step(w, "send", outbox)
    /\ UNCHANGED <<outbox, created, sentOn, conflicts, draftVars, lost>>

First(w) == Head(call[w].saw)
NextItem(w) ==
    /\ Step(w, "send", Tail(call[w].saw))
    /\ UNCHANGED flushing

EndFlush(w) ==
    /\ In(w, "send")
    /\ call[w].saw = <<>>
    /\ flushing' = FALSE
    /\ Done(w)
    /\ UNCHANGED <<outbox, created, sentOn, conflicts, draftVars, lost>>

\* _dispatch creates, then submits what is to be.
CreateAtServer(w) ==
    /\ In(w, "send")
    /\ call[w].saw # <<>>
    /\ \/ /\ created' = [created EXCEPT ![First(w)] = @ + 1]
          /\ \/ /\ Step(w, IF First(w) \in SubmitAfter THEN "submit" ELSE "remove", call[w].saw)
                /\ UNCHANGED <<flushing, lost>>
             \/ Fails /\ NextItem(w)
       \/ Fails /\ NextItem(w) /\ UNCHANGED created
       \/ Step(w, "drop", call[w].saw) /\ UNCHANGED <<created, flushing, lost>>
    /\ UNCHANGED <<outbox, sentOn, conflicts, draftVars>>

SubmitAtServer(w) ==
    /\ In(w, "submit")
    /\ \/ sentOn' = sentOn \cup {First(w)} /\ Step(w, "remove", call[w].saw) /\ UNCHANGED <<flushing, lost>>
       \/ Fails /\ NextItem(w) /\ UNCHANGED sentOn
       \/ Step(w, "drop", call[w].saw) /\ UNCHANGED <<sentOn, flushing, lost>>
    /\ UNCHANGED <<outbox, created, conflicts, draftVars>>

RemoveSent(w) ==
    /\ In(w, "remove")
    /\ outbox' = RemoveFirst(outbox, First(w))
    /\ NextItem(w)
    /\ UNCHANGED <<created, sentOn, conflicts, draftVars, lost>>

\* A refusal is reported and the item dropped.
DropRefused(w) ==
    /\ In(w, "drop")
    /\ outbox' = RemoveFirst(outbox, First(w))
    /\ conflicts' = conflicts \cup {First(w)}
    /\ NextItem(w)
    /\ UNCHANGED <<created, sentOn, draftVars, lost>>

OutboxCalls == {"online", "send", "submit", "remove", "drop"}

\* The app is closed: what it was doing is gone, the database stays.
AppClosed ==
    /\ failures < MaxFailures
    /\ failures' = failures + 1
    /\ call' = [w \in Workers |-> NoCall]
    /\ flushing' = FALSE
    /\ UNCHANGED <<outcomeVars, subject, overlapped, outbox, created, sentOn, conflicts, draftVars, lost>>

OutboxStep(w) ==
    \/ Flush(w) \/ StartFlush(w) \/ EndFlush(w)
    \/ CreateAtServer(w) \/ SubmitAtServer(w) \/ RemoveSent(w) \/ DropRefused(w)

OutboxNext ==
    \/ \E w \in Workers : OutboxStep(w)
    \/ \E i \in Items : Enqueue(i)
    \/ (\E w \in Workers : call[w].at \in OutboxCalls) /\ AppClosed

-----------------------------------------------------------------------------
(* The drafts. *)

\* editCell: shown and kept as a draft before it is sent.
EditCell(w, c) ==
    /\ edits[c] < MaxEdits
    /\ edits' = [edits EXCEPT ![c] = @ + 1]
    /\ drafts' = [drafts EXCEPT ![c] = edits'[c]]
    /\ Begin(w, "upsert", [edits |-> {<<c, edits'[c]>>}, all |-> FALSE])
    /\ UNCHANGED <<stored, refused, outboxVars, lost>>

Drafted == {<<c, drafts[c]>> : c \in {d \in Cells : drafts[d] > 0}}

\* flush and submit send the drafts of the period in one upsert.
FlushDrafts(w) ==
    /\ Drafted # {}
    /\ Begin(w, "upsert", [edits |-> Drafted, all |-> TRUE])
    /\ UNCHANGED syncVars

StoreEdits(w) ==
    stored' = [c \in Cells |->
        LET mine == {e \in call[w].saw.edits : e[1] = c}
        IN IF mine = {} THEN stored[c] ELSE (CHOOSE e \in mine : TRUE)[2]]

\* upsertEntries: a failure in passing leaves the draft where it is.
UpsertAtServer(w) ==
    /\ In(w, "upsert")
    /\ \/ StoreEdits(w) /\ Step(w, "clear", call[w].saw) /\ UNCHANGED <<refused, lost>>
       \/ (StoreEdits(w) \/ UNCHANGED stored) /\ Fails /\ Done(w) /\ UNCHANGED refused
       \/ refused' = refused \cup call[w].saw.edits /\ Step(w, "clear", call[w].saw) /\ UNCHANGED <<stored, lost>>
    /\ UNCHANGED <<edits, drafts, outboxVars>>

\* remove by cell, removeForPeriod by period: whatever draft is there by now.
ClearDrafts(w) ==
    /\ In(w, "clear")
    /\ LET cleared == IF call[w].saw.all THEN Cells ELSE {e[1] : e \in call[w].saw.edits}
       IN drafts' = [c \in Cells |-> IF c \in cleared THEN 0 ELSE drafts[c]]
    /\ Done(w)
    /\ UNCHANGED <<edits, stored, refused, outboxVars, lost>>

DraftCalls == {"upsert", "clear"}

DraftStep(w) ==
    \/ \E c \in Cells : EditCell(w, c)
    \/ FlushDrafts(w) \/ UpsertAtServer(w) \/ ClearDrafts(w)

DraftsNext ==
    \/ \E w \in Workers : DraftStep(w)
    \/ (\E w \in Workers : call[w].at \in DraftCalls) /\ AppClosed

-----------------------------------------------------------------------------

SyncTypeOK ==
    /\ ToSet(outbox) \subseteq Items /\ created \in [Items -> Nat]
    /\ sentOn \subseteq Items /\ conflicts \subseteq Items /\ flushing \in BOOLEAN
    /\ edits \in [Cells -> 0 .. MaxEdits] /\ drafts \in [Cells -> 0 .. MaxEdits]
    /\ stored \in [Cells -> 0 .. MaxEdits] /\ lost \in 0 .. MaxLost

HasIt(i) == created[i] > 0 /\ (i \in SubmitAfter => i \in sentOn)

\* Whatever overlaps, fails or is closed: a request is done only when the server
\* has all of it, and created twice only after a lost answer, a closed app or
\* two flushes at a time.
NothingDropped ==
    /\ \A i \in sentOn : created[i] > 0
    /\ \A i \in Items : created[i] > 1 => lost > 0 \/ overlapped \/ failures > 0
    /\ \A w \in Workers : In(w, "remove") => HasIt(First(w))

\* One function at a time: the last edit of a cell is at the server, or kept as
\* a draft, or was reported as refused.
EditsAreKept ==
    ~overlapped => \A c \in Cells :
        edits[c] \in {0, stored[c], drafts[c]} \/ <<c, edits[c]>> \in refused

\* No request leaves the outbox but when the server has it or refused it.
LeavesWithCause ==
    \A i \in ToSet(outbox) \ ToSet(outbox') : HasIt(i) \/ i \in conflicts'

=============================================================================
