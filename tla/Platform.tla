------------------------------ MODULE Platform ------------------------------
(***************************************************************************)
(* The services around the money: alerts and their engine, the reminders   *)
(* of the approval engine, sessions, the sales pipeline, the work          *)
(* breakdown of a project, boards, the notifications, and what the mobile  *)
(* app keeps until the server has it.  As in Money, a behaviour is about   *)
(* one of them, the part, and leaves the tables of the others as they      *)
(* began.                                                                  *)
(***************************************************************************)
EXTENDS Alerts, SlaTimers, Sessions, Pipeline, Wbs, Boards, Notifications, MobileSync

CONSTANT Parts      \* the parts an instance is about

VARIABLE part

vars == <<part, handlerVars, alertVars, slaVars, sessionVars, pipelineVars,
          wbsVars, boardVars, notificationVars, syncVars>>

PlatformInit ==
    /\ part \in Parts
    /\ HandlersInit
    /\ AlertsInit /\ SlaInit /\ SessionsInit /\ PipelineInit
    /\ WbsInit /\ BoardsInit /\ NotificationsInit /\ SyncInit
    \* A part that is idle begins in one way.
    /\ part # "pipeline" => stage = "CONTACT"

AlertsPart ==
    /\ part = "alerts" /\ AlertsNext
    /\ UNCHANGED <<part, slaVars, sessionVars, pipelineVars,
                   wbsVars, boardVars, notificationVars, syncVars>>

SlaPart ==
    /\ part = "sla" /\ SlaNext
    /\ UNCHANGED <<part, alertVars, sessionVars, pipelineVars,
                   wbsVars, boardVars, notificationVars, syncVars>>

SessionsPart ==
    /\ part = "sessions" /\ SessionsNext
    /\ UNCHANGED <<part, alertVars, slaVars, pipelineVars,
                   wbsVars, boardVars, notificationVars, syncVars>>

PipelinePart ==
    /\ part = "pipeline" /\ PipelineNext
    /\ UNCHANGED <<part, alertVars, slaVars, sessionVars,
                   wbsVars, boardVars, notificationVars, syncVars>>

WbsPart ==
    /\ part = "wbs" /\ WbsNext
    /\ UNCHANGED <<part, alertVars, slaVars, sessionVars, pipelineVars,
                   boardVars, notificationVars, syncVars>>

BoardsPart ==
    /\ part = "boards" /\ BoardsNext
    /\ UNCHANGED <<part, alertVars, slaVars, sessionVars, pipelineVars,
                   wbsVars, notificationVars, syncVars>>

NotificationsPart ==
    /\ part = "notifications" /\ NotificationsNext
    /\ UNCHANGED <<part, alertVars, slaVars, sessionVars, pipelineVars,
                   wbsVars, boardVars, syncVars>>

OutboxPart ==
    /\ part = "outbox" /\ OutboxNext
    /\ UNCHANGED <<part, alertVars, slaVars, sessionVars, pipelineVars,
                   wbsVars, boardVars, notificationVars>>

DraftsPart ==
    /\ part = "drafts" /\ DraftsNext
    /\ UNCHANGED <<part, alertVars, slaVars, sessionVars, pipelineVars,
                   wbsVars, boardVars, notificationVars>>

PlatformNext ==
    \/ AlertsPart \/ SlaPart \/ SessionsPart \/ PipelinePart \/ WbsPart
    \/ BoardsPart \/ NotificationsPart \/ OutboxPart \/ DraftsPart

Spec == PlatformInit /\ [][PlatformNext]_vars

\* The scheduled jobs come when they are due, and a job that began goes on.
LiveSpec == Spec /\ AlertsFairness /\ SlaFairness

-----------------------------------------------------------------------------

PlatformTypeOK ==
    /\ part \in Parts
    /\ AlertsTypeOK /\ SlaTypeOK /\ SessionsTypeOK /\ PipelineTypeOK
    /\ WbsTypeOK /\ BoardsTypeOK /\ NotificationsTypeOK /\ SyncTypeOK

\* However requests overlap and fail, what is stored has its cause: an alert
\* its finding, a stamp its notice, a link its record, a notice its recipient;
\* the client's mutex its refresh, and a sent request its answer.
PlatformAuthorised ==
    /\ AlertsAuthorised /\ StampsAreFounded /\ MutexHolds /\ LinksAreFounded
    /\ NodesApart /\ CardsStayHome /\ SendsAreFounded /\ NothingDropped

\* One request at a time, and none failed: what is said in two places agrees.
PlatformAgrees ==
    /\ AlertsAgree /\ TimersFireOnce /\ SessionKept /\ PipelineAgrees
    /\ RolledUp /\ EverybodyTold /\ EditsAreKept

\* No step undoes what is final, or does what nobody was allowed to ask for.
PlatformKept ==
    [][/\ AlertsKept /\ StampsAreKept /\ RevokedForGood /\ PipelineKept
       /\ LeavesKept /\ BoardsKept /\ ReadStays /\ LeavesWithCause]_vars

\* A grave alert is told although the process stopped before it was, and a step
\* nobody decides is escalated.
PlatformAnswers == DangerIsHeard /\ EscalationComes

=============================================================================
