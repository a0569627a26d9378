--------------------------- MODULE Notifications ---------------------------
(***************************************************************************)
(* Telling people (apps/api/src/notifications/notification.service.ts):    *)
(* for one recipient after the other a row for the app, then the external  *)
(* channels of the severity that the recipient has not switched off, each  *)
(* asked about and used in calls of their own.  And reading what came.     *)
(***************************************************************************)
EXTENDS Handlers

CONSTANT MaxNotices     \* bound: the notices sent

VARIABLES
    rows,       \* the table notifications: who, how grave, read or not
    sends,      \* history: the transports that were used, for which row
    asked,      \* history: whom each notice was for
    off         \* the channels each person has switched off

notificationVars == <<rows, sends, asked, off>>

External == {"PUSH", "EMAIL", "TEAMS"}

\* channelsFor, without the app itself.
channelsFor ==
    [INFO |-> {}, WATCH |-> {"PUSH", "EMAIL"}, DANGER |-> {"PUSH", "EMAIL", "TEAMS"}]

ASSUME NotificationsAssumption == MaxNotices \in Nat

NotificationsInit ==
    /\ rows = {}
    /\ sends = {}
    /\ asked = <<>>
    /\ off = [u \in People |-> {}]

Notices == DOMAIN asked
Rows(n) == {r \in rows : r.notice = n}

-----------------------------------------------------------------------------

\* send: the recipients that are left, with the one at hand.
Send(w, users, severity) ==
    /\ Cardinality(Notices) < MaxNotices
    /\ LET n == Cardinality(Notices) + 1
       IN /\ asked' = [m \in Notices \cup {n} |-> IF m = n THEN users ELSE asked[m]]
          /\ Begin(w, "row", [notice |-> n, severity |-> severity, left |-> users,
                              user |-> None, channels |-> {}, use |-> None])
    /\ UNCHANGED <<rows, sends, off>>

CreateRow(w) ==
    /\ In(w, "row")
    /\ \E u \in call[w].saw.left :
           LET saw == call[w].saw
           IN /\ rows' = rows \cup
                     {[notice |-> saw.notice, user |-> u, severity |-> saw.severity, read |-> FALSE,
                       wanted |-> channelsFor[saw.severity] \ off[u]]}
              /\ Step(w, "channel", [saw EXCEPT !.left = @ \ {u}, !.user = u,
                                                !.channels = channelsFor[saw.severity]])
    /\ UNCHANGED <<sends, asked, off>>

\* channelEnabled, for one channel after the other.
AskChannel(w) ==
    /\ In(w, "channel")
    /\ LET saw == call[w].saw
       IN \E c \in saw.channels :
              IF c \in off[saw.user]
                THEN Step(w, "channel", [saw EXCEPT !.channels = @ \ {c}])
                ELSE Step(w, "transport", [saw EXCEPT !.channels = @ \ {c}, !.use = c])
    /\ UNCHANGED notificationVars

\* resolveRecipient and the transport.
Transport(w) ==
    /\ In(w, "transport")
    /\ LET saw == call[w].saw
       IN /\ sends' = sends \cup {<<saw.notice, saw.user, saw.use>>}
          /\ Step(w, "channel", saw)
    /\ UNCHANGED <<rows, asked, off>>

NextRecipient(w) ==
    /\ In(w, "channel")
    /\ call[w].saw.channels = {}
    /\ IF call[w].saw.left = {} THEN Done(w) ELSE Step(w, "row", call[w].saw)
    /\ UNCHANGED notificationVars

-----------------------------------------------------------------------------

\* markRead: only the recipient's own, which stays read.
MarkRead(w, u) ==
    /\ Free(w)
    /\ \E r \in {x \in rows : x.user = u /\ ~x.read} :
           rows' = (rows \ {r}) \cup {[r EXCEPT !.read = TRUE]}
    /\ UNCHANGED <<handlerVars, sends, asked, off>>

MarkAllRead(w, u) ==
    /\ Free(w)
    /\ rows' = {IF r.user = u THEN [r EXCEPT !.read = TRUE] ELSE r : r \in rows}
    /\ UNCHANGED <<handlerVars, sends, asked, off>>

setPreference(w, u, c, enabled) ==
    /\ Free(w)
    /\ off' = [off EXCEPT ![u] = IF enabled THEN @ \ {c} ELSE @ \cup {c}]
    /\ overlapped' = (overlapped \/ ~Alone(w))
    /\ UNCHANGED <<outcomeVars, call, failures, subject, rows, sends, asked>>

NotificationCalls == {"row", "channel", "transport"}

NotificationsStep(w) ==
    \/ \E users \in SUBSET People \ {{}}, s \in DOMAIN channelsFor : Send(w, users, s)
    \/ CreateRow(w) \/ AskChannel(w) \/ Transport(w) \/ NextRecipient(w)
    \/ \E u \in People :
           \/ MarkRead(w, u) \/ MarkAllRead(w, u)
           \/ \E c \in External, enabled \in BOOLEAN : setPreference(w, u, c, enabled)
    \/ call[w].at \in NotificationCalls /\ Crash(w) /\ UNCHANGED notificationVars

NotificationsNext == \E w \in Workers : NotificationsStep(w)

-----------------------------------------------------------------------------

NotificationsTypeOK ==
    /\ \A n \in Notices : n \in Nat /\ asked[n] \subseteq People
    /\ rows \subseteq [notice : Notices, user : People, severity : DOMAIN channelsFor,
                      read : BOOLEAN, wanted : SUBSET External]
    /\ off \in [People -> SUBSET External]

\* Whatever overlaps or fails: nobody is told outside the app of what is not in
\* the app, or on a channel too grave for it, and nobody who was not asked for.
SendsAreFounded ==
    /\ \A r \in rows : r.user \in asked[r.notice]
    /\ \A x \in sends : \E r \in Rows(x[1]) : r.user = x[2] /\ x[3] \in channelsFor[r.severity]

\* One request at a time, none of which failed: everybody asked for has one row,
\* and was told on just the channels that were on.
EverybodyTold ==
    AtRest => \A n \in Notices : \A u \in asked[n] :
        LET mine == {r \in Rows(n) : r.user = u}
        IN /\ Cardinality(mine) = 1
           /\ \A r \in mine : {c \in External : <<n, u, c>> \in sends} = r.wanted

\* What was read stays read.
ReadStays == \A r \in rows : r.read => r \in rows'

=============================================================================
