------------------------------ MODULE Sessions ------------------------------
(***************************************************************************)
(* Keeping one signed-in client going: refresh tokens are rotated          *)
(* (apps/api/src/auth/token.service.ts) when a request comes back 401, one *)
(* refresh at a time behind a mutex (apps/admin/src/api/api.ts and         *)
(* mutex.ts, and the same in apps/web), and once more outside it, by a     *)
(* file download (apps/admin/src/api/download.ts).  A worker here is a     *)
(* request of the client with the refresh it makes at the server.          *)
(***************************************************************************)
EXTENDS Handlers, Sequences, SequencesExt

CONSTANT MaxTokens      \* bound: refresh tokens ever issued

VARIABLES
    tokens,     \* the state of each refresh token issued, oldest first
    held,       \* the refresh token the client stores, or None
    lock,       \* the request that holds the client's mutex, or None
    waiters,    \* the requests that wait for the mutex, oldest first
    strays,     \* history: tokens the client let go of that nobody revoked
    beside      \* history: refreshes or sign-outs ran side by side

sessionVars == <<tokens, held, lock, waiters, strays, beside>>

ASSUME SessionsAssumption == MaxTokens \in Nat /\ None \notin Nat

SessionsInit ==
    /\ tokens = <<>>
    /\ held = None
    /\ lock = None
    /\ waiters = <<>>
    /\ strays = {}
    /\ beside = FALSE

Refreshing == {"rotate", "issue", "revoke", "received", "refused"}
SigningOut == {"logout", "retry", "forget"}
InRefresh(w) == call[w].at \in Refreshing
Changing(w) == call[w].at \in Refreshing \cup SigningOut

Issued == tokens' = Append(tokens, "live")
Revoked(ts) == tokens' = [t \in DOMAIN tokens |-> IF t \in ts THEN "revoked" ELSE tokens[t]]

\* What a request keeps: the token it presents to be rotated, the one it got for
\* it, and, when it is a sign-out, the one its body carries.
Attempt(old, out) == [old |-> old, new |-> None, out |-> out]

\* Mutex: who holds it lets go, and wakes one of those that wait.
Release(w) ==
    IF lock # w THEN UNCHANGED <<lock, waiters>>
    ELSE lock' = None /\ waiters' = IF waiters = <<>> THEN waiters ELSE Tail(waiters)

\* wait: on if the mutex is free, else until it is released for w.
Wait(w) == waiters' = Append(waiters, w) /\ UNCHANGED lock
Woken(w) == w \notin ToSet(waiters)

-----------------------------------------------------------------------------

\* login: issuePair.
Login(w) ==
    /\ Free(w)
    /\ held = None
    /\ Len(tokens) < MaxTokens
    /\ Issued
    /\ held' = Len(tokens) + 1
    /\ UNCHANGED <<handlerVars, lock, waiters, strays, beside>>

\* onLogout: the token the page shows is to be revoked, by a request like any
\* other; then what the client stores is forgotten, whatever came of it.
Logout(w) ==
    /\ held # None
    /\ Begin(w, "logout", Attempt(held, None))
    /\ IF lock = None THEN UNCHANGED <<lock, waiters>> ELSE Wait(w)
    /\ beside' = (beside \/ \E v \in Workers : Changing(v))
    /\ UNCHANGED <<tokens, held, strays>>

\* The access token has expired, and the sign-out is refused like any request:
\* it refreshes, or waits for the refresh that runs, and is sent again as it was.
LogoutRefused(w) ==
    LET saw == call[w].saw
    IN  /\ In(w, "logout")
        /\ Woken(w)
        /\ \/ /\ held = None
              /\ Step(w, "forget", saw)
              /\ UNCHANGED <<lock, waiters>>
           \/ /\ held # None /\ lock = None
              /\ lock' = w
              /\ Step(w, "rotate", Attempt(held, saw.old))
              /\ UNCHANGED waiters
           \/ /\ held # None /\ lock # None
              /\ Wait(w)
              /\ Step(w, "retry", saw)
        /\ UNCHANGED <<tokens, held, strays, beside>>

RevokeOnLogout(w) ==
    /\ In(w, "logout") \/ In(w, "retry")
    /\ Woken(w)
    /\ Revoked({call[w].saw.old})
    /\ Step(w, "forget", call[w].saw)
    /\ UNCHANGED <<held, lock, waiters, strays, beside>>

\* A sign-out that was sent again is refused for good.
RetryRefused(w) ==
    /\ In(w, "retry")
    /\ Woken(w)
    /\ Step(w, "forget", call[w].saw)
    /\ UNCHANGED sessionVars

\* The call fails, and the client forgets all the same.
LogoutLost(w) ==
    /\ In(w, "logout") \/ In(w, "retry")
    /\ Woken(w)
    /\ failures < MaxFailures
    /\ failures' = failures + 1
    /\ Go(w, "forget", call[w].saw)
    /\ UNCHANGED <<outcomeVars, subject, overlapped, sessionVars>>

\* A token the sign-out's own refresh got is forgotten with the old one, which
\* alone was revoked.
ForgetTokens(w) ==
    /\ In(w, "forget")
    /\ held' = None
    /\ strays' = strays \cup ({call[w].saw.new} \ {None})
    /\ Done(w)
    /\ UNCHANGED <<tokens, lock, waiters, beside>>

StartRefresh(w) ==
    /\ held # None
    /\ Begin(w, "rotate", Attempt(held, None))
    /\ beside' = (beside \/ \E v \in Workers : Changing(v))
    /\ UNCHANGED <<tokens, held, strays>>

\* baseQueryWithReauth, on a 401: take the mutex and refresh.
QueryRefused(w) ==
    /\ lock = None
    /\ lock' = w
    /\ StartRefresh(w)
    /\ UNCHANGED waiters

\* Before it is sent, and when it came back 401, a query waits for the refresh
\* that holds the mutex; then it is sent.
QueryWaits(w) ==
    /\ lock # None
    /\ Wait(w)
    /\ Begin(w, "waiting", None)
    /\ UNCHANGED <<tokens, held, strays, beside>>

QueryGoesOn(w) ==
    /\ In(w, "waiting")
    /\ Woken(w)
    /\ Done(w)
    /\ UNCHANGED sessionVars

\* downloadFile, on a 401: refresh at once.
DownloadRefused(w) == StartRefresh(w) /\ UNCHANGED <<lock, waiters>>

\* rotate: the token is found revoked, and all of the user's are, or a new
\* pair is issued before the old token is revoked.
RotateRead(w) ==
    LET saw == call[w].saw
    IN  /\ In(w, "rotate")
        /\ IF tokens[saw.old] = "live"
             THEN Step(w, "issue", saw) /\ UNCHANGED tokens
             ELSE Step(w, "refused", saw) /\ Revoked(DOMAIN tokens)
        /\ UNCHANGED <<held, lock, waiters, strays, beside>>

\* A token that was not revoked is refused, and left as it is, when it has
\* expired or its user is no longer active.
RotateRefused(w) ==
    LET saw == call[w].saw
    IN  /\ In(w, "rotate")
        /\ tokens[saw.old] = "live"
        /\ Step(w, "refused", saw)
        /\ strays' = strays \cup {saw.old}
        /\ UNCHANGED <<tokens, held, lock, waiters, beside>>

IssuePair(w) ==
    /\ In(w, "issue")
    /\ Len(tokens) < MaxTokens
    /\ Issued
    /\ Step(w, "revoke", [call[w].saw EXCEPT !.new = Len(tokens) + 1])
    /\ UNCHANGED <<held, lock, waiters, strays, beside>>

RevokeOld(w) ==
    /\ In(w, "revoke")
    /\ Revoked({call[w].saw.old})
    /\ Step(w, "received", call[w].saw)
    /\ UNCHANGED <<held, lock, waiters, strays, beside>>

\* tokensReceived, and the request is sent again; or loggedOut.  The mutex is
\* released either way.
TokensReceived(w) ==
    LET saw == call[w].saw
    IN  /\ In(w, "received")
        /\ held' = saw.new
        /\ Release(w)
        /\ IF saw.out = None THEN Done(w) ELSE Step(w, "retry", [saw EXCEPT !.old = saw.out])
        /\ UNCHANGED <<tokens, strays, beside>>

LoggedOut(w) ==
    /\ In(w, "refused")
    /\ held' = None
    /\ Release(w)
    /\ Done(w)
    /\ UNCHANGED <<tokens, strays, beside>>

\* The refresh fails or its reply is lost: a query logs out; a download does when
\* the server answered with an error, and only throws when nothing came back.
RefreshLost(w) ==
    /\ InRefresh(w)
    /\ Crash(w)
    /\ held' = None \/ (lock # w /\ UNCHANGED held)
    /\ Release(w)
    /\ UNCHANGED <<tokens, strays, beside>>

SessionsStep(w) ==
    \/ Login(w) \/ Logout(w) \/ LogoutRefused(w) \/ RevokeOnLogout(w) \/ RetryRefused(w)
    \/ LogoutLost(w) \/ ForgetTokens(w)
    \/ QueryRefused(w) \/ QueryWaits(w) \/ QueryGoesOn(w) \/ DownloadRefused(w)
    \/ RotateRead(w) \/ RotateRefused(w) \/ IssuePair(w) \/ RevokeOld(w)
    \/ TokensReceived(w) \/ LoggedOut(w) \/ RefreshLost(w)

SessionsNext == \E w \in Workers : SessionsStep(w)

-----------------------------------------------------------------------------

SessionsTypeOK ==
    /\ tokens \in Seq({"live", "revoked"})
    /\ held \in 1 .. MaxTokens \cup {None}
    /\ lock \in Workers \cup {None} /\ waiters \in Seq(Workers)
    /\ strays \subseteq 1 .. MaxTokens /\ beside \in BOOLEAN

\* Whatever runs beside or fails, the mutex is never kept by a request that is
\* over, and who waits for it is a request that goes on when it is woken.
MutexHolds ==
    /\ lock # None => InRefresh(lock)
    /\ \A w \in ToSet(waiters) : call[w].at \in {"waiting", "logout", "retry"}

\* While no refresh or sign-out ran beside another, and none was lost, no
\* refresh is taken for the use of a stolen token, however many requests came
\* back 401 together; and the token the client stores is the only live one, but
\* for those it let go of: a token refused because it has expired or its user is
\* no longer active stays unrevoked, and a sign-out whose access token has
\* expired first gets a new refresh token, and then has only the old one revoked.
SessionKept ==
    ~beside /\ failures = 0 =>
        /\ \A w \in Workers : In(w, "refused") => tokens[call[w].saw.old] = "live"
        /\ AllFree => {t \in DOMAIN tokens : tokens[t] = "live"} \ strays = {held} \ {None}

\* A revoked token stays revoked.
RevokedForGood == \A t \in DOMAIN tokens : tokens[t] = "revoked" => tokens'[t] = "revoked"

\* "Resolves once the mutex is free" (mutex.ts:10).
WaitEndsWithTheMutex == waiters # <<>> => lock # None

=============================================================================
