-------------------------- MODULE DashboardSession --------------------------
(***************************************************************************)
(* The session of one browser tab of the admin dashboard: the access token *)
(* in memory, the refresh token and the user in localStorage (which other  *)
(* tabs share), the calls of apiFetch with their single retry after a 401, *)
(* the refreshes that may run at the same time (nothing joins them), sign  *)
(* in, sign out, a password change, the guards that redirect, a page       *)
(* reload, and what another tab does to localStorage.  The backend is an   *)
(* external record.  A token pair is a number: the n-th pair the backend   *)
(* issued.  The answers of fetch may be late or lost; the steps between    *)
(* two awaits are one action.                                              *)
(***************************************************************************)
EXTENDS Naturals, FiniteSets

CONSTANTS MaxToken,     \* bound: pairs the backend issues
          MaxOutside,   \* bound: reloads of the page, what another tab starts, and
                        \* what an administrator does to the account
          MaxCalls      \* bound: calls of apiFetch at a time

ASSUME SessionBounds ==
    MaxToken \in Nat \ {0} /\ MaxOutside \in Nat /\ MaxCalls \in Nat

VARIABLES server,    \* external: [unspent, withdrawn, next, profile]
          tab,       \* the state of AuthProvider and the module's access token
          stored,    \* localStorage: the refresh token and the user
          refreshing,\* what each caller of refreshSession waits for
          call,      \* the calls of apiFetch: a page's data, a password change
          form,      \* the sign-in and sign-out requests in flight
          path,      \* the route shown
          outside    \* [count, lost]: lost when a reload or a closed tab dropped a refresh

sessionVars == <<server, tab, stored, refreshing, call, form, path, outside>>

NoToken == 0
Tokens == 1..MaxToken
Profiles == {"admin", "forced", "disabled", "parent"}
Calls == {"data", "password"}
OwnCallers == {"load", "timer"} \union Calls
Callers == OwnCallers \union {"otherTab"}
Paths == {"/login", "/change-password", "/page"}
NotWaiting == [pc |-> "idle", token |-> NoToken, user |-> "none", seen |-> FALSE]
NoCall == [pc |-> "idle", sends |-> 0]

\* A token is spent when a refresh has replaced it or a sign out revoked it.  Up to
\* withdrawn, in the order of issue, they are revoked or too old: an administrator
\* revokes all there are, and lifetimes end in that order.
ServerRecord == [unspent : SUBSET Tokens, withdrawn : {NoToken} \union Tokens,
                 next : 1..(MaxToken + 1), profile : Profiles]

SessionTypeOK ==
    /\ server \in ServerRecord
    /\ tab \in [access : {NoToken} \union Tokens, refresh : {NoToken} \union Tokens,
                user : Profiles \union {"none"}, isLoading : BOOLEAN]
    /\ stored \in [refresh : {NoToken} \union Tokens, user : Profiles \union {"none"}]
    /\ refreshing \in [Callers -> [pc : {"idle", "refresh", "me"},
                                   token : {NoToken} \union Tokens,
                                   user : Profiles \union {"none"}, seen : BOOLEAN]]
    /\ call \in [Calls -> [pc : {"idle", "sent", "refreshing"}, sends : Nat]]
    /\ form \in [login : BOOLEAN, logout : {NoToken} \union Tokens]
    /\ path \in Paths
    /\ outside \in [count : 0..MaxOutside, lost : BOOLEAN]

SignedOut(t) == [t EXCEPT !.access = NoToken, !.refresh = NoToken, !.user = "none"]

\* The page is opened, with or without a session left in localStorage.
SessionInit ==
    /\ \E p \in {"admin", "parent"}, t \in {NoToken, 1} :
         /\ server = [unspent |-> {1}, withdrawn |-> NoToken, next |-> 2,
                      profile |-> p]
         /\ stored = [refresh |-> t, user |-> IF t = NoToken THEN "none" ELSE "admin"]
    /\ tab = [access |-> NoToken, refresh |-> NoToken, user |-> "none", isLoading |-> TRUE]
    /\ refreshing = [r \in Callers |-> NotWaiting]
    /\ call = [c \in Calls |-> NoCall]
    /\ form = [login |-> FALSE, logout |-> NoToken]
    /\ path \in {"/login", "/page"}
    /\ outside = [count |-> 0, lost |-> FALSE]

isAuthenticated == tab.user # "none" /\ tab.access # NoToken
isProtectedPath(p) == p # "/login"

\* The profiles the dashboard accepts: active and not a parent.
assertDashboardAccess(u) == u \in {"admin", "forced"}

clearSession ==
    /\ tab' = SignedOut(tab)
    /\ stored' = [refresh |-> NoToken, user |-> "none"]

\* Mutant: the refresh token that was rotated is not stored.
RefreshNotStored(t, u, loading) ==
    /\ tab' = [access |-> t, refresh |-> t, user |-> u, isLoading |-> loading]
    /\ stored' = [stored EXCEPT !.user = u]

applySession(t, u, loading) ==
    /\ tab' = [access |-> t, refresh |-> t, user |-> u, isLoading |-> loading]
    /\ stored' = [refresh |-> t, user |-> u]

handleSessionExpired == clearSession /\ path' = "/login"

-----------------------------------------------------------------------------
(* The backend's refresh tokens.                                           *)

Issued(old) == [server EXCEPT !.unspent = (@ \ {old}) \union {server.next}, !.next = @ + 1]

Usable(t) == t \in server.unspent /\ t > server.withdrawn /\ server.profile # "disabled"

\* The backend reads the token and its user and revokes the token later, so it
\* may accept one that was usable when the request was sent.
Accepts(w) == (Usable(w.token) \/ w.seen) /\ server.next <= MaxToken

-----------------------------------------------------------------------------
(* refreshSession and who calls it.                                        *)

SendRefresh(r) ==
    refreshing' = [refreshing EXCEPT ![r] =
        [pc |-> "refresh", token |-> stored.refresh, user |-> "none",
         seen |-> Usable(stored.refresh)]]

\* Mutant: a refresh that fails leaves the call that waits for it.
ResumesOnSuccess(r, t) ==
    call' = IF r \in Calls /\ t # NoToken
            THEN [call EXCEPT ![r] = [pc |-> "sent", sends |-> @.sends + 1]]
            ELSE call

\* A call that was refused sends itself once more with the new token, or fails.
CallResumes(r, t) ==
    call' = IF r \in Calls
            THEN [call EXCEPT ![r] = IF t = NoToken THEN NoCall
                                     ELSE [pc |-> "sent", sends |-> @.sends + 1]]
            ELSE call

\* refreshSession throws: loadSession clears the session and stops loading, the
\* timer and the calls send the user to the sign-in page.  The other tab clears
\* its own session and the localStorage it shares with this one.
RefreshThrows(r) ==
    /\ refreshing' = [refreshing EXCEPT ![r] = NotWaiting]
    /\ stored' = [refresh |-> NoToken, user |-> "none"]
    /\ IF r = "otherTab" THEN UNCHANGED <<tab, path>>
       ELSE /\ tab' = [SignedOut(tab) EXCEPT !.isLoading = @ /\ r # "load"]
            /\ path' = IF r = "load" THEN path ELSE "/login"
    /\ CallResumes(r, NoToken)

LoadSession ==
    /\ tab.isLoading /\ refreshing["load"].pc = "idle"
    /\ IF stored.refresh = NoToken
       THEN /\ stored' = [refresh |-> NoToken, user |-> "none"]
            /\ tab' = [SignedOut(tab) EXCEPT !.isLoading = FALSE]
            /\ UNCHANGED refreshing
       ELSE /\ tab' = [tab EXCEPT !.refresh = stored.refresh]
            /\ SendRefresh("load")
            /\ UNCHANGED stored
    /\ UNCHANGED <<server, call, form, path, outside>>

\* The interval of ten minutes, armed while there is a user and a refresh token.
TimerRefreshes ==
    /\ tab.user # "none" /\ tab.refresh # NoToken
    /\ refreshing["timer"].pc = "idle"
    /\ IF stored.refresh = NoToken
       THEN clearSession /\ UNCHANGED refreshing
       ELSE SendRefresh("timer") /\ UNCHANGED <<tab, stored>>
    /\ UNCHANGED <<server, call, form, path, outside>>

\* POST /auth/refresh: a new pair, whose profile is asked for next.  The stored
\* user is read here, before the await.
RefreshAccepted(r) ==
    /\ refreshing[r].pc = "refresh" /\ Accepts(refreshing[r])
    /\ server' = Issued(refreshing[r].token)
    /\ refreshing' = [refreshing EXCEPT ![r] =
         [pc |-> "me", token |-> server.next, user |-> stored.user, seen |-> FALSE]]
    /\ UNCHANGED <<tab, stored, call, form, path, outside>>

\* The request is refused, or it or its answer is lost.
RefreshFails(r) ==
    /\ refreshing[r].pc = "refresh"
    /\ \/ UNCHANGED server
       \/ Accepts(refreshing[r]) /\ server' = Issued(refreshing[r].token)
    /\ RefreshThrows(r)
    /\ UNCHANGED <<form, outside>>

\* GET /auth/me: the profile, or the stored user when the request fails.
ProfileAnswers(r) ==
    /\ refreshing[r].pc = "me"
    /\ \E u \in {server.profile, refreshing[r].user} :
         IF assertDashboardAccess(u)
         THEN /\ IF r = "otherTab"
                 THEN stored' = [refresh |-> refreshing[r].token, user |-> u] /\ UNCHANGED tab
                 ELSE applySession(refreshing[r].token, u, tab.isLoading /\ r # "load")
              /\ refreshing' = [refreshing EXCEPT ![r] = NotWaiting]
              /\ CallResumes(r, refreshing[r].token)
              /\ UNCHANGED path
         ELSE RefreshThrows(r)
    /\ UNCHANGED <<server, form, outside>>

-----------------------------------------------------------------------------
(* apiFetch.                                                               *)

CallStarts(c) ==
    /\ isAuthenticated /\ path # "/login" /\ ~tab.isLoading
    /\ c = "password" => path = "/change-password"
    /\ call[c].pc = "idle"
    /\ Cardinality({d \in Calls : call[d].pc # "idle"}) < MaxCalls
    /\ call' = [call EXCEPT ![c] = [pc |-> "sent", sends |-> 1]]
    /\ UNCHANGED <<server, tab, stored, refreshing, form, path, outside>>

\* Mutant: off by one.
RetriedTwice(c) == call[c].sends > 2

retried(c) == call[c].sends > 1

\* 401: the access token has expired, as it may at any time, or the current
\* password is wrong.
CallRefused(c) ==
    /\ call[c].pc = "sent"
    /\ IF retried(c)
       THEN /\ call' = [call EXCEPT ![c] = NoCall]
            /\ UNCHANGED <<tab, stored, refreshing, path>>
       ELSE IF stored.refresh = NoToken
            THEN /\ handleSessionExpired
                 /\ call' = [call EXCEPT ![c] = NoCall]
                 /\ UNCHANGED refreshing
            ELSE /\ SendRefresh(c)
                 /\ call' = [call EXCEPT ![c].pc = "refreshing"]
                 /\ UNCHANGED <<tab, stored, path>>
    /\ UNCHANGED <<server, form, outside>>

\* Any other answer, or none.
CallEnds(c) ==
    /\ call[c].pc = "sent"
    /\ call' = [call EXCEPT ![c] = NoCall]
    /\ UNCHANGED <<server, tab, stored, refreshing, form, path, outside>>

\* The password is changed: the profile is updated where the session still is.
PasswordChanged ==
    /\ call["password"].pc = "sent" /\ server.profile # "disabled"
    /\ LET u == IF server.profile = "forced" THEN "admin" ELSE server.profile IN
         /\ server' = [server EXCEPT !.profile = u]
         /\ IF ~assertDashboardAccess(u)
            THEN UNCHANGED <<tab, stored, path>>
            ELSE /\ IF stored.refresh = NoToken
                    THEN clearSession
                    ELSE /\ tab' = [tab EXCEPT !.user = u]
                         /\ stored' = [stored EXCEPT !.user = u]
                 /\ path' = "/page"
    /\ call' = [call EXCEPT !["password"] = NoCall]
    /\ UNCHANGED <<refreshing, form, outside>>

-----------------------------------------------------------------------------
(* Sign in and sign out.                                                   *)

LoginSubmitted ==
    /\ path = "/login" /\ ~tab.isLoading /\ ~isAuthenticated /\ ~form.login
    /\ form' = [form EXCEPT !.login = TRUE]
    /\ UNCHANGED <<server, tab, stored, refreshing, call, path, outside>>

LoginAccepted ==
    /\ form.login /\ server.profile # "disabled" /\ server.next <= MaxToken
    /\ server' = Issued(NoToken)
    /\ IF assertDashboardAccess(server.profile)
       THEN /\ applySession(server.next, server.profile, tab.isLoading)
            /\ path' = IF server.profile = "forced" THEN "/change-password" ELSE "/page"
       ELSE UNCHANGED <<tab, stored, path>>
    /\ form' = [form EXCEPT !.login = FALSE]
    /\ UNCHANGED <<refreshing, call, outside>>

LoginFails ==
    /\ form.login
    /\ form' = [form EXCEPT !.login = FALSE]
    /\ UNCHANGED <<server, tab, stored, refreshing, call, path, outside>>

Logout ==
    /\ isAuthenticated /\ path # "/login" /\ form.logout = NoToken
    /\ clearSession
    /\ form' = [form EXCEPT !.logout = stored.refresh]
    /\ path' = IF stored.refresh = NoToken THEN "/login" ELSE path
    /\ UNCHANGED <<server, refreshing, call, outside>>

\* The backend revokes the token, or the request fails; both go to the sign-in page.
LogoutAnswered ==
    /\ form.logout # NoToken
    /\ \/ server' = [server EXCEPT !.unspent = @ \ {form.logout}]
       \/ UNCHANGED server
    /\ form' = [form EXCEPT !.logout = NoToken]
    /\ path' = "/login"
    /\ UNCHANGED <<tab, stored, refreshing, call, outside>>

-----------------------------------------------------------------------------
(* The guards, and what happens around the tab.                            *)

\* Mutant: the guard asks for a session only.
RequireSession ==
    /\ ~tab.isLoading /\ isProtectedPath(path) /\ ~isAuthenticated
    /\ path' = "/login"
    /\ UNCHANGED <<server, tab, stored, refreshing, call, form, outside>>

RequireAuth ==
    /\ ~tab.isLoading /\ isProtectedPath(path)
    /\ \/ ~isAuthenticated /\ path' = "/login"
       \/ /\ isAuthenticated /\ tab.user = "forced" /\ path # "/change-password"
          /\ path' = "/change-password"
    /\ UNCHANGED <<server, tab, stored, refreshing, call, form, outside>>

GuestOnly ==
    /\ ~tab.isLoading /\ isAuthenticated /\ path = "/login"
    /\ path' = IF tab.user = "forced" THEN "/change-password" ELSE "/page"
    /\ UNCHANGED <<server, tab, stored, refreshing, call, form, outside>>

Navigate ==
    /\ isAuthenticated /\ path # "/login"
    /\ path' \in {"/page", "/change-password"} \ {path}
    /\ UNCHANGED <<server, tab, stored, refreshing, call, form, outside>>

\* One more event from outside; some refresh may be lost with it.
FromOutside(lost) ==
    /\ outside.count < MaxOutside
    /\ outside' = [count |-> outside.count + 1, lost |-> outside.lost \/ lost]

\* Memory is lost; a request on its way still reaches the backend.
Reload ==
    /\ FromOutside(\E r \in OwnCallers : refreshing[r].pc # "idle")
    /\ \E rotated \in {r \in OwnCallers : refreshing[r].pc = "refresh" /\ Accepts(refreshing[r])}
                      \union {"none"} :
         server' = IF rotated = "none" THEN server ELSE Issued(refreshing[rotated].token)
    /\ tab' = [SignedOut(tab) EXCEPT !.isLoading = TRUE]
    /\ refreshing' = [r \in Callers |-> IF r = "otherTab" THEN refreshing[r] ELSE NotWaiting]
    /\ call' = [c \in Calls |-> NoCall]
    /\ form' = [login |-> FALSE, logout |-> NoToken]
    /\ UNCHANGED <<stored, path>>

\* Another tab runs the same code on the localStorage they share.  It starts a
\* refresh, which goes on as RefreshMoves("otherTab") or is lost when it is closed.
OtherTabRefreshes ==
    /\ stored.refresh # NoToken /\ refreshing["otherTab"].pc = "idle"
    /\ FromOutside(FALSE) /\ SendRefresh("otherTab")
    /\ UNCHANGED <<server, tab, stored, call, form, path>>

OtherTabCloses ==
    /\ refreshing["otherTab"].pc # "idle"
    /\ outside' = [outside EXCEPT !.lost = TRUE]
    /\ \/ UNCHANGED server
       \/ /\ refreshing["otherTab"].pc = "refresh" /\ Accepts(refreshing["otherTab"])
          /\ server' = Issued(refreshing["otherTab"].token)
    /\ refreshing' = [refreshing EXCEPT !["otherTab"] = NotWaiting]
    /\ UNCHANGED <<tab, stored, call, form, path>>

\* Somebody signs in there, or out (and the request that revokes the token may fail).
OtherTabSigns ==
    /\ FromOutside(FALSE)
    /\ \/ /\ assertDashboardAccess(server.profile) /\ server.next <= MaxToken
          /\ server' = Issued(NoToken)
          /\ stored' = [refresh |-> server.next, user |-> server.profile]
       \/ /\ stored.refresh # NoToken
          /\ server' \in {server, [server EXCEPT !.unspent = @ \ {stored.refresh}]}
          /\ stored' = [refresh |-> NoToken, user |-> "none"]
    /\ UNCHANGED <<tab, refreshing, call, form, path>>

\* An administrator disables the account, or requires a new password; the first,
\* and a reset of the password, also revoke all refresh tokens there are, in a
\* second statement whose error is ignored.  Or their lifetime is over.
AccountChanges ==
    /\ FromOutside(FALSE)
    /\ \E w \in {server.withdrawn, server.next - 1} :
         \E p \in {server.profile} \union
                  IF server.profile \in {"admin", "forced"}
                  THEN {"admin", "forced", "disabled"} ELSE {} :
           server' = [server EXCEPT !.profile = p, !.withdrawn = w]
    /\ UNCHANGED <<tab, stored, refreshing, call, form, path>>

\* An administrator lets a disabled user in again.
UserReinstated ==
    /\ server.profile = "disabled"
    /\ \E p \in {"admin", "forced"} : server' = [server EXCEPT !.profile = p]
    /\ UNCHANGED <<tab, stored, refreshing, call, form, path, outside>>

RefreshMoves(r) == RefreshAccepted(r) \/ RefreshFails(r) \/ ProfileAnswers(r)
CallMoves(c) == CallRefused(c) \/ CallEnds(c)
LoginAnswered == LoginAccepted \/ LoginFails

SessionNext ==
    \/ LoadSession \/ TimerRefreshes
    \/ \E r \in Callers : RefreshMoves(r)
    \/ \E c \in Calls : CallStarts(c) \/ CallMoves(c)
    \/ PasswordChanged
    \/ LoginSubmitted \/ LoginAnswered \/ Logout \/ LogoutAnswered
    \/ RequireAuth \/ GuestOnly \/ Navigate
    \/ Reload \/ OtherTabRefreshes \/ OtherTabCloses \/ OtherTabSigns
    \/ AccountChanges \/ UserReinstated

\* Effects run and requests are answered or fail; nobody has to click.
SessionFairness ==
    /\ WF_sessionVars(LoadSession)
    /\ \A r \in OwnCallers : WF_sessionVars(RefreshMoves(r))
    /\ \A c \in Calls : WF_sessionVars(CallMoves(c))
    /\ WF_sessionVars(LoginAnswered) /\ WF_sessionVars(LogoutAnswered)
    /\ WF_sessionVars(RequireAuth) /\ WF_sessionVars(GuestOnly)

SessionSpec == SessionInit /\ [][SessionNext]_sessionVars /\ SessionFairness

-----------------------------------------------------------------------------
(* Properties                                                              *)

\* When no refresh is waiting, in this tab or the other, the refresh token in
\* localStorage is unspent, whatever order the answers of concurrent refreshes,
\* sign ins and sign outs were applied in: the backend refuses it only when an
\* administrator withdrew it, its lifetime is over or the user is not active.
\* Only a reload or a closed tab that dropped a refresh may leave a spent one.
QuietTokenUnspent ==
    (\A r \in Callers : refreshing[r].pc = "idle") =>
        stored.refresh \in server.unspent \union {NoToken} \/ outside.lost

\* A refusal refreshes the session at most once for a call: one whose retry is
\* refused too (a wrong current password is a 401 with any token) ends, and does
\* not go round with the refreshes.
RetriedAtMostOnce == \A c \in Calls : call[c].pc = "refreshing" => call[c].sends = 1

\* No call waits for ever: whatever becomes of the refresh it waits for, the
\* call is resumed and ends, so again and again none is waiting.
CallsEnd == []<>(\A c \in Calls : call[c].pc = "idle")

\* The guards settle: again and again the route shown is one the session may
\* see (sign-in when signed out, only the password page while it must change).
GuardsSettle ==
    []<>(/\ ~tab.isLoading
         /\ IF isAuthenticated
            THEN path # "/login" /\ (tab.user = "forced" => path = "/change-password")
            ELSE path = "/login")
=============================================================================
