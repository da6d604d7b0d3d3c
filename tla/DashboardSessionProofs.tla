------------------------ MODULE DashboardSessionProofs ------------------------
(***************************************************************************)
(* The session of a tab, for any number of token pairs, outside and calls. *)
(***************************************************************************)
EXTENDS DashboardSession, TLAPS

USE SessionBounds

-----------------------------------------------------------------------------
(* The inductive invariant.                                                *)

\* Every token anybody knows has been issued.
TokensIssued ==
    /\ server.unspent \subseteq 1..(server.next - 1)
    /\ stored.refresh < server.next /\ form.logout < server.next
    /\ \A r \in Callers : refreshing[r].token < server.next

\* A pair whose profile is being asked for is valid, and nobody else knows it yet,
\* so nobody else can have it rotated or revoked.
NewPairsUnshared ==
    \A r \in Callers : refreshing[r].pc = "me" =>
        /\ refreshing[r].token \in server.unspent
        /\ refreshing[r].token \notin {stored.refresh, form.logout}
        /\ \A q \in Callers \ {r} : refreshing[q].token # refreshing[r].token

\* What a sign out is about to revoke is not stored again.
StoredNotSignedOut == stored.refresh = NoToken \/ stored.refresh # form.logout

\* A token that was rotated stays stored only while some refresh will replace it.
StoredIsReplaced ==
    \/ stored.refresh \in server.unspent \union {NoToken}
    \/ outside.lost
    \/ \E r \in Callers : refreshing[r].pc = "me"

TokenInv == TokensIssued /\ NewPairsUnshared /\ StoredNotSignedOut /\ StoredIsReplaced

\* A call waits for the refresh made for it, and was sent once before it.
CallsCounted ==
    \A c \in Calls : /\ refreshing[c].pc # "idle" => call[c].pc = "refreshing"
                     /\ call[c].pc = "refreshing" => call[c].sends = 1
                     /\ call[c].pc = "sent" => call[c].sends >= 1

SessionInv == SessionTypeOK /\ TokenInv /\ CallsCounted

-----------------------------------------------------------------------------
(* Type correctness.                                                       *)

LEMMA SessionInitType == SessionInit => SessionTypeOK
  BY DEF SessionInit, SessionTypeOK, ServerRecord, NotWaiting, NoCall, NoToken, Tokens,
         Profiles, Paths

LEMMA IssuedTyped ==
    ASSUME SessionTypeOK, NEW t, server.next <= MaxToken
    PROVE  /\ Issued(t) \in ServerRecord
           /\ server.next \in Tokens
           /\ Issued(t).next = server.next + 1
           /\ Issued(t).unspent = (server.unspent \ {t}) \union {server.next}
<1>1. /\ server \in ServerRecord
      /\ server.unspent \in SUBSET Tokens /\ server.next \in 1..(MaxToken + 1)
  BY DEF SessionTypeOK, ServerRecord
<1>2. server.next \in Tokens /\ server.next + 1 \in 1..(MaxToken + 1)
  BY <1>1 DEF Tokens
<1>3. (server.unspent \ {t}) \union {server.next} \in SUBSET Tokens
  BY <1>1, <1>2
<1>. QED  BY <1>1, <1>2, <1>3 DEF Issued, ServerRecord

LEMMA ClearedTyped ==
    ASSUME SessionTypeOK, clearSession
    PROVE  /\ tab' \in [access : {NoToken} \union Tokens, refresh : {NoToken} \union Tokens,
                        user : Profiles \union {"none"}, isLoading : BOOLEAN]
           /\ stored' \in [refresh : {NoToken} \union Tokens, user : Profiles \union {"none"}]
  BY DEF SessionTypeOK, clearSession, SignedOut

LEMMA AppliedTyped ==
    ASSUME NEW t \in {NoToken} \union Tokens, NEW u \in Profiles, NEW l \in BOOLEAN,
           applySession(t, u, l)
    PROVE  /\ tab' \in [access : {NoToken} \union Tokens, refresh : {NoToken} \union Tokens,
                        user : Profiles \union {"none"}, isLoading : BOOLEAN]
           /\ stored' \in [refresh : {NoToken} \union Tokens, user : Profiles \union {"none"}]
  BY DEF applySession

LEMMA SendTyped ==
    ASSUME SessionTypeOK, NEW r \in Callers, SendRefresh(r)
    PROVE  refreshing' \in [Callers -> [pc : {"idle", "refresh", "me"},
                                        token : {NoToken} \union Tokens,
                                        user : Profiles \union {"none"}, seen : BOOLEAN]]
  BY DEF SessionTypeOK, SendRefresh, Usable

LEMMA ResumeTyped ==
    ASSUME SessionTypeOK, NEW r, NEW t \in {NoToken} \union Tokens, CallResumes(r, t)
    PROVE  call' \in [Calls -> [pc : {"idle", "sent", "refreshing"}, sends : Nat]]
  BY DEF SessionTypeOK, CallResumes, NoCall

LEMMA OutsideTyped ==
    ASSUME SessionTypeOK, NEW lost \in BOOLEAN, FromOutside(lost)
    PROVE  /\ outside' \in [count : 0..MaxOutside, lost : BOOLEAN]
           /\ outside'.lost = (outside.lost \/ lost)
  BY DEF SessionTypeOK, FromOutside

LEMMA ThrowsTyped ==
    ASSUME SessionTypeOK, NEW r \in Callers, RefreshThrows(r), UNCHANGED <<form, outside>>,
           server' \in ServerRecord
    PROVE  SessionTypeOK'
<1>1. call' \in [Calls -> [pc : {"idle", "sent", "refreshing"}, sends : Nat]]
  BY ResumeTyped DEF RefreshThrows
<1>2. refreshing' \in [Callers -> [pc : {"idle", "refresh", "me"},
                                   token : {NoToken} \union Tokens,
                                   user : Profiles \union {"none"}, seen : BOOLEAN]]
  BY DEF RefreshThrows, NotWaiting, SessionTypeOK
<1>3. /\ tab' \in [access : {NoToken} \union Tokens, refresh : {NoToken} \union Tokens,
                    user : Profiles \union {"none"}, isLoading : BOOLEAN]
      /\ path' \in Paths
  <2>1. CASE r = "otherTab"
    BY <2>1 DEF RefreshThrows, SessionTypeOK
  <2>2. CASE r # "otherTab"
    BY <2>2 DEF RefreshThrows, SignedOut, SessionTypeOK, Paths
  <2>. QED  BY <2>1, <2>2
<1>. QED  BY <1>1, <1>2, <1>3 DEF RefreshThrows, SessionTypeOK

LEMMA SessionTypeStep == SessionTypeOK /\ [SessionNext]_sessionVars => SessionTypeOK'
<1>. SUFFICES ASSUME SessionTypeOK, [SessionNext]_sessionVars PROVE SessionTypeOK'
  OBVIOUS
<1>1. CASE LoadSession
  <2>1. "load" \in Callers
    BY DEF Callers, OwnCallers
  <2>2. CASE stored.refresh = NoToken
    <3>1. UNCHANGED <<server, refreshing, call, form, path, outside>>
      BY <1>1, <2>2 DEF LoadSession
    <3>2. /\ stored' = [refresh |-> NoToken, user |-> "none"]
          /\ tab' = [SignedOut(tab) EXCEPT !.isLoading = FALSE]
      BY <1>1, <2>2 DEF LoadSession
    <3>. QED  BY <3>1, <3>2 DEF SessionTypeOK, SignedOut
  <2>3. CASE stored.refresh # NoToken
    <3>1. UNCHANGED <<server, stored, call, form, path, outside>> /\ SendRefresh("load")
      BY <1>1, <2>3 DEF LoadSession
    <3>2. tab' = [tab EXCEPT !.refresh = stored.refresh]
      BY <1>1, <2>3 DEF LoadSession
    <3>. QED  BY <2>1, <3>1, <3>2, SendTyped DEF SessionTypeOK
  <2>. QED  BY <2>2, <2>3
<1>2. CASE TimerRefreshes
  <2>1. "timer" \in Callers
    BY DEF Callers, OwnCallers
  <2>2. CASE stored.refresh = NoToken
    BY <1>2, <2>2, ClearedTyped DEF TimerRefreshes, SessionTypeOK
  <2>3. CASE stored.refresh # NoToken
    BY <1>2, <2>1, <2>3, SendTyped DEF TimerRefreshes, SessionTypeOK
  <2>. QED  BY <2>2, <2>3
<1>3. ASSUME NEW r \in Callers, RefreshAccepted(r) PROVE SessionTypeOK'
  BY <1>3, IssuedTyped DEF RefreshAccepted, Accepts, SessionTypeOK
<1>4. ASSUME NEW r \in Callers, RefreshFails(r) PROVE SessionTypeOK'
  <2>1. server' \in ServerRecord
    BY <1>4, IssuedTyped DEF RefreshFails, Accepts, SessionTypeOK
  <2>. QED  BY <1>4, <2>1, ThrowsTyped DEF RefreshFails
<1>5. ASSUME NEW r \in Callers, ProfileAnswers(r) PROVE SessionTypeOK'
  <2>1. PICK u \in {server.profile, refreshing[r].user} :
            IF assertDashboardAccess(u)
            THEN /\ IF r = "otherTab"
                    THEN /\ stored' = [refresh |-> refreshing[r].token, user |-> u]
                         /\ UNCHANGED tab
                    ELSE applySession(refreshing[r].token, u, tab.isLoading /\ r # "load")
                 /\ refreshing' = [refreshing EXCEPT ![r] = NotWaiting]
                 /\ CallResumes(r, refreshing[r].token)
                 /\ UNCHANGED path
            ELSE RefreshThrows(r)
    BY <1>5 DEF ProfileAnswers
  <2>2. UNCHANGED <<server, form, outside>>
    BY <1>5 DEF ProfileAnswers
  <2>3. CASE assertDashboardAccess(u)
    <3>1. refreshing[r].token \in {NoToken} \union Tokens
      BY DEF SessionTypeOK
    <3>2. call' \in [Calls -> [pc : {"idle", "sent", "refreshing"}, sends : Nat]]
      BY <2>1, <2>3, <3>1, ResumeTyped
    <3>3. u \in Profiles
      BY <2>3 DEF assertDashboardAccess, Profiles
    <3>4. (tab.isLoading /\ r # "load") \in BOOLEAN
      OBVIOUS
    <3>5. /\ tab' \in [access : {NoToken} \union Tokens, refresh : {NoToken} \union Tokens,
                       user : Profiles \union {"none"}, isLoading : BOOLEAN]
          /\ stored' \in [refresh : {NoToken} \union Tokens, user : Profiles \union {"none"}]
      <4>1. CASE r = "otherTab"
        BY <2>1, <2>3, <3>1, <3>3, <4>1 DEF SessionTypeOK
      <4>2. CASE r # "otherTab"
        BY <2>1, <2>3, <3>1, <3>3, <3>4, <4>2, AppliedTyped
      <4>. QED  BY <4>1, <4>2
    <3>6. refreshing' = [refreshing EXCEPT ![r] = NotWaiting] /\ UNCHANGED path
      BY <2>1, <2>3
    <3>. QED  BY <2>2, <3>2, <3>5, <3>6 DEF NotWaiting, SessionTypeOK
  <2>4. CASE ~assertDashboardAccess(u)
    BY <2>1, <2>2, <2>4, ThrowsTyped DEF SessionTypeOK
  <2>. QED  BY <2>3, <2>4
<1>6. ASSUME NEW c \in Calls, CallStarts(c) PROVE SessionTypeOK'
  BY <1>6 DEF CallStarts, SessionTypeOK
<1>7. ASSUME NEW c \in Calls, CallRefused(c) PROVE SessionTypeOK'
  <2>1. c \in Callers
    BY DEF Callers, OwnCallers
  <2>2. refreshing' \in [Callers -> [pc : {"idle", "refresh", "me"},
                                     token : {NoToken} \union Tokens,
                                     user : Profiles \union {"none"}, seen : BOOLEAN]]
    BY <1>7, <2>1, SendTyped DEF CallRefused, SessionTypeOK
  <2>3. UNCHANGED <<tab, stored, path>> \/ handleSessionExpired
    BY <1>7 DEF CallRefused
  <2>4. /\ tab' \in [access : {NoToken} \union Tokens, refresh : {NoToken} \union Tokens,
                     user : Profiles \union {"none"}, isLoading : BOOLEAN]
        /\ stored' \in [refresh : {NoToken} \union Tokens, user : Profiles \union {"none"}]
        /\ path' \in Paths
    BY <2>3, ClearedTyped DEF handleSessionExpired, SessionTypeOK, Paths
  <2>5. call' \in [Calls -> [pc : {"idle", "sent", "refreshing"}, sends : Nat]]
    BY <1>7 DEF CallRefused, SessionTypeOK, NoCall
  <2>. QED  BY <1>7, <2>2, <2>4, <2>5 DEF CallRefused, SessionTypeOK
<1>8. ASSUME NEW c \in Calls, CallEnds(c) PROVE SessionTypeOK'
  <2>1. /\ call' = [call EXCEPT ![c] = NoCall]
        /\ UNCHANGED <<server, tab, stored, refreshing, form, path, outside>>
    BY <1>8 DEF CallEnds
  <2>2. call' \in [Calls -> [pc : {"idle", "sent", "refreshing"}, sends : Nat]]
    BY <2>1 DEF SessionTypeOK, NoCall
  <2>. QED  BY <2>1, <2>2 DEF SessionTypeOK
<1>9. CASE PasswordChanged
  <2>. DEFINE u == IF server.profile = "forced" THEN "admin" ELSE server.profile
  <2>1. u \in Profiles
    BY DEF SessionTypeOK, ServerRecord, Profiles
  <2>2. /\ server' = [server EXCEPT !.profile = u]
        /\ IF ~assertDashboardAccess(u)
           THEN UNCHANGED <<tab, stored, path>>
           ELSE /\ IF stored.refresh = NoToken
                   THEN clearSession
                   ELSE /\ tab' = [tab EXCEPT !.user = u]
                        /\ stored' = [stored EXCEPT !.user = u]
                /\ path' = "/page"
        /\ call' = [call EXCEPT !["password"] = NoCall]
        /\ UNCHANGED <<refreshing, form, outside>>
    BY <1>9 DEF PasswordChanged
  <2>. HIDE DEF u
  <2>3. /\ tab' \in [access : {NoToken} \union Tokens, refresh : {NoToken} \union Tokens,
                     user : Profiles \union {"none"}, isLoading : BOOLEAN]
        /\ stored' \in [refresh : {NoToken} \union Tokens, user : Profiles \union {"none"}]
        /\ path' \in Paths
    <3>1. CASE UNCHANGED <<tab, stored, path>>
      BY <3>1 DEF SessionTypeOK
    <3>2. CASE clearSession /\ path' = "/page"
      BY <3>2, ClearedTyped DEF Paths
    <3>3. CASE /\ tab' = [tab EXCEPT !.user = u] /\ stored' = [stored EXCEPT !.user = u]
               /\ path' = "/page"
      BY <2>1, <3>3 DEF SessionTypeOK, Paths
    <3>. QED  BY <2>2, <3>1, <3>2, <3>3
  <2>4. server' \in ServerRecord
    BY <2>1, <2>2 DEF SessionTypeOK, ServerRecord
  <2>. QED  BY <2>2, <2>3, <2>4 DEF SessionTypeOK, NoCall
<1>10. CASE LoginSubmitted
  BY <1>10 DEF LoginSubmitted, SessionTypeOK
<1>11. CASE LoginAccepted
  <2>1. server.next \in Tokens /\ tab.isLoading \in BOOLEAN
    BY <1>11, IssuedTyped DEF LoginAccepted, SessionTypeOK
  <2>2. server' \in ServerRecord
    BY <1>11, IssuedTyped DEF LoginAccepted
  <2>3. /\ tab' \in [access : {NoToken} \union Tokens, refresh : {NoToken} \union Tokens,
                     user : Profiles \union {"none"}, isLoading : BOOLEAN]
        /\ stored' \in [refresh : {NoToken} \union Tokens, user : Profiles \union {"none"}]
    <3>1. CASE assertDashboardAccess(server.profile)
      <4>1. applySession(server.next, server.profile, tab.isLoading)
        BY <1>11, <3>1 DEF LoginAccepted
      <4>2. server.profile \in Profiles
        BY DEF SessionTypeOK, ServerRecord
      <4>. QED  BY <2>1, <4>1, <4>2, AppliedTyped
    <3>2. CASE ~assertDashboardAccess(server.profile)
      BY <1>11, <3>2 DEF LoginAccepted, SessionTypeOK
    <3>. QED  BY <3>1, <3>2
  <2>4. path' \in Paths
    BY <1>11 DEF LoginAccepted, SessionTypeOK, Paths
  <2>. QED  BY <1>11, <2>2, <2>3, <2>4 DEF LoginAccepted, SessionTypeOK
<1>12. CASE LoginFails
  BY <1>12 DEF LoginFails, SessionTypeOK
<1>13. CASE Logout
  BY <1>13, ClearedTyped DEF Logout, SessionTypeOK, Paths
<1>14. CASE LogoutAnswered
  BY <1>14 DEF LogoutAnswered, SessionTypeOK, ServerRecord, Paths
<1>15. CASE RequireAuth \/ GuestOnly \/ Navigate
  BY <1>15 DEF RequireAuth, GuestOnly, Navigate, SessionTypeOK, Paths
<1>16. CASE Reload
  <2>1. server' \in ServerRecord
    BY <1>16, IssuedTyped DEF Reload, Accepts, SessionTypeOK
  <2>2. outside' \in [count : 0..MaxOutside, lost : BOOLEAN]
    <3>1. (\E r \in OwnCallers : refreshing[r].pc # "idle") \in BOOLEAN
      OBVIOUS
    <3>. QED  BY <1>16, <3>1, OutsideTyped DEF Reload
  <2>. QED  BY <1>16, <2>1, <2>2 DEF Reload, SessionTypeOK, SignedOut, NotWaiting, NoCall
<1>17. CASE OtherTabRefreshes
  <2>1. "otherTab" \in Callers
    BY DEF Callers
  <2>. QED  BY <1>17, <2>1, SendTyped, OutsideTyped DEF OtherTabRefreshes, SessionTypeOK
<1>18. CASE OtherTabCloses
  <2>1. server' \in ServerRecord
    BY <1>18, IssuedTyped DEF OtherTabCloses, Accepts, SessionTypeOK
  <2>. QED  BY <1>18, <2>1 DEF OtherTabCloses, SessionTypeOK, NotWaiting
<1>20. CASE OtherTabSigns
  <2>1. server' \in ServerRecord
    BY <1>20, IssuedTyped DEF OtherTabSigns, SessionTypeOK, ServerRecord
  <2>2. stored' \in [refresh : {NoToken} \union Tokens, user : Profiles \union {"none"}]
    BY <1>20, IssuedTyped DEF OtherTabSigns, SessionTypeOK, ServerRecord
  <2>. QED  BY <1>20, <2>1, <2>2, OutsideTyped DEF OtherTabSigns, SessionTypeOK
<1>21. CASE AccountChanges \/ UserReinstated
  <2>1. server.next \in 1..(MaxToken + 1) /\ server \in ServerRecord
    BY DEF SessionTypeOK, ServerRecord
  <2>2. server.next - 1 \in {NoToken} \union Tokens
    BY <2>1 DEF Tokens, NoToken
  <2>3. {"admin", "forced", "disabled"} \subseteq Profiles
    BY DEF Profiles
  <2>4. server' \in ServerRecord
    BY <1>21, <2>1, <2>2, <2>3 DEF AccountChanges, UserReinstated, ServerRecord
  <2>5. outside' \in [count : 0..MaxOutside, lost : BOOLEAN]
    BY <1>21, OutsideTyped DEF AccountChanges, UserReinstated, SessionTypeOK
  <2>. QED  BY <1>21, <2>4, <2>5 DEF AccountChanges, UserReinstated, SessionTypeOK
<1>19. CASE UNCHANGED sessionVars
  BY <1>19 DEF sessionVars, SessionTypeOK
<1>. QED  BY <1>1, <1>2, <1>3, <1>4, <1>5, <1>6, <1>7, <1>8, <1>9, <1>10, <1>11, <1>12, <1>13,
            <1>14, <1>15, <1>16, <1>17, <1>18, <1>19, <1>20, <1>21
          DEF SessionNext, RefreshMoves, CallMoves, LoginAnswered

-----------------------------------------------------------------------------
(* Tokens.                                                                 *)

LEMMA TypeFacts ==
    ASSUME SessionTypeOK
    PROVE  /\ server.next \in Nat \ {0} /\ server.unspent \subseteq Nat \ {0}
           /\ stored.refresh \in Nat /\ form.logout \in Nat
           /\ \A r \in Callers : refreshing[r].token \in Nat
  BY DEF SessionTypeOK, ServerRecord, Tokens, NoToken

LEMMA InitTokens == SessionInit => TokenInv
  BY DEF SessionInit, TokenInv, TokensIssued, NewPairsUnshared, StoredNotSignedOut,
         StoredIsReplaced, NotWaiting, NoToken

\* Nothing is lost when localStorage is cleared, or kept, and some refreshes end.
LEMMA Forgotten ==
    ASSUME SessionTypeOK, TokenInv,
           server'.unspent = server.unspent, server'.next = server.next,
           stored'.refresh \in {NoToken, stored.refresh},
           form'.logout \in {NoToken, form.logout},
           \A r \in Callers : refreshing'[r] \in {refreshing[r], NotWaiting},
           \/ stored'.refresh = NoToken
           \/ outside'.lost
           \/ /\ outside.lost => outside'.lost
              /\ \A r \in Callers : refreshing[r].pc = "me" => refreshing'[r] = refreshing[r]
    PROVE  TokenInv'
<1>. USE TypeFacts DEF TokenInv
<1>1. TokensIssued'
  BY DEF TokensIssued, NotWaiting, NoToken
<1>2. NewPairsUnshared'
  BY DEF NewPairsUnshared, TokensIssued, NotWaiting, NoToken
<1>3. StoredNotSignedOut'
  BY DEF StoredNotSignedOut, NoToken
<1>4. StoredIsReplaced'
  BY DEF StoredIsReplaced, NoToken
<1>. QED  BY <1>1, <1>2, <1>3, <1>4

\* A refresh that is sent carries the token that is stored.
LEMMA Sent ==
    ASSUME SessionTypeOK, TokenInv, NEW r \in Callers, SendRefresh(r),
           refreshing[r].pc = "idle", UNCHANGED <<server, stored, form>>,
           outside.lost => outside'.lost
    PROVE  TokenInv'
<1>1. /\ refreshing'[r] = [pc |-> "refresh", token |-> stored.refresh, user |-> "none",
                           seen |-> Usable(stored.refresh)]
      /\ \A q \in Callers \ {r} : refreshing'[q] = refreshing[q]
  BY DEF SendRefresh, SessionTypeOK
<1>. USE DEF TokenInv
<1>2. TokensIssued'
  BY <1>1 DEF TokensIssued
<1>3. NewPairsUnshared'
  BY <1>1 DEF NewPairsUnshared
<1>4. StoredNotSignedOut' /\ StoredIsReplaced'
  BY <1>1 DEF StoredNotSignedOut, StoredIsReplaced
<1>. QED  BY <1>2, <1>3, <1>4

\* A pair is issued for a token that belongs to no refresh that has its answer, and
\* the pair is stored, or kept by the refresh r, or nobody learns of it; in that case
\* the token is not stored any more.
LEMMA PairIssued ==
    ASSUME SessionTypeOK, TokenInv, server.next <= MaxToken, NEW t, server' = Issued(t),
           \A q \in Callers : refreshing[q].pc = "me" => refreshing[q].token # t,
           stored'.refresh \in {NoToken, stored.refresh, server.next},
           form'.logout \in {NoToken, form.logout},
           \A q \in Callers : refreshing'[q] \in {refreshing[q], NotWaiting},
           \/ stored'.refresh \in {NoToken, server.next}
           \/ outside'.lost
           \/ t = NoToken /\ outside' = outside /\ \A q \in Callers : refreshing'[q] = refreshing[q]
    PROVE  TokenInv'
<1>1. /\ server'.next = server.next + 1
      /\ server'.unspent = (server.unspent \ {t}) \union {server.next}
  BY IssuedTyped
<1>. USE TypeFacts DEF TokenInv
<1>2. TokensIssued'
  BY <1>1 DEF TokensIssued, NotWaiting, NoToken
<1>3. NewPairsUnshared'
  BY <1>1 DEF NewPairsUnshared, TokensIssued, NotWaiting, NoToken
<1>4. StoredNotSignedOut'
  BY DEF StoredNotSignedOut, TokensIssued, NoToken
<1>5. StoredIsReplaced'
  BY <1>1 DEF StoredIsReplaced, NoToken
<1>. QED  BY <1>2, <1>3, <1>4, <1>5

LEMMA AcceptedTokens ==
    ASSUME SessionTypeOK, TokenInv, NEW r \in Callers, RefreshAccepted(r)
    PROVE  TokenInv'
<1>1. /\ server'.next = server.next + 1
      /\ server'.unspent = (server.unspent \ {refreshing[r].token}) \union {server.next}
  BY IssuedTyped DEF RefreshAccepted, Accepts
<1>2. /\ refreshing'[r] = [pc |-> "me", token |-> server.next, user |-> stored.user, seen |-> FALSE]
      /\ \A q \in Callers \ {r} : refreshing'[q] = refreshing[q]
      /\ refreshing[r].pc = "refresh"
      /\ UNCHANGED <<stored, form, outside>>
  BY DEF RefreshAccepted, SessionTypeOK
<1>. USE TypeFacts DEF TokenInv
<1>3. TokensIssued'
  BY <1>1, <1>2 DEF TokensIssued
<1>4. NewPairsUnshared'
  <2>1. ASSUME NEW q \in Callers, q # r, refreshing[q].pc = "me"
        PROVE  /\ refreshing[q].token \in server'.unspent
               /\ refreshing[q].token \notin {stored.refresh, form.logout}
               /\ \A s \in Callers \ {q} : refreshing'[s].token # refreshing[q].token
    BY <1>1, <1>2, <2>1 DEF NewPairsUnshared, TokensIssued
  <2>2. /\ server.next \in server'.unspent
        /\ server.next \notin {stored.refresh, form.logout}
        /\ \A s \in Callers \ {r} : refreshing'[s].token # server.next
    BY <1>1, <1>2 DEF TokensIssued
  <2>. QED  BY <1>2, <2>1, <2>2 DEF NewPairsUnshared
<1>5. StoredNotSignedOut' /\ StoredIsReplaced'
  BY <1>2 DEF StoredNotSignedOut, StoredIsReplaced
<1>. QED  BY <1>3, <1>4, <1>5

\* What is stored is the pair that r, and nobody else, was about to store.
LEMMA StoredByRefresh ==
    ASSUME SessionTypeOK, TokenInv, NEW r \in Callers, refreshing[r].pc = "me",
           stored'.refresh = refreshing[r].token,
           refreshing' = [refreshing EXCEPT ![r] = NotWaiting], UNCHANGED <<server, form>>
    PROVE  TokenInv'
<1>1. refreshing'[r] = NotWaiting /\ \A q \in Callers \ {r} : refreshing'[q] = refreshing[q]
  BY DEF SessionTypeOK
<1>. USE TypeFacts DEF TokenInv
<1>2. TokensIssued'
  BY <1>1 DEF TokensIssued, NotWaiting, NoToken
<1>3. NewPairsUnshared'
  BY <1>1 DEF NewPairsUnshared, TokensIssued, NotWaiting, NoToken
<1>4. StoredNotSignedOut' /\ StoredIsReplaced'
  BY DEF StoredNotSignedOut, StoredIsReplaced, NewPairsUnshared
<1>. QED  BY <1>2, <1>3, <1>4

\* The token that is revoked is the one somebody signed out with.
LEMMA Revoked ==
    ASSUME SessionTypeOK, TokenInv,
           server'.next = server.next, server'.unspent = server.unspent \ {form.logout},
           form'.logout = NoToken, UNCHANGED <<stored, refreshing, outside>>
    PROVE  TokenInv'
<1>. USE TypeFacts DEF TokenInv
<1>1. TokensIssued'
  BY DEF TokensIssued, NoToken
<1>2. NewPairsUnshared'
  BY DEF NewPairsUnshared, TokensIssued, NoToken
<1>3. StoredNotSignedOut' /\ StoredIsReplaced'
  BY DEF StoredNotSignedOut, StoredIsReplaced, NoToken
<1>. QED  BY <1>1, <1>2, <1>3

\* When refreshSession throws, localStorage is cleared and no pair is issued.
LEMMA Throws ==
    ASSUME SessionTypeOK, TokenInv, NEW r \in Callers, RefreshThrows(r),
           UNCHANGED <<server, form, outside>>
    PROVE  TokenInv'
<1>1. \A q \in Callers : refreshing'[q] \in {refreshing[q], NotWaiting}
  BY DEF RefreshThrows, SessionTypeOK
<1>2. stored'.refresh = NoToken
  BY DEF RefreshThrows
<1>. QED  BY <1>1, <1>2, Forgotten

LEMMA TokenStep == SessionInv /\ [SessionNext]_sessionVars => TokenInv'
<1>. SUFFICES ASSUME SessionInv, [SessionNext]_sessionVars PROVE TokenInv'
  OBVIOUS
<1>. USE DEF SessionInv
<1>0. /\ Calls \subseteq Callers /\ {"load", "timer"} \subseteq Callers
      /\ \A c \in Calls : call[c].pc = "sent" => refreshing[c].pc = "idle"
      /\ stored.refresh # NoToken => \A q \in Callers : refreshing[q].pc = "me" =>
                                        refreshing[q].token # stored.refresh
      /\ \A q \in Callers : refreshing[q].pc = "me" => refreshing[q].token # NoToken
  BY TypeFacts DEF Callers, OwnCallers, CallsCounted, TokenInv, NewPairsUnshared, NoToken
<1>1. CASE LoadSession
  <2>1. CASE stored.refresh = NoToken
    BY <1>1, <2>1, Forgotten DEF LoadSession
  <2>2. CASE stored.refresh # NoToken
    BY <1>0, <1>1, <2>2, Sent DEF LoadSession
  <2>. QED  BY <2>1, <2>2
<1>2. CASE TimerRefreshes
  <2>1. CASE stored.refresh = NoToken
    BY <1>2, <2>1, Forgotten DEF TimerRefreshes, clearSession
  <2>2. CASE stored.refresh # NoToken
    BY <1>0, <1>2, <2>2, Sent DEF TimerRefreshes
  <2>. QED  BY <2>1, <2>2
<1>3. ASSUME NEW r \in Callers, RefreshAccepted(r) PROVE TokenInv'
  BY <1>3, AcceptedTokens
<1>4. ASSUME NEW r \in Callers, RefreshFails(r) PROVE TokenInv'
  <2>1. CASE UNCHANGED server
    BY <1>4, <2>1, Throws DEF RefreshFails
  <2>2. CASE Accepts(refreshing[r]) /\ server' = Issued(refreshing[r].token)
    <3>1. /\ server.next <= MaxToken
          /\ stored'.refresh = NoToken /\ form' = form
          /\ \A q \in Callers : refreshing'[q] \in {refreshing[q], NotWaiting}
      BY <1>4, <2>2 DEF RefreshFails, RefreshThrows, Accepts, SessionTypeOK
    <3>2. \A q \in Callers : refreshing[q].pc = "me" => refreshing[q].token # refreshing[r].token
      BY <1>4 DEF RefreshFails, TokenInv, NewPairsUnshared
    <3>. QED  BY <2>2, <3>1, <3>2, PairIssued
  <2>. QED  BY <1>4, <2>1, <2>2 DEF RefreshFails
<1>5. ASSUME NEW r \in Callers, ProfileAnswers(r) PROVE TokenInv'
  <2>1. \/ RefreshThrows(r)
        \/ /\ stored'.refresh = refreshing[r].token
           /\ refreshing' = [refreshing EXCEPT ![r] = NotWaiting]
    BY <1>5 DEF ProfileAnswers, applySession
  <2>2. refreshing[r].pc = "me" /\ UNCHANGED <<server, form, outside>>
    BY <1>5 DEF ProfileAnswers
  <2>. QED  BY <2>1, <2>2, Throws, StoredByRefresh
<1>6. ASSUME NEW c \in Calls, CallStarts(c) \/ CallEnds(c) PROVE TokenInv'
  BY <1>6, Forgotten DEF CallStarts, CallEnds
<1>7. ASSUME NEW c \in Calls, CallRefused(c) PROVE TokenInv'
  <2>1. UNCHANGED <<server, form, outside>> /\ refreshing[c].pc = "idle"
    BY <1>0, <1>7 DEF CallRefused
  <2>2. CASE SendRefresh(c) /\ UNCHANGED <<tab, stored, path>>
    BY <1>0, <2>1, <2>2, Sent
  <2>3. CASE UNCHANGED refreshing /\ stored'.refresh = NoToken
    BY <2>1, <2>3, Forgotten
  <2>4. CASE UNCHANGED refreshing /\ UNCHANGED stored
    BY <2>1, <2>4, Forgotten
  <2>. QED  BY <1>7, <2>2, <2>3, <2>4 DEF CallRefused, handleSessionExpired, clearSession
<1>8. CASE PasswordChanged
  <2>1. server'.unspent = server.unspent /\ server'.next = server.next
    BY <1>8 DEF PasswordChanged, SessionTypeOK
  <2>2. stored'.refresh \in {NoToken, stored.refresh}
    BY <1>8 DEF PasswordChanged, clearSession, SessionTypeOK
  <2>3. UNCHANGED <<refreshing, form, outside>>
    BY <1>8 DEF PasswordChanged
  <2>. QED  BY <2>1, <2>2, <2>3, Forgotten
<1>9. CASE LoginSubmitted \/ LoginFails
  <2>1. form'.logout = form.logout /\ UNCHANGED <<server, stored, refreshing, outside>>
    BY <1>9 DEF LoginSubmitted, LoginFails, SessionTypeOK
  <2>. QED  BY <2>1, Forgotten
<1>10. CASE LoginAccepted
  <2>1. /\ server.next <= MaxToken /\ server' = Issued(NoToken)
        /\ stored'.refresh \in {stored.refresh, server.next}
        /\ form'.logout = form.logout /\ UNCHANGED <<refreshing, outside>>
    BY <1>10 DEF LoginAccepted, applySession, SessionTypeOK
  <2>. QED  BY <1>0, <2>1, PairIssued
<1>11. CASE Logout
  <2>1. /\ form'.logout = stored.refresh /\ stored'.refresh = NoToken
        /\ UNCHANGED <<server, refreshing, outside>>
    BY <1>11 DEF Logout, clearSession, SessionTypeOK
  <2>2. TokensIssued' /\ NewPairsUnshared'
    BY <1>0, <2>1, TypeFacts DEF TokenInv, TokensIssued, NewPairsUnshared, NoToken
  <2>3. StoredNotSignedOut' /\ StoredIsReplaced'
    BY <2>1 DEF StoredNotSignedOut, StoredIsReplaced
  <2>. QED  BY <2>2, <2>3 DEF TokenInv
<1>12. CASE LogoutAnswered
  <2>1. form'.logout = NoToken /\ UNCHANGED <<stored, refreshing, outside>>
    BY <1>12 DEF LogoutAnswered, SessionTypeOK
  <2>2. CASE server' = [server EXCEPT !.unspent = @ \ {form.logout}]
    <3>1. server'.next = server.next /\ server'.unspent = server.unspent \ {form.logout}
      BY <2>2 DEF SessionTypeOK
    <3>. QED  BY <2>1, <3>1, Revoked
  <2>3. CASE UNCHANGED server
    BY <2>1, <2>3, Forgotten
  <2>. QED  BY <1>12, <2>2, <2>3 DEF LogoutAnswered
<1>13. CASE RequireAuth \/ GuestOnly \/ Navigate \/ UNCHANGED sessionVars
  BY <1>13, Forgotten DEF RequireAuth, GuestOnly, Navigate, sessionVars
<1>14. CASE Reload
  <2>1. /\ UNCHANGED stored /\ form'.logout = NoToken
        /\ \A q \in Callers : refreshing'[q] = IF q = "otherTab" THEN refreshing[q] ELSE NotWaiting
    BY <1>14 DEF Reload
  <2>2. outside'.lost = (outside.lost \/ \E q \in OwnCallers : refreshing[q].pc # "idle")
    BY <1>14, OutsideTyped DEF Reload
  <2>3. PICK rotated \in {q \in OwnCallers : refreshing[q].pc = "refresh" /\ Accepts(refreshing[q])}
                        \union {"none"} :
            server' = IF rotated = "none" THEN server ELSE Issued(refreshing[rotated].token)
    BY <1>14 DEF Reload
  <2>4. CASE server' = server
    <3>1. outside'.lost \/ \A q \in Callers : refreshing[q].pc = "me" => q = "otherTab"
      BY <2>2 DEF Callers
    <3>2. \/ outside'.lost
          \/ /\ outside.lost => outside'.lost
             /\ \A q \in Callers : refreshing[q].pc = "me" => refreshing'[q] = refreshing[q]
      BY <2>1, <2>2, <3>1
    <3>3. \A q \in Callers : refreshing'[q] \in {refreshing[q], NotWaiting}
      BY <2>1
    <3>. QED  BY <2>1, <2>4, <3>2, <3>3, Forgotten
  <2>5. CASE rotated # "none"
    <3>1. /\ rotated \in OwnCallers /\ refreshing[rotated].pc = "refresh"
          /\ server.next <= MaxToken /\ server' = Issued(refreshing[rotated].token)
      BY <2>3, <2>5 DEF Accepts
    <3>2. outside'.lost
      BY <2>2, <3>1
    <3>3. \A q \in Callers : refreshing[q].pc = "me" => refreshing[q].token # refreshing[rotated].token
      BY <3>1 DEF TokenInv, NewPairsUnshared, Callers
    <3>4. \A q \in Callers : refreshing'[q] \in {refreshing[q], NotWaiting}
      BY <2>1
    <3>. QED  BY <2>1, <3>1, <3>2, <3>3, <3>4, PairIssued
  <2>. QED  BY <2>3, <2>4, <2>5
<1>15. CASE OtherTabRefreshes
  <2>1. outside.lost => outside'.lost
    BY <1>15, OutsideTyped DEF OtherTabRefreshes
  <2>2. "otherTab" \in Callers
    BY DEF Callers
  <2>. QED  BY <1>15, <2>1, <2>2, Sent DEF OtherTabRefreshes
<1>16. CASE OtherTabCloses
  <2>1. /\ outside'.lost /\ UNCHANGED <<stored, form>> /\ "otherTab" \in Callers
        /\ \A q \in Callers : refreshing'[q] \in {refreshing[q], NotWaiting}
    BY <1>16 DEF OtherTabCloses, SessionTypeOK, Callers
  <2>2. CASE UNCHANGED server
    BY <2>1, <2>2, Forgotten
  <2>3. CASE /\ refreshing["otherTab"].pc = "refresh" /\ Accepts(refreshing["otherTab"])
             /\ server' = Issued(refreshing["otherTab"].token)
    <3>1. \A q \in Callers : refreshing[q].pc = "me" =>
                               refreshing[q].token # refreshing["otherTab"].token
      BY <2>1, <2>3 DEF TokenInv, NewPairsUnshared
    <3>2. server.next <= MaxToken
      BY <2>3 DEF Accepts
    <3>. QED  BY <2>1, <2>3, <3>1, <3>2, PairIssued
  <2>. QED  BY <1>16, <2>2, <2>3 DEF OtherTabCloses
<1>17. CASE OtherTabSigns
  <2>1. UNCHANGED <<tab, refreshing, call, form, path>> /\ outside'.lost = outside.lost
    BY <1>17, OutsideTyped DEF OtherTabSigns, SessionTypeOK
  <2>2. CASE /\ server.next <= MaxToken /\ server' = Issued(NoToken)
             /\ stored' = [refresh |-> server.next, user |-> server.profile]
    BY <1>0, <2>1, <2>2, PairIssued
  <2>3. CASE /\ stored.refresh # NoToken /\ server' = [server EXCEPT !.unspent = @ \ {stored.refresh}]
             /\ stored' = [refresh |-> NoToken, user |-> "none"]
    <3>1. stored'.refresh = NoToken
      BY <2>3
    <3>2. /\ form'.logout = form.logout /\ UNCHANGED refreshing
          /\ server'.next = server.next /\ server'.unspent = server.unspent \ {stored.refresh}
      BY <2>1, <2>3 DEF SessionTypeOK, ServerRecord
    <3>3. TokensIssued'
      BY <3>1, <3>2, TypeFacts DEF TokenInv, TokensIssued, NoToken
    <3>4. NewPairsUnshared'
      BY <1>0, <2>3, <3>1, <3>2, TypeFacts DEF TokenInv, NewPairsUnshared, NoToken
    <3>5. StoredNotSignedOut' /\ StoredIsReplaced'
      BY <3>1 DEF StoredNotSignedOut, StoredIsReplaced
    <3>. QED  BY <3>3, <3>4, <3>5 DEF TokenInv
  <2>4. CASE server' = server /\ stored' = [refresh |-> NoToken, user |-> "none"]
    BY <2>1, <2>4, Forgotten
  <2>. QED  BY <1>17, <2>2, <2>3, <2>4 DEF OtherTabSigns
<1>18. CASE AccountChanges \/ UserReinstated
  <2>1. server'.unspent = server.unspent /\ server'.next = server.next
    BY <1>18 DEF AccountChanges, UserReinstated, SessionTypeOK, ServerRecord
  <2>2. UNCHANGED <<stored, refreshing, form>> /\ (outside.lost => outside'.lost)
    BY <1>18, OutsideTyped DEF AccountChanges, UserReinstated
  <2>. QED  BY <2>1, <2>2, Forgotten
<1>. QED  BY <1>1, <1>2, <1>3, <1>4, <1>5, <1>6, <1>7, <1>8, <1>9, <1>10, <1>11, <1>12, <1>13,
            <1>14, <1>15, <1>16, <1>17, <1>18
          DEF SessionNext, RefreshMoves, CallMoves, LoginAnswered

-----------------------------------------------------------------------------
(* Calls.                                                                  *)

LEMMA InitCalls == SessionInit => CallsCounted
  BY DEF SessionInit, CallsCounted, NotWaiting, NoCall, Calls, Callers, OwnCallers

\* Calls that rest while no refresh is made for them stay counted.
LEMMA CallsRest ==
    ASSUME SessionTypeOK, CallsCounted,
           call' = call,
           \A c \in Calls : refreshing[c].pc = "idle" => refreshing'[c].pc = "idle"
    PROVE  CallsCounted'
  BY DEF CallsCounted

\* A call is resumed when its refresh has ended.
LEMMA CallsResumed ==
    ASSUME SessionTypeOK, CallsCounted, NEW r \in Callers, NEW t \in Nat, CallResumes(r, t),
           refreshing[r].pc # "idle", refreshing' = [refreshing EXCEPT ![r] = NotWaiting]
    PROVE  CallsCounted'
<1>1. /\ refreshing'[r] = NotWaiting
      /\ \A q \in Callers \ {r} : refreshing'[q] = refreshing[q]
      /\ Calls \subseteq Callers
  BY DEF SessionTypeOK, Callers, OwnCallers
<1>2. \A c \in Calls \ {r} : call'[c] = call[c]
  BY DEF CallResumes, SessionTypeOK
<1>3. ASSUME r \in Calls
      PROVE  \/ call'[r] = NoCall
             \/ call'[r].pc = "sent" /\ call'[r].sends = 2
  BY <1>3 DEF CallResumes, CallsCounted, SessionTypeOK
<1>. QED  BY <1>1, <1>2, <1>3 DEF CallsCounted, NotWaiting, NoCall

LEMMA CallsStep == SessionInv /\ [SessionNext]_sessionVars => CallsCounted'
<1>. SUFFICES ASSUME SessionInv, [SessionNext]_sessionVars PROVE CallsCounted'
  OBVIOUS
<1>. USE DEF SessionInv
<1>0. Calls \subseteq Callers /\ "load" \notin Calls /\ "timer" \notin Calls
  BY DEF Callers, OwnCallers, Calls
<1>1. CASE LoadSession
  <2>1. call' = call /\ \A c \in Calls : refreshing'[c] = refreshing[c]
    BY <1>0, <1>1 DEF LoadSession, SendRefresh, SessionTypeOK
  <2>. QED  BY <2>1, CallsRest
<1>2. CASE TimerRefreshes
  <2>1. call' = call /\ \A c \in Calls : refreshing'[c] = refreshing[c]
    BY <1>0, <1>2 DEF TimerRefreshes, SendRefresh, SessionTypeOK
  <2>. QED  BY <2>1, CallsRest
<1>3. ASSUME NEW r \in Callers, RefreshAccepted(r) PROVE CallsCounted'
  <2>1. /\ call' = call /\ refreshing[r].pc = "refresh"
        /\ \A c \in Callers \ {r} : refreshing'[c] = refreshing[c]
    BY <1>3 DEF RefreshAccepted, SessionTypeOK
  <2>. QED  BY <1>0, <2>1, CallsRest
<1>4. ASSUME NEW r \in Callers, RefreshFails(r) PROVE CallsCounted'
  BY <1>4, CallsResumed DEF RefreshFails, RefreshThrows, NoToken
<1>5. ASSUME NEW r \in Callers, ProfileAnswers(r) PROVE CallsCounted'
  <2>1. /\ refreshing[r].pc = "me"
        /\ refreshing' = [refreshing EXCEPT ![r] = NotWaiting]
        /\ \E t \in {NoToken, refreshing[r].token} : CallResumes(r, t)
    BY <1>5 DEF ProfileAnswers, RefreshThrows
  <2>2. {NoToken, refreshing[r].token} \subseteq Nat
    BY TypeFacts DEF NoToken
  <2>. QED  BY <2>1, <2>2, CallsResumed
<1>6. ASSUME NEW c \in Calls, CallStarts(c) PROVE CallsCounted'
  BY <1>6 DEF CallStarts, CallsCounted, SessionTypeOK
<1>7. ASSUME NEW c \in Calls, CallRefused(c) PROVE CallsCounted'
  <2>1. CASE call' = [call EXCEPT ![c] = NoCall] /\ UNCHANGED refreshing
    <3>1. call[c].pc = "sent"
      BY <1>7 DEF CallRefused
    <3>. QED  BY <2>1, <3>1 DEF CallsCounted, SessionTypeOK, NoCall
  <2>2. CASE /\ ~retried(c) /\ SendRefresh(c)
             /\ call' = [call EXCEPT ![c].pc = "refreshing"]
    <3>1. call[c].sends = 1
      BY <1>7, <2>2 DEF CallRefused, retried, CallsCounted, SessionTypeOK
    <3>2. \A d \in Calls \ {c} : refreshing'[d] = refreshing[d] /\ call'[d] = call[d]
      BY <1>0, <2>2 DEF SendRefresh, SessionTypeOK
    <3>3. call'[c].pc = "refreshing" /\ call'[c].sends = 1
      BY <2>2, <3>1 DEF SessionTypeOK
    <3>. QED  BY <3>2, <3>3 DEF CallsCounted
  <2>. QED  BY <1>7, <2>1, <2>2 DEF CallRefused
<1>8. ASSUME NEW c \in Calls, CallEnds(c) PROVE CallsCounted'
  BY <1>8 DEF CallEnds, CallsCounted, SessionTypeOK, NoCall
<1>9. CASE PasswordChanged
  <2>1. /\ call["password"].pc = "sent" /\ UNCHANGED refreshing
        /\ call' = [call EXCEPT !["password"] = NoCall]
    BY <1>9 DEF PasswordChanged
  <2>. QED  BY <2>1 DEF CallsCounted, SessionTypeOK, NoCall
<1>10. CASE Reload
  <2>1. \A c \in Calls : call'[c] = NoCall /\ refreshing'[c] = NotWaiting
    BY <1>0, <1>10 DEF Reload, Calls
  <2>. QED  BY <2>1 DEF CallsCounted, NoCall, NotWaiting
<1>12. CASE OtherTabRefreshes \/ OtherTabCloses
  <2>1. call' = call /\ \A c \in Calls : refreshing'[c] = refreshing[c]
    BY <1>0, <1>12 DEF OtherTabRefreshes, OtherTabCloses, SendRefresh, SessionTypeOK, Callers, Calls
  <2>. QED  BY <2>1, CallsRest
<1>11. CASE UNCHANGED <<call, refreshing>>
  BY <1>11 DEF CallsCounted
<1>. QED  BY <1>1, <1>2, <1>3, <1>4, <1>5, <1>6, <1>7, <1>8, <1>9, <1>10, <1>11, <1>12
          DEF SessionNext, RefreshMoves, CallMoves, LoginAnswered, LoginSubmitted, LoginAccepted,
              LoginFails, Logout, LogoutAnswered, RequireAuth, GuestOnly, Navigate, OtherTabSigns,
              AccountChanges, UserReinstated, sessionVars

-----------------------------------------------------------------------------
LEMMA SessionInitInv == SessionInit => SessionInv
  BY SessionInitType, InitTokens, InitCalls DEF SessionInv

LEMMA SessionStepInv == SessionInv /\ [SessionNext]_sessionVars => SessionInv'
  BY SessionTypeStep, TokenStep, CallsStep DEF SessionInv

LEMMA SessionAlways == SessionSpec => []SessionInv
  BY SessionInitInv, SessionStepInv, PTL DEF SessionSpec

\* The session, localStorage, the refreshes and the calls of a tab are of their types:
\* no more pairs are known than were issued (auth-context.tsx, api.ts, storage.ts).
THEOREM SessionTypeCorrect == SessionSpec => []SessionTypeOK
<1>1. SessionInv => SessionTypeOK
  BY DEF SessionInv
<1>. QED  BY SessionAlways, <1>1, PTL

\* However many refreshes run at once, and whatever another tab, sign ins and sign outs
\* come in between, what localStorage keeps once they are done is an unspent token, one
\* the backend accepts until an administrator withdraws it or its lifetime is over;
\* except after a reload or a closed tab dropped one (refreshSession of auth-context.tsx).
THEOREM QuietTokensUnspent == SessionSpec => []QuietTokenUnspent
<1>1. SessionInv => QuietTokenUnspent
  BY DEF SessionInv, TokenInv, StoredIsReplaced, QuietTokenUnspent
<1>. QED  BY SessionAlways, <1>1, PTL

\* A call that is refused refreshes the session at most once (_retried of api.ts).
THEOREM RetriedOnce == SessionSpec => []RetriedAtMostOnce
<1>1. SessionInv => RetriedAtMostOnce
  BY DEF SessionInv, CallsCounted, RetriedAtMostOnce
<1>. QED  BY SessionAlways, <1>1, PTL
===============================================================================
