----------------------------- MODULE ParentLink -----------------------------
(***************************************************************************)
(* Invitation codes and the link they make between a parent of a school    *)
(* and a Super App user: POST /parent/superapp/link, whose checks run      *)
(* outside and whose writes run inside a READ COMMITTED transaction, and   *)
(* the admin handlers that generate and revoke codes, each call of which   *)
(* commits on its own.                                                     *)
(***************************************************************************)
EXTENDS Integers, FiniteSets

CONSTANTS Codes,    \* rows of parent_invitation_codes, once generated
          Parents, Schools,
          Users,    \* Super App users
          ParentOf, SchoolOf,
          Handlers, \* goroutines that serve a redemption
          Admins,   \* goroutines that serve an admin's request
          NoCode, NoUser, NoLink,
          MaxChanges, \* bound: changes of a subscription from outside
          MaxFaults   \* bound: cancelled requests, crashes, failed calls

Link == [user : Users, school : Schools]

ASSUME LinkAssumption ==
    /\ ParentOf \in [Codes -> Parents] /\ SchoolOf \in [Codes -> Schools]
    /\ NoCode \notin Codes /\ NoUser \notin Users /\ NoLink \notin Link
    /\ MaxChanges \in Nat /\ MaxFaults \in Nat

VARIABLES code,    \* committed rows of parent_invitation_codes
          link,    \* committed rows of parent_superapp_links
          sub,     \* whether a row of subscriptions is ACTIVE or TRIAL, and runs
          task,    \* where each redemption is; its open transaction
          admin,   \* where each request of an admin is
          budget

vars == <<code, link, sub, task, admin, budget>>

\* used_by is set when the code is used, and kept if it is revoked after that.
CodeRow ==
    {r \in [status : {"none", "active", "used", "revoked"},
            usedBy : Users \cup {NoUser}] :
       r.status = "used" => r.usedBy # NoUser}

Task == [pc    : {"idle", "parent", "user", "insert", "mark", "check", "trial", "commit"},
         code  : Codes \cup {NoCode},
         user  : Users \cup {NoUser},
         trial : BOOLEAN]  \* the transaction has inserted a TRIAL row

AdminTask == [pc : {"idle", "store", "revoke"}, code : Codes \cup {NoCode}]

IdleTask == [pc |-> "idle", code |-> NoCode, user |-> NoUser, trial |-> FALSE]
IdleAdmin == [pc |-> "idle", code |-> NoCode]

TypeOK ==
    /\ code \in [Codes -> CodeRow]
    /\ link \in [Parents -> Link \cup {NoLink}]
    /\ sub \in [Parents \X Schools -> {"none", "live", "lapsed"}]
    /\ task \in [Handlers -> Task]
    /\ \A h \in Handlers : task[h].pc # "idle" =>
                             task[h].code \in Codes /\ task[h].user \in Users
    /\ admin \in [Admins -> AdminTask]
    /\ \A a \in Admins : admin[a].pc # "idle" => admin[a].code \in Codes
    /\ budget \in [changes : 0..MaxChanges, faults : 0..MaxFaults]

Init ==
    /\ code = [c \in Codes |-> [status |-> "none", usedBy |-> NoUser]]
    /\ link = [p \in Parents |-> NoLink]
    /\ \E s \in {"none", "live", "lapsed"} : sub = [ps \in Parents \X Schools |-> s]
    /\ task = [h \in Handlers |-> IdleTask]
    /\ admin = [a \in Admins |-> IdleAdmin]
    /\ budget = [changes |-> 0, faults |-> 0]

-----------------------------------------------------------------------------
(* Abbreviations. *)

Parent(h) == ParentOf[task[h].code]
School(h) == SchoolOf[task[h].code]
Wanted(h) == [user |-> task[h].user, school |-> School(h)]

\* What the open transaction of a handler has written and holds locked.
HasLinkRow(h) == task[h].pc \in {"mark", "check", "trial", "commit"}
HasCodeRow(h) == task[h].pc \in {"check", "trial", "commit"}

\* Two link rows that the unique constraints keep apart.
SameKeys(g, h) == Parent(g) = Parent(h) \/ Wanted(g) = Wanted(h)

CodeLocked(c) == \E h \in Handlers : HasCodeRow(h) /\ task[h].code = c

\* An INSERT waits for the transaction with an equal key, an UPDATE for the one
\* that has changed the row.  The INSERT enters the two unique indexes one after
\* the other, here at once: one that waits at the second index holds only its
\* entry of the first, and who waits for that entry has written nothing yet.
WaitsFor(h, g) ==
    \/ task[h].pc = "insert" /\ HasLinkRow(g) /\ SameKeys(g, h)
    \/ task[h].pc = "mark" /\ HasCodeRow(g) /\ task[g].code = task[h].code

Waits(h) == \E g \in Handlers : WaitsFor(h, g)

Goto(h, pc) == task' = [task EXCEPT ![h].pc = pc]

\* The handler answers; an open transaction is rolled back by the defer.
Finish(h) == task' = [task EXCEPT ![h] = IdleTask]

-----------------------------------------------------------------------------
(* LinkSuperApp. *)

\* The code is read: anything but an active one is refused, and so is, when it
\* is read and not later, one whose expires_at has passed.
LookUpCode(h, c, u) ==
    /\ task[h].pc = "idle"
    /\ code[c].status = "active"
    /\ task' = [task EXCEPT ![h] = [pc |-> "parent", code |-> c, user |-> u,
                                    trial |-> FALSE]]
    /\ UNCHANGED <<code, link, sub, admin, budget>>

\* PARENT_ALREADY_LINKED.
CheckParent(h) ==
    /\ task[h].pc = "parent"
    /\ IF link[Parent(h)] # NoLink THEN Finish(h) ELSE Goto(h, "user")
    /\ UNCHANGED <<code, link, sub, admin, budget>>

\* SUPERAPP_USER_ALREADY_LINKED; otherwise the transaction begins.
CheckUser(h) ==
    /\ task[h].pc = "user"
    /\ IF \E p \in Parents : link[p] = Wanted(h) THEN Finish(h) ELSE Goto(h, "insert")
    /\ UNCHANGED <<code, link, sub, admin, budget>>

\* Mutant: the table has no unique constraints.
InsertWithoutKeys(h) ==
    /\ task[h].pc = "insert"
    /\ Goto(h, "mark")
    /\ UNCHANGED <<code, link, sub, admin, budget>>

\* A committed row with an equal key refuses the INSERT.
CreateParentSuperAppLink(h) ==
    /\ task[h].pc = "insert" /\ ~Waits(h)
    /\ IF link[Parent(h)] # NoLink \/ \E p \in Parents : link[p] = Wanted(h)
       THEN Finish(h) ELSE Goto(h, "mark")
    /\ UNCHANGED <<code, link, sub, admin, budget>>

\* Mutant: the UPDATE has no "AND status = 'active'".
MarkAnyCodeUsed(h) ==
    /\ task[h].pc = "mark" /\ ~Waits(h)
    /\ Goto(h, "check")
    /\ UNCHANGED <<code, link, sub, admin, budget>>

\* UPDATE ... WHERE status = 'active': no row comes back for a code that was
\* used or revoked since it was read.
MarkCodeUsed(h) ==
    /\ task[h].pc = "mark" /\ ~Waits(h)
    /\ IF code[task[h].code].status = "active" THEN Goto(h, "check") ELSE Finish(h)
    /\ UNCHANGED <<code, link, sub, admin, budget>>

\* Mutant: the query does not look at ends_at.
HasAnySubscription(h) ==
    /\ task[h].pc = "check"
    /\ Goto(h, IF sub[<<Parent(h), School(h)>>] = "none" THEN "trial" ELSE "commit")
    /\ UNCHANGED <<code, link, sub, admin, budget>>

\* An ACTIVE or TRIAL row without ends_at, or with one in the future.
HasActiveSubscription(h) ==
    /\ task[h].pc = "check"
    /\ Goto(h, IF sub[<<Parent(h), School(h)>>] = "live" THEN "commit" ELSE "trial")
    /\ UNCHANGED <<code, link, sub, admin, budget>>

\* idx_subscriptions_active_parent_school also covers a row that has lapsed.
CreateTrial(h) ==
    /\ task[h].pc = "trial"
    /\ IF sub[<<Parent(h), School(h)>>] = "none"
       THEN task' = [task EXCEPT ![h] = [task[h] EXCEPT !.pc = "commit", !.trial = TRUE]]
       ELSE Finish(h)
    /\ UNCHANGED <<code, link, sub, admin, budget>>

\* Mutant: the UPDATE of the code sets its status and not who used it.
CommitAnonymously(h) ==
    /\ task[h].pc = "commit"
    /\ link' = [link EXCEPT ![Parent(h)] = Wanted(h)]
    /\ code' = [code EXCEPT ![task[h].code].status = "used"]
    /\ sub' = IF task[h].trial
              THEN [sub EXCEPT ![<<Parent(h), School(h)>>] = "live"] ELSE sub
    /\ Finish(h)
    /\ UNCHANGED <<admin, budget>>

Commit(h) ==
    /\ task[h].pc = "commit"
    /\ link' = [link EXCEPT ![Parent(h)] = Wanted(h)]
    /\ code' = [code EXCEPT ![task[h].code] =
                  [status |-> "used", usedBy |-> task[h].user]]
    /\ sub' = IF task[h].trial
              THEN [sub EXCEPT ![<<Parent(h), School(h)>>] = "live"] ELSE sub
    /\ Finish(h)
    /\ UNCHANGED <<admin, budget>>

-----------------------------------------------------------------------------
(* GenerateParentInvitationCode and RevokeAdminParentInvitationCode. *)

SamePair(c, d) == ParentOf[c] = ParentOf[d] /\ SchoolOf[c] = SchoolOf[d]

\* Generating c starts by revoking the active codes of its parent and school;
\* the UPDATE waits for a transaction that has marked one of them.
RevokeActiveCodes(a, c) ==
    /\ admin[a].pc = "idle" /\ code[c].status = "none"
    /\ \A b \in Admins : admin[b].code # c
    /\ \A d \in Codes : SamePair(c, d) => ~CodeLocked(d)
    /\ code' = [d \in Codes |-> IF SamePair(c, d) /\ code[d].status = "active"
                                THEN [code[d] EXCEPT !.status = "revoked"] ELSE code[d]]
    /\ admin' = [admin EXCEPT ![a] = [pc |-> "store", code |-> c]]
    /\ UNCHANGED <<link, sub, task, budget>>

CreateParentInvitationCode(a) ==
    /\ admin[a].pc = "store"
    /\ code' = [code EXCEPT ![admin[a].code].status = "active"]
    /\ admin' = [admin EXCEPT ![a] = IdleAdmin]
    /\ UNCHANGED <<link, sub, task, budget>>

\* The handler answers at once for a code that is not active.
ReadCodeToRevoke(a, c) ==
    /\ admin[a].pc = "idle" /\ code[c].status = "active"
    /\ admin' = [admin EXCEPT ![a] = [pc |-> "revoke", code |-> c]]
    /\ UNCHANGED <<code, link, sub, task, budget>>

\* UPDATE ... WHERE id = $1, whatever the status is by now.
RevokeParentInvitationCode(a) ==
    /\ admin[a].pc = "revoke" /\ ~CodeLocked(admin[a].code)
    /\ code' = [code EXCEPT ![admin[a].code].status = "revoked"]
    /\ admin' = [admin EXCEPT ![a] = IdleAdmin]
    /\ UNCHANGED <<link, sub, task, budget>>

-----------------------------------------------------------------------------
(* The environment: billing, time, and failures. *)

\* A subscription is created, lapses, is renewed or is cancelled; an INSERT
\* would wait for a transaction that has inserted a trial.
SubscriptionChanges(p, s) ==
    /\ budget.changes < MaxChanges
    /\ budget' = [budget EXCEPT !.changes = @ + 1]
    /\ ~\E h \in Handlers : task[h].trial /\ Parent(h) = p /\ School(h) = s
    /\ \E v \in {"none", "live", "lapsed"} \ {sub[<<p, s>>]} :
         sub' = [sub EXCEPT ![<<p, s>>] = v]
    /\ UNCHANGED <<code, link, task, admin>>

HandlerStops(h) ==
    /\ task[h].pc # "idle" /\ budget.faults < MaxFaults
    /\ budget' = [budget EXCEPT !.faults = @ + 1]
    /\ Finish(h)
    /\ UNCHANGED <<code, link, sub, admin>>

AdminStops(a) ==
    /\ admin[a].pc # "idle" /\ budget.faults < MaxFaults
    /\ budget' = [budget EXCEPT !.faults = @ + 1]
    /\ admin' = [admin EXCEPT ![a] = IdleAdmin]
    /\ UNCHANGED <<code, link, sub, task>>

-----------------------------------------------------------------------------
Redeeming(h) ==
    \/ CheckParent(h) \/ CheckUser(h) \/ CreateParentSuperAppLink(h)
    \/ MarkCodeUsed(h) \/ HasActiveSubscription(h) \/ CreateTrial(h) \/ Commit(h)

Administering(a) ==
    \/ \E c \in Codes : RevokeActiveCodes(a, c) \/ ReadCodeToRevoke(a, c)
    \/ CreateParentInvitationCode(a) \/ RevokeParentInvitationCode(a)

Next ==
    \/ \E h \in Handlers : Redeeming(h) \/ HandlerStops(h)
    \/ \E h \in Handlers, c \in Codes, u \in Users : LookUpCode(h, c, u)
    \/ \E a \in Admins : Administering(a) \/ AdminStops(a)
    \/ \E p \in Parents, s \in Schools : SubscriptionChanges(p, s)

Spec == Init /\ [][Next]_vars

-----------------------------------------------------------------------------
(* Properties. *)

Invitation == [c \in Codes |-> CASE code[c].status = "none"   -> "new"
                                 [] code[c].status = "active" -> "open"
                                 [] OTHER                     -> "closed"]

Redeemer == [c \in Codes |-> code[c].usedBy]

Registry == INSTANCE LinkRegistry WITH invitation <- Invitation, redeemer <- Redeemer

\* However redemptions, revocations, expiry and failures interleave, the code
\* and the link change in one step, of an open code, and a link is for good.
ImplementsRegistry == Registry!Spec

\* A link stems from exactly one code of the parent, redeemed by the linked user
\* at the code's school, and no code is spent without its link: two codes of a
\* parent, or one code redeemed twice at once, never both count.
LinkedByOneCode ==
    \A p \in Parents :
        LET spent == {c \in Codes : ParentOf[c] = p /\ code[c].usedBy # NoUser} IN
        IF link[p] = NoLink THEN spent = {}
        ELSE \E c \in Codes :
               /\ spent = {c}
               /\ link[p] = [user |-> code[c].usedBy, school |-> SchoolOf[c]]

\* Unless billing changes it, a linked parent has a running subscription at the
\* school: the one found, or the trial created with the link.
LinkedHasAccess ==
    budget.changes = 0 =>
        \A p \in Parents : link[p] # NoLink => sub[<<p, link[p].school>>] = "live"

\* A redemption that waits for another one has no link row and no code row that
\* anybody waits for: the transactions cannot block one another for ever.
WaitersHoldNothing == \A h \in Handlers : Waits(h) => ~HasLinkRow(h)

\* link.go:166: a trial is created if the parent has no active subscription.
\* While nobody else touches the subscription, the INSERT is not refused.
TrialIsCreated ==
    [][\A h \in Handlers :
          task[h].pc = "trial" /\ task'[h].pc = "idle" =>
            budget'.changes > 0 \/ budget'.faults > budget.faults]_vars
=============================================================================
