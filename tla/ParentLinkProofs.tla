-------------------------- MODULE ParentLinkProofs --------------------------
(***************************************************************************)
(* ParentLink for every number of codes, parents, users and handlers:      *)
(* types, the one code behind a link, freedom from deadlock, and the       *)
(* refinement of LinkRegistry.  All of it rests on what an open            *)
(* transaction holds: TxInv.                                               *)
(***************************************************************************)
EXTENDS ParentLink, TLAPS

Pcs == {"idle", "parent", "user", "insert", "mark", "check", "trial", "commit"}

\* A handler that is not idle moves on within its request.
LEMMA HandlerGoes ==
    ASSUME TypeOK, NEW h \in Handlers, NEW pc \in Pcs, Goto(h, pc), task[h].pc # "idle"
    PROVE  /\ task' \in [Handlers -> Task]
           /\ \A g \in Handlers : task'[g].pc # "idle" =>
                task'[g].code \in Codes /\ task'[g].user \in Users
           /\ \A g \in Handlers : /\ task'[g].code = task[g].code
                                  /\ task'[g].user = task[g].user
                                  /\ task'[g].trial = task[g].trial
           /\ task'[h].pc = pc
           /\ \A g \in Handlers \ {h} : task'[g] = task[g]
<1>1. task[h] \in Task /\ task' = [task EXCEPT ![h].pc = pc]
  BY DEF TypeOK, Goto
<1>2. task' \in [Handlers -> Task] /\ task'[h].pc = pc
  BY <1>1 DEF TypeOK, Task, Pcs
<1>3. /\ task'[h].code = task[h].code /\ task'[h].user = task[h].user
      /\ task'[h].trial = task[h].trial
  BY <1>1 DEF TypeOK, Task
<1>4. \A g \in Handlers \ {h} : task'[g] = task[g]
  BY <1>1 DEF TypeOK
<1> QED
  BY <1>2, <1>3, <1>4 DEF TypeOK

LEMMA HandlerFinishes ==
    ASSUME TypeOK, NEW h \in Handlers, Finish(h)
    PROVE  /\ task' \in [Handlers -> Task]
           /\ \A g \in Handlers : task'[g].pc # "idle" =>
                task'[g].code \in Codes /\ task'[g].user \in Users
           /\ task'[h].pc = "idle"
           /\ \A g \in Handlers \ {h} : task'[g] = task[g]
BY DEF Finish, IdleTask, Task, TypeOK

-----------------------------------------------------------------------------
(* Type correctness. *)

LEMMA TypeInit == Init => TypeOK
<1> SUFFICES ASSUME Init PROVE TypeOK
  OBVIOUS
<1>1. code \in [Codes -> CodeRow]
  BY DEF Init, CodeRow
<1>2. task \in [Handlers -> Task] /\ \A h \in Handlers : task[h].pc = "idle"
  BY DEF Init, IdleTask, Task
<1>3. admin \in [Admins -> AdminTask] /\ \A a \in Admins : admin[a].pc = "idle"
  BY DEF Init, IdleAdmin, AdminTask
<1>4. /\ link \in [Parents -> Link \cup {NoLink}]
      /\ sub \in [Parents \X Schools -> {"none", "live", "lapsed"}]
      /\ budget \in [changes : 0..MaxChanges, faults : 0..MaxFaults]
  BY LinkAssumption DEF Init
<1> QED
  BY <1>1, <1>2, <1>3, <1>4 DEF TypeOK

\* Steps of a redemption that change no committed row.
LEMMA TaskType ==
    ASSUME TypeOK, NEW h \in Handlers, UNCHANGED <<code, link, sub, admin, budget>>,
           \/ Finish(h)
           \/ task[h].pc # "idle" /\ \E pc \in Pcs : Goto(h, pc)
    PROVE  TypeOK'
BY HandlerGoes, HandlerFinishes DEF TypeOK

LEMMA RedeemingType ==
    \A h \in Handlers : TypeOK /\ Redeeming(h) => TypeOK'
<1> SUFFICES ASSUME TypeOK, NEW h \in Handlers, Redeeming(h) PROVE TypeOK'
  OBVIOUS
<1>a. task[h] \in Task
  BY DEF TypeOK
<1>1. CASE CheckParent(h)
  BY <1>1, TaskType DEF CheckParent, Pcs
<1>2. CASE CheckUser(h)
  BY <1>2, TaskType DEF CheckUser, Pcs
<1>3. CASE CreateParentSuperAppLink(h)
  BY <1>3, TaskType DEF CreateParentSuperAppLink, Pcs
<1>4. CASE MarkCodeUsed(h)
  BY <1>4, TaskType DEF MarkCodeUsed, Pcs
<1>5. CASE HasActiveSubscription(h)
  BY <1>5, TaskType DEF HasActiveSubscription, Pcs
<1>6. CASE CreateTrial(h)
  <2>1. task[h].pc = "trial" /\ UNCHANGED <<code, link, sub, admin, budget>>
    BY <1>6 DEF CreateTrial
  <2>2. CASE Finish(h)
    BY <2>1, <2>2, TaskType
  <2>3. CASE task' = [task EXCEPT ![h] = [task[h] EXCEPT !.pc = "commit", !.trial = TRUE]]
    <3>1. [task[h] EXCEPT !.pc = "commit", !.trial = TRUE] \in Task
      BY <1>a DEF Task
    <3>2. task' \in [Handlers -> Task]
      BY <2>3, <3>1 DEF TypeOK
    <3>3. \A g \in Handlers : /\ task'[g].code = task[g].code
                              /\ task'[g].user = task[g].user
                              /\ task'[g].pc # "idle" => task[g].pc # "idle"
      BY <2>1, <2>3, <1>a DEF TypeOK, Task
    <3> QED
      BY <2>1, <3>2, <3>3 DEF TypeOK
  <2> QED
    BY <1>6, <2>2, <2>3 DEF CreateTrial
<1>7. CASE Commit(h)
  <2>1. task[h].code \in Codes /\ task[h].user \in Users
    BY <1>7 DEF Commit, TypeOK
  <2>2. Parent(h) \in Parents /\ School(h) \in Schools /\ Wanted(h) \in Link
    BY <2>1, LinkAssumption DEF Parent, School, Wanted, Link
  <2>3. code' \in [Codes -> CodeRow]
    <3>1. [status |-> "used", usedBy |-> task[h].user] \in CodeRow
      BY <2>1, LinkAssumption DEF CodeRow
    <3> QED
      BY <1>7, <3>1 DEF Commit, TypeOK
  <2>4. link' \in [Parents -> Link \cup {NoLink}]
    BY <1>7, <2>2 DEF Commit, TypeOK
  <2>5. sub' \in [Parents \X Schools -> {"none", "live", "lapsed"}]
    BY <1>7 DEF Commit, TypeOK
  <2>6. Finish(h) /\ UNCHANGED <<admin, budget>>
    BY <1>7 DEF Commit
  <2> QED
    BY <2>3, <2>4, <2>5, <2>6, HandlerFinishes DEF TypeOK
<1> QED
  BY <1>1, <1>2, <1>3, <1>4, <1>5, <1>6, <1>7 DEF Redeeming

LEMMA AdministeringType ==
    \A a \in Admins : TypeOK /\ Administering(a) => TypeOK'
<1> SUFFICES ASSUME TypeOK, NEW a \in Admins, Administering(a) PROVE TypeOK'
  OBVIOUS
<1>1. ASSUME NEW c \in Codes, RevokeActiveCodes(a, c) PROVE TypeOK'
  <2>1. \A d \in Codes : [code[d] EXCEPT !.status = "revoked"] \in CodeRow
    BY DEF TypeOK, CodeRow
  <2>2. code' \in [Codes -> CodeRow]
    BY <1>1, <2>1 DEF RevokeActiveCodes, TypeOK
  <2>3. /\ admin' \in [Admins -> AdminTask]
        /\ \A b \in Admins : admin'[b].pc # "idle" => admin'[b].code \in Codes
    BY <1>1 DEF RevokeActiveCodes, TypeOK, AdminTask
  <2> QED
    BY <1>1, <2>2, <2>3 DEF RevokeActiveCodes, TypeOK
<1>2. ASSUME NEW c \in Codes, ReadCodeToRevoke(a, c) PROVE TypeOK'
  BY <1>2 DEF ReadCodeToRevoke, TypeOK, AdminTask
<1>3. ASSUME NEW s \in {"active", "revoked"}, admin[a].pc # "idle",
             code' = [code EXCEPT ![admin[a].code].status = s],
             admin' = [admin EXCEPT ![a] = IdleAdmin],
             UNCHANGED <<link, sub, task, budget>>
      PROVE  TypeOK'
  <2>1. code' \in [Codes -> CodeRow]
    BY <1>3 DEF TypeOK, CodeRow
  <2>2. /\ admin' \in [Admins -> AdminTask]
        /\ \A b \in Admins : admin'[b].pc # "idle" => admin'[b].code \in Codes
    BY <1>3 DEF IdleAdmin, TypeOK, AdminTask
  <2> QED
    BY <1>3, <2>1, <2>2 DEF TypeOK
<1> QED
  BY <1>1, <1>2, <1>3 DEF Administering, CreateParentInvitationCode,
                          RevokeParentInvitationCode

LEMMA OthersType ==
    ASSUME TypeOK,
           \/ \E h \in Handlers : HandlerStops(h)
           \/ \E h \in Handlers, c \in Codes, u \in Users : LookUpCode(h, c, u)
           \/ \E a \in Admins : AdminStops(a)
           \/ \E p \in Parents, s \in Schools : SubscriptionChanges(p, s)
           \/ UNCHANGED vars
    PROVE  TypeOK'
<1>1. ASSUME NEW h \in Handlers, HandlerStops(h) PROVE TypeOK'
  <2>1. budget' \in [changes : 0..MaxChanges, faults : 0..MaxFaults]
    BY <1>1, LinkAssumption DEF HandlerStops, TypeOK
  <2> QED
    BY <1>1, <2>1, HandlerFinishes DEF HandlerStops, TypeOK
<1>2. ASSUME NEW h \in Handlers, NEW c \in Codes, NEW u \in Users, LookUpCode(h, c, u)
      PROVE  TypeOK'
  <2> DEFINE t == [pc |-> "parent", code |-> c, user |-> u, trial |-> FALSE]
  <2>1. t \in Task /\ t.code \in Codes /\ t.user \in Users
    BY DEF Task
  <2>2. /\ task' = [task EXCEPT ![h] = t]
        /\ UNCHANGED <<code, link, sub, admin, budget>>
    BY <1>2 DEF LookUpCode
  <2> HIDE DEF t
  <2> QED
    BY <2>1, <2>2 DEF TypeOK
<1>3. ASSUME NEW a \in Admins, AdminStops(a) PROVE TypeOK'
  <2>1. budget' \in [changes : 0..MaxChanges, faults : 0..MaxFaults]
    BY <1>3, LinkAssumption DEF AdminStops, TypeOK
  <2>2. /\ admin' \in [Admins -> AdminTask]
        /\ \A b \in Admins : admin'[b].pc # "idle" => admin'[b].code \in Codes
    BY <1>3 DEF AdminStops, IdleAdmin, TypeOK, AdminTask
  <2> QED
    BY <1>3, <2>1, <2>2 DEF AdminStops, TypeOK
<1>4. ASSUME NEW p \in Parents, NEW s \in Schools, SubscriptionChanges(p, s)
      PROVE  TypeOK'
  <2>a. /\ budget.changes < MaxChanges
        /\ budget' = [budget EXCEPT !.changes = @ + 1]
    BY <1>4 DEF SubscriptionChanges
  <2>1. budget' \in [changes : 0..MaxChanges, faults : 0..MaxFaults]
    BY <2>a, LinkAssumption DEF TypeOK
  <2>2. PICK v \in {"none", "live", "lapsed"} : sub' = [sub EXCEPT ![<<p, s>>] = v]
    BY <1>4 DEF SubscriptionChanges
  <2>3. sub' \in [Parents \X Schools -> {"none", "live", "lapsed"}]
    BY <2>2 DEF TypeOK
  <2> QED
    BY <1>4, <2>1, <2>3 DEF SubscriptionChanges, TypeOK
<1>5. CASE UNCHANGED vars
  BY <1>5 DEF vars, TypeOK
<1> QED
  BY <1>1, <1>2, <1>3, <1>4, <1>5

\* Type correctness for every instance.
THEOREM LinkTypeCorrect == Spec => []TypeOK
<1>1. TypeOK /\ [Next]_vars => TypeOK'
  BY RedeemingType, AdministeringType, OthersType DEF Next
<1> QED
  BY <1>1, TypeInit, PTL DEF Spec

-----------------------------------------------------------------------------
(* What an open transaction holds. *)

\* The committed rows leave room for the link a transaction has inserted.
LinkRowsFresh ==
    \A h \in Handlers : HasLinkRow(h) =>
        link[Parent(h)] = NoLink /\ \A p \in Parents : link[p] # Wanted(h)

KeysApart ==
    \A g, h \in Handlers : HasLinkRow(g) /\ HasLinkRow(h) /\ g # h => ~SameKeys(g, h)

CodeRowsActive ==
    \A h \in Handlers : HasCodeRow(h) => code[task[h].code].status = "active"

UnspentUnused ==
    \A c \in Codes : code[c].status \in {"none", "active"} => code[c].usedBy = NoUser

\* A code that an admin is about to store is in no other hands.
StoredOnce ==
    \A a \in Admins :
        /\ admin[a].pc = "store" =>
             /\ code[admin[a].code].status = "none"
             /\ \A b \in Admins \ {a} : admin[b].code # admin[a].code
        /\ admin[a].pc = "revoke" => code[admin[a].code].status # "none"

TxInv == LinkRowsFresh /\ KeysApart /\ CodeRowsActive /\ UnspentUnused /\ StoredOnce

LEMMA TxInit == Init => TxInv
BY DEF Init, IdleTask, IdleAdmin, TxInv, LinkRowsFresh, KeysApart, CodeRowsActive,
       UnspentUnused, StoredOnce, HasLinkRow, HasCodeRow

\* A step that leaves the committed rows, and no transaction with more, keeps TxInv.
LEMMA NothingGained ==
    ASSUME TxInv, UNCHANGED <<code, link, admin>>,
           \A h \in Handlers : HasLinkRow(h)' =>
             /\ HasLinkRow(h) /\ task'[h].code = task[h].code
             /\ task'[h].user = task[h].user
             /\ HasCodeRow(h)' => HasCodeRow(h)
    PROVE  TxInv'
<1>1. \A h \in Handlers : HasLinkRow(h)' => Parent(h)' = Parent(h) /\ Wanted(h)' = Wanted(h)
  BY DEF Parent, Wanted, School
<1>2. \A h \in Handlers : HasCodeRow(h)' => HasLinkRow(h)'
  BY DEF HasLinkRow, HasCodeRow
<1>3. LinkRowsFresh' /\ CodeRowsActive'
  BY <1>1, <1>2 DEF TxInv, LinkRowsFresh, CodeRowsActive
<1>4. KeysApart'
  BY <1>1 DEF TxInv, KeysApart, SameKeys
<1>5. UnspentUnused' /\ StoredOnce'
  BY DEF TxInv, UnspentUnused, StoredOnce
<1> QED
  BY <1>3, <1>4, <1>5 DEF TxInv

LEMMA FinishTx ==
    ASSUME TypeOK, TxInv, NEW h \in Handlers, Finish(h), UNCHANGED <<code, link, admin>>
    PROVE  TxInv'
<1>1. task'[h].pc = "idle" /\ \A g \in Handlers \ {h} : task'[g] = task[g]
  BY HandlerFinishes
<1> QED
  BY <1>1, NothingGained DEF HasLinkRow, HasCodeRow

\* Between the reads, or from the last statement but one to the commit.
LEMMA GoOnTx ==
    ASSUME TypeOK, TxInv, NEW h \in Handlers, NEW pc \in Pcs, Goto(h, pc),
           task[h].pc # "idle", UNCHANGED <<code, link, admin>>,
           \/ pc \in {"user", "insert"}
           \/ pc \in {"trial", "commit"} /\ task[h].pc \in {"check", "trial"}
    PROVE  TxInv'
BY HandlerGoes, NothingGained DEF HasLinkRow, HasCodeRow

LEMMA InsertTx ==
    \A h \in Handlers :
        TypeOK /\ TxInv /\ CreateParentSuperAppLink(h) => TxInv'
<1> SUFFICES ASSUME TypeOK, TxInv, NEW h \in Handlers, CreateParentSuperAppLink(h)
             PROVE  TxInv'
  OBVIOUS
<1>1. /\ task[h].pc = "insert" /\ ~Waits(h)
      /\ UNCHANGED <<code, link, sub, admin, budget>>
  BY DEF CreateParentSuperAppLink
<1>2. CASE Finish(h)
  BY <1>1, <1>2, FinishTx
<1>3. CASE /\ Goto(h, "mark") /\ link[Parent(h)] = NoLink
           /\ \A p \in Parents : link[p] # Wanted(h)
  <2>1. /\ task'[h].pc = "mark"
        /\ \A g \in Handlers : task'[g].code = task[g].code /\ task'[g].user = task[g].user
        /\ \A g \in Handlers \ {h} : task'[g] = task[g]
    BY <1>1, <1>3, HandlerGoes DEF Pcs
  <2>2. \A g \in Handlers : Parent(g)' = Parent(g) /\ Wanted(g)' = Wanted(g)
    BY <2>1 DEF Parent, Wanted, School
  <2>3. \A g \in Handlers : /\ HasLinkRow(g)' => g = h \/ HasLinkRow(g)
                            /\ HasCodeRow(g)' => HasCodeRow(g)
    BY <2>1 DEF HasLinkRow, HasCodeRow
  <2>4. \A g \in Handlers : HasLinkRow(g) => ~SameKeys(g, h)
    BY <1>1 DEF Waits, WaitsFor
  <2>5. LinkRowsFresh'
    BY <1>1, <1>3, <2>2, <2>3 DEF TxInv, LinkRowsFresh
  <2>6. \A f, g \in Handlers : SameKeys(f, g)' = SameKeys(f, g)
    BY <2>2 DEF SameKeys
  <2>7. \A f, g \in Handlers : SameKeys(f, g) => SameKeys(g, f)
    BY DEF SameKeys
  <2>8. KeysApart'
    BY <2>3, <2>4, <2>6, <2>7 DEF TxInv, KeysApart
  <2>9. CodeRowsActive' /\ UnspentUnused' /\ StoredOnce'
    BY <1>1, <2>1, <2>3 DEF TxInv, CodeRowsActive, UnspentUnused, StoredOnce
  <2> QED
    BY <2>5, <2>8, <2>9 DEF TxInv
<1> QED
  BY <1>2, <1>3 DEF CreateParentSuperAppLink

LEMMA MarkTx ==
    \A h \in Handlers : TypeOK /\ TxInv /\ MarkCodeUsed(h) => TxInv'
<1> SUFFICES ASSUME TypeOK, TxInv, NEW h \in Handlers, MarkCodeUsed(h) PROVE TxInv'
  OBVIOUS
<1>1. task[h].pc = "mark" /\ UNCHANGED <<code, link, sub, admin, budget>>
  BY DEF MarkCodeUsed
<1>2. CASE Finish(h)
  BY <1>1, <1>2, FinishTx
<1>3. CASE code[task[h].code].status = "active" /\ Goto(h, "check")
  <2>1. /\ task'[h].pc = "check"
        /\ \A g \in Handlers : task'[g].code = task[g].code /\ task'[g].user = task[g].user
        /\ \A g \in Handlers \ {h} : task'[g] = task[g]
    BY <1>1, <1>3, HandlerGoes DEF Pcs
  <2>2. \A g \in Handlers : Parent(g)' = Parent(g) /\ Wanted(g)' = Wanted(g)
    BY <2>1 DEF Parent, Wanted, School
  <2>3. \A g \in Handlers : /\ HasLinkRow(g)' = HasLinkRow(g)
                            /\ HasCodeRow(g)' => g = h \/ HasCodeRow(g)
    BY <1>1, <2>1 DEF HasLinkRow, HasCodeRow
  <2>4. LinkRowsFresh' /\ KeysApart'
    BY <1>1, <2>2, <2>3 DEF TxInv, LinkRowsFresh, KeysApart, SameKeys
  <2>5. CodeRowsActive' /\ UnspentUnused' /\ StoredOnce'
    BY <1>1, <1>3, <2>1, <2>3 DEF TxInv, CodeRowsActive, UnspentUnused, StoredOnce
  <2> QED
    BY <2>4, <2>5 DEF TxInv
<1> QED
  BY <1>2, <1>3 DEF MarkCodeUsed

LEMMA CommitTx ==
    \A h \in Handlers : TypeOK /\ TxInv /\ Commit(h) => TxInv'
<1> SUFFICES ASSUME TypeOK, TxInv, NEW h \in Handlers, Commit(h) PROVE TxInv'
  OBVIOUS
<1>1. PICK c \in Codes : c = task[h].code
  BY DEF Commit, TypeOK
<1>2. PICK l \in Link : l = Wanted(h)
  BY <1>1, LinkAssumption DEF Commit, TypeOK, Wanted, School, Link
<1>3. /\ code' = [code EXCEPT ![c] = [status |-> "used", usedBy |-> task[h].user]]
      /\ link' = [link EXCEPT ![ParentOf[c]] = l]
      /\ admin' = admin /\ task[h].pc = "commit" /\ Finish(h)
  BY <1>1, <1>2 DEF Commit, Parent
<1>4. task'[h].pc = "idle" /\ \A g \in Handlers \ {h} : task'[g] = task[g]
  BY <1>3, HandlerFinishes
<1>5. \A g \in Handlers : HasLinkRow(g)' => g # h /\ HasLinkRow(g)
  BY <1>4 DEF HasLinkRow
<1>6. \A g \in Handlers \ {h} : /\ Parent(g)' = Parent(g) /\ Wanted(g)' = Wanted(g)
                                /\ HasCodeRow(g)' = HasCodeRow(g)
  BY <1>4 DEF Parent, Wanted, School, HasCodeRow
<1>7. \A g \in Handlers : HasLinkRow(g)' => Parent(g) # ParentOf[c] /\ Wanted(g) # l
  BY <1>1, <1>2, <1>3, <1>5 DEF TxInv, KeysApart, SameKeys, HasLinkRow, Parent
<1>8. LinkRowsFresh'
  <2> SUFFICES ASSUME NEW g \in Handlers, HasLinkRow(g)'
               PROVE  /\ link'[Parent(g)] = NoLink
                      /\ \A p \in Parents : link'[p] # Wanted(g)
    BY <1>5, <1>6 DEF LinkRowsFresh
  <2>1. link[Parent(g)] = NoLink /\ \A p \in Parents : link[p] # Wanted(g)
    BY <1>5 DEF TxInv, LinkRowsFresh
  <2> QED
    BY <2>1, <1>3, <1>7 DEF TypeOK
<1>9. KeysApart'
  BY <1>5, <1>6 DEF TxInv, KeysApart, SameKeys
<1>10. CodeRowsActive'
  <2> SUFFICES ASSUME NEW g \in Handlers, HasCodeRow(g)'
               PROVE  code'[task'[g].code].status = "active"
    BY DEF CodeRowsActive
  <2>1. g # h /\ HasCodeRow(g) /\ HasLinkRow(g)'
    BY <1>4, <1>6 DEF HasCodeRow, HasLinkRow
  <2>2. task[g].code # c /\ task[g].code \in Codes
    BY <1>7, <2>1 DEF Parent, HasCodeRow, TypeOK
  <2> QED
    BY <1>3, <1>4, <2>1, <2>2 DEF TxInv, CodeRowsActive, TypeOK
<1>11. code[c].status = "active"
  BY <1>1, <1>3 DEF TxInv, CodeRowsActive, HasCodeRow
<1>12. /\ code'[c].status = "used"
       /\ \A d \in Codes \ {c} : code'[d] = code[d]
  BY <1>3 DEF TypeOK
<1>13. UnspentUnused'
  BY <1>12 DEF TxInv, UnspentUnused
<1>14. StoredOnce'
  <2> SUFFICES ASSUME NEW a \in Admins, admin[a].pc # "idle"
               PROVE  /\ admin[a].pc = "store" =>
                           /\ code'[admin[a].code].status = "none"
                           /\ \A b \in Admins \ {a} : admin[b].code # admin[a].code
                      /\ admin[a].pc = "revoke" => code'[admin[a].code].status # "none"
    BY <1>3 DEF StoredOnce
  <2>1. admin[a].code \in Codes
    BY DEF TypeOK
  <2> QED
    BY <2>1, <1>11, <1>12 DEF TxInv, StoredOnce
<1> QED
  BY <1>8, <1>9, <1>10, <1>13, <1>14 DEF TxInv

LEMMA RedeemingTx ==
    \A h \in Handlers : TypeOK /\ TxInv /\ Redeeming(h) => TxInv'
<1> SUFFICES ASSUME TypeOK, TxInv, NEW h \in Handlers, Redeeming(h) PROVE TxInv'
  OBVIOUS
<1>1. CASE CheckParent(h)
  BY <1>1, FinishTx, GoOnTx DEF CheckParent, Pcs
<1>2. CASE CheckUser(h)
  BY <1>2, FinishTx, GoOnTx DEF CheckUser, Pcs
<1>3. CASE HasActiveSubscription(h)
  BY <1>3, FinishTx, GoOnTx DEF HasActiveSubscription, Pcs
<1>4. CASE CreateTrial(h)
  <2>1. task[h].pc = "trial" /\ UNCHANGED <<code, link, sub, admin, budget>>
    BY <1>4 DEF CreateTrial
  <2>2. CASE Finish(h)
    BY <2>1, <2>2, FinishTx
  <2>3. CASE task' = [task EXCEPT ![h] = [task[h] EXCEPT !.pc = "commit", !.trial = TRUE]]
    <3>1. \A g \in Handlers : /\ task'[g].code = task[g].code
                              /\ task'[g].user = task[g].user
                              /\ g # h => task'[g] = task[g]
      BY <2>3 DEF TypeOK, Task
    <3> QED
      BY <2>1, <3>1, NothingGained DEF HasLinkRow, HasCodeRow
  <2> QED
    BY <1>4, <2>2, <2>3 DEF CreateTrial
<1> QED
  BY <1>1, <1>2, <1>3, <1>4, InsertTx, MarkTx, CommitTx DEF Redeeming

\* An admin's step changes no transaction, and no code row that one holds.
LEMMA AdministeringTx ==
    \A a \in Admins : TypeOK /\ TxInv /\ Administering(a) => TxInv'
<1> SUFFICES ASSUME TypeOK, TxInv, NEW a \in Admins, Administering(a) PROVE TxInv'
  OBVIOUS
<1>1. UNCHANGED <<task, link>>
  BY DEF Administering, RevokeActiveCodes, ReadCodeToRevoke, CreateParentInvitationCode,
         RevokeParentInvitationCode
<1>2. LinkRowsFresh' /\ KeysApart'
  BY <1>1 DEF TxInv, LinkRowsFresh, KeysApart, HasLinkRow, SameKeys, Parent, Wanted, School
<1>3. ASSUME NEW c \in Codes, RevokeActiveCodes(a, c) PROVE TxInv'
  <2>a. code' = [d \in Codes |-> IF SamePair(c, d) /\ code[d].status = "active"
                                 THEN [code[d] EXCEPT !.status = "revoked"] ELSE code[d]]
    BY <1>3 DEF RevokeActiveCodes
  <2>b. \A d \in Codes : \/ code'[d] = code[d]
                         \/ code'[d].status = "revoked" /\ code[d].status = "active"
    BY <2>a DEF TypeOK, CodeRow
  <2>c. \A d \in Codes : CodeLocked(d) => code'[d] = code[d]
    BY <1>3, <2>a DEF RevokeActiveCodes
  <2>1. /\ code[c].status = "none" /\ admin[a].pc = "idle"
        /\ \A b \in Admins : admin[b].code # c
        /\ admin' = [admin EXCEPT ![a] = [pc |-> "store", code |-> c]]
    BY <1>3 DEF RevokeActiveCodes
  <2>2. CodeRowsActive'
    BY <1>1, <2>c DEF TxInv, CodeRowsActive, HasCodeRow, CodeLocked, TypeOK
  <2>3. UnspentUnused'
    BY <2>a DEF TxInv, UnspentUnused, TypeOK, CodeRow
  <2>4. /\ admin'[a].pc = "store" /\ admin'[a].code = c
        /\ \A b \in Admins \ {a} : admin'[b] = admin[b]
    BY <2>1 DEF TypeOK
  <2>5. \A d \in Codes : code'[d].status = "none" <=> code[d].status = "none"
    BY <2>b
  <2>6. StoredOnce'
    <3> SUFFICES ASSUME NEW b \in Admins
                 PROVE  /\ admin'[b].pc = "store" =>
                             /\ code'[admin'[b].code].status = "none"
                             /\ \A d \in Admins \ {b} : admin'[d].code # admin'[b].code
                        /\ admin'[b].pc = "revoke" => code'[admin'[b].code].status # "none"
      BY DEF StoredOnce
    <3>1. CASE b = a
      BY <3>1, <2>1, <2>4, <2>5
    <3>2. CASE b # a
      <4>1. admin[b].pc # "idle" => admin[b].code \in Codes
        BY DEF TypeOK
      <4> QED
        BY <3>2, <4>1, <2>1, <2>4, <2>5 DEF TxInv, StoredOnce
    <3> QED
      BY <3>1, <3>2
  <2> QED
    BY <1>2, <2>2, <2>3, <2>6 DEF TxInv
<1>4. ASSUME NEW c \in Codes, ReadCodeToRevoke(a, c) PROVE TxInv'
  <2>1. /\ code[c].status = "active" /\ code' = code
        /\ admin'[a].pc = "revoke" /\ admin'[a].code = c
        /\ \A b \in Admins \ {a} : admin'[b] = admin[b]
    BY <1>4 DEF ReadCodeToRevoke, TypeOK
  <2>2. CodeRowsActive' /\ UnspentUnused' /\ StoredOnce'
    BY <1>1, <2>1 DEF TxInv, CodeRowsActive, HasCodeRow, UnspentUnused, StoredOnce
  <2> QED
    BY <1>2, <2>2 DEF TxInv
<1>5. CASE CreateParentInvitationCode(a)
  <2>1. PICK c \in Codes : c = admin[a].code
    BY <1>5 DEF CreateParentInvitationCode, TypeOK
  <2>2. /\ code[c].status = "none" /\ \A b \in Admins \ {a} : admin[b].code # c
        /\ code' = [code EXCEPT ![c].status = "active"]
        /\ admin' = [admin EXCEPT ![a] = IdleAdmin]
    BY <1>5, <2>1 DEF CreateParentInvitationCode, TxInv, StoredOnce
  <2>3. /\ code'[c].status = "active" /\ code'[c].usedBy = code[c].usedBy
        /\ \A d \in Codes \ {c} : code'[d] = code[d]
    BY <2>2 DEF TypeOK, CodeRow
  <2>4. admin'[a].pc = "idle" /\ \A b \in Admins \ {a} : admin'[b] = admin[b]
    BY <2>2 DEF TypeOK, IdleAdmin
  <2>5. CodeRowsActive'
    BY <1>1, <2>3 DEF TxInv, CodeRowsActive, HasCodeRow, TypeOK
  <2>6. UnspentUnused'
    BY <2>2, <2>3 DEF TxInv, UnspentUnused
  <2>7. StoredOnce'
    <3> SUFFICES ASSUME NEW b \in Admins \ {a}, admin[b].pc # "idle"
                 PROVE  /\ admin[b].pc = "store" =>
                             /\ code'[admin[b].code].status = "none"
                             /\ \A d \in Admins \ {b} : admin'[d].code # admin[b].code
                        /\ admin[b].pc = "revoke" => code'[admin[b].code].status # "none"
      BY <2>4 DEF StoredOnce
    <3>1. admin[b].code \in Codes \ {c}
      BY <2>2 DEF TypeOK
    <3>2. admin'[a].code = NoCode
      BY <2>2 DEF TypeOK, IdleAdmin
    <3> QED
      BY <2>3, <2>4, <3>1, <3>2, LinkAssumption DEF TxInv, StoredOnce
  <2> QED
    BY <1>2, <2>5, <2>6, <2>7 DEF TxInv
<1>6. CASE RevokeParentInvitationCode(a)
  <2>1. PICK c \in Codes : c = admin[a].code
    BY <1>6 DEF RevokeParentInvitationCode, TypeOK
  <2>2. /\ code[c].status # "none" /\ ~CodeLocked(c)
        /\ code' = [code EXCEPT ![c].status = "revoked"]
        /\ admin' = [admin EXCEPT ![a] = IdleAdmin]
    BY <1>6, <2>1 DEF RevokeParentInvitationCode, TxInv, StoredOnce
  <2>3. /\ code'[c].status = "revoked"
        /\ \A d \in Codes \ {c} : code'[d] = code[d]
    BY <2>2 DEF TypeOK, CodeRow
  <2>4. /\ admin'[a].pc = "idle" /\ admin'[a].code = NoCode
        /\ \A b \in Admins \ {a} : admin'[b] = admin[b]
    BY <2>2 DEF TypeOK, IdleAdmin
  <2>5. CodeRowsActive'
    BY <1>1, <2>2, <2>3 DEF TxInv, CodeRowsActive, HasCodeRow, CodeLocked, TypeOK
  <2>6. UnspentUnused'
    BY <2>3 DEF TxInv, UnspentUnused
  <2>7. StoredOnce'
    <3> SUFFICES ASSUME NEW b \in Admins \ {a}, admin[b].pc # "idle"
                 PROVE  /\ admin[b].pc = "store" =>
                             /\ code'[admin[b].code].status = "none"
                             /\ \A d \in Admins \ {b} : admin'[d].code # admin[b].code
                        /\ admin[b].pc = "revoke" => code'[admin[b].code].status # "none"
      BY <2>4 DEF StoredOnce
    <3>1. admin[b].code \in Codes
      BY DEF TypeOK
    <3> QED
      BY <2>2, <2>3, <2>4, <3>1, LinkAssumption DEF TxInv, StoredOnce
  <2> QED
    BY <1>2, <2>5, <2>6, <2>7 DEF TxInv
<1> QED
  BY <1>3, <1>4, <1>5, <1>6 DEF Administering

LEMMA OthersTx ==
    ASSUME TypeOK, TxInv,
           \/ \E h \in Handlers : HandlerStops(h)
           \/ \E h \in Handlers, c \in Codes, u \in Users : LookUpCode(h, c, u)
           \/ \E a \in Admins : AdminStops(a)
           \/ \E p \in Parents, s \in Schools : SubscriptionChanges(p, s)
           \/ UNCHANGED vars
    PROVE  TxInv'
<1>1. ASSUME NEW h \in Handlers, HandlerStops(h) PROVE TxInv'
  BY <1>1, FinishTx DEF HandlerStops
<1>2. ASSUME NEW h \in Handlers, NEW c \in Codes, NEW u \in Users, LookUpCode(h, c, u)
      PROVE  TxInv'
  <2>1. /\ task'[h].pc = "parent" /\ \A g \in Handlers \ {h} : task'[g] = task[g]
        /\ UNCHANGED <<code, link, admin>>
    BY <1>2 DEF LookUpCode, TypeOK
  <2> QED
    BY <2>1, NothingGained DEF HasLinkRow, HasCodeRow
<1>3. ASSUME NEW a \in Admins, AdminStops(a) PROVE TxInv'
  <2>1. /\ admin'[a].pc = "idle" /\ admin'[a].code = NoCode
        /\ \A b \in Admins \ {a} : admin'[b] = admin[b]
        /\ UNCHANGED <<code, link, task>>
    BY <1>3 DEF AdminStops, TypeOK, IdleAdmin
  <2>2. StoredOnce'
    BY <2>1, LinkAssumption DEF TxInv, StoredOnce, TypeOK
  <2> QED
    BY <2>1, <2>2 DEF TxInv, LinkRowsFresh, KeysApart, CodeRowsActive, UnspentUnused,
                      HasLinkRow, HasCodeRow, SameKeys, Parent, Wanted, School
<1>4. ASSUME NEW p \in Parents, NEW s \in Schools, SubscriptionChanges(p, s)
      PROVE  TxInv'
  BY <1>4, NothingGained DEF SubscriptionChanges, HasLinkRow, HasCodeRow
<1>5. CASE UNCHANGED vars
  BY <1>5, NothingGained DEF vars, HasLinkRow, HasCodeRow
<1> QED
  BY <1>1, <1>2, <1>3, <1>4, <1>5

LEMMA TxInvariant == Spec => [](TypeOK /\ TxInv)
<1>1. TypeOK /\ TxInv /\ [Next]_vars => TxInv'
  BY RedeemingTx, AdministeringTx, OthersTx DEF Next
<1> QED
  BY <1>1, TxInit, LinkTypeCorrect, PTL DEF Spec

-----------------------------------------------------------------------------
(* The properties. *)

\* No redemption that waits is waited for: transactions with a common key are
\* serialised by their first write, so none holds a row when it waits.
THEOREM RedemptionsCannotDeadlock == Spec => []WaitersHoldNothing
<1>1. TxInv => WaitersHoldNothing
  <2> SUFFICES ASSUME TxInv, NEW h \in Handlers, HasLinkRow(h),
                      NEW g \in Handlers, WaitsFor(h, g)
               PROVE  FALSE
    BY DEF WaitersHoldNothing, Waits
  <2>1. task[h].pc = "mark" /\ HasCodeRow(g) /\ task[g].code = task[h].code
    BY DEF WaitsFor, HasLinkRow
  <2>2. g # h /\ HasLinkRow(g) /\ SameKeys(g, h)
    BY <2>1 DEF HasCodeRow, HasLinkRow, SameKeys, Parent
  <2> QED
    BY <2>2 DEF TxInv, KeysApart
<1> QED
  BY <1>1, TxInvariant, PTL

\* Only a commit spends a code or makes a link, and it does both.
LEMMA CodeSteps ==
    ASSUME TypeOK, TxInv, [Next]_vars
    PROVE  \/ \E h \in Handlers : Commit(h)
           \/ UNCHANGED link /\ \A c \in Codes : code'[c].usedBy = code[c].usedBy
<1>1. ASSUME NEW a \in Admins, Administering(a)
      PROVE  UNCHANGED link /\ \A c \in Codes : code'[c].usedBy = code[c].usedBy
  <2>1. ASSUME NEW c \in Codes, RevokeActiveCodes(a, c)
        PROVE  UNCHANGED link /\ \A d \in Codes : code'[d].usedBy = code[d].usedBy
    BY <2>1 DEF RevokeActiveCodes, TypeOK, CodeRow
  <2>2. ASSUME NEW c \in Codes, ReadCodeToRevoke(a, c) PROVE UNCHANGED <<code, link>>
    BY <2>2 DEF ReadCodeToRevoke
  <2>3. ASSUME NEW s \in {"active", "revoked"},
               code' = [code EXCEPT ![admin[a].code].status = s]
        PROVE  \A d \in Codes : code'[d].usedBy = code[d].usedBy
    BY <2>3 DEF TypeOK, CodeRow
  <2>4. CASE CreateParentInvitationCode(a)
    BY <2>3, <2>4 DEF CreateParentInvitationCode
  <2>5. CASE RevokeParentInvitationCode(a)
    BY <2>3, <2>5 DEF RevokeParentInvitationCode
  <2> QED
    BY <1>1, <2>1, <2>2, <2>4, <2>5 DEF Administering
<1>2. ASSUME NEW h \in Handlers, Redeeming(h), ~Commit(h) PROVE UNCHANGED <<code, link>>
  BY <1>2 DEF Redeeming, CheckParent, CheckUser, CreateParentSuperAppLink, MarkCodeUsed,
              HasActiveSubscription, CreateTrial
<1>3. ASSUME \/ \E h \in Handlers : HandlerStops(h)
             \/ \E h \in Handlers, c \in Codes, u \in Users : LookUpCode(h, c, u)
             \/ \E a \in Admins : AdminStops(a)
             \/ \E p \in Parents, s \in Schools : SubscriptionChanges(p, s)
             \/ UNCHANGED vars
      PROVE  UNCHANGED <<code, link>>
  BY <1>3 DEF HandlerStops, LookUpCode, AdminStops, SubscriptionChanges, vars
<1> QED
  BY <1>1, <1>2, <1>3 DEF Next

\* What a commit does to the committed rows, with its code as a constant.
LEMMA CommitEffect ==
    ASSUME TypeOK, TxInv, NEW h \in Handlers, Commit(h)
    PROVE  \E c \in Codes, u \in Users :
             /\ code[c].status = "active" /\ code[c].usedBy = NoUser
             /\ link[ParentOf[c]] = NoLink
             /\ \A p \in Parents : link[p] # [user |-> u, school |-> SchoolOf[c]]
             /\ code' = [code EXCEPT ![c] = [status |-> "used", usedBy |-> u]]
             /\ link' = [link EXCEPT ![ParentOf[c]] = [user |-> u, school |-> SchoolOf[c]]]
<1>1. PICK c \in Codes, u \in Users : c = task[h].code /\ u = task[h].user
  BY DEF Commit, TypeOK
<1>2. Parent(h) = ParentOf[c] /\ Wanted(h) = [user |-> u, school |-> SchoolOf[c]]
  BY <1>1 DEF Parent, Wanted, School
<1>3. HasLinkRow(h) /\ HasCodeRow(h)
  BY DEF Commit, HasLinkRow, HasCodeRow
<1>4. /\ code[c].status = "active" /\ code[c].usedBy = NoUser
      /\ link[Parent(h)] = NoLink /\ \A p \in Parents : link[p] # Wanted(h)
  BY <1>1, <1>3 DEF TxInv, CodeRowsActive, UnspentUnused, LinkRowsFresh
<1>5. /\ code' = [code EXCEPT ![c] = [status |-> "used", usedBy |-> u]]
      /\ link' = [link EXCEPT ![Parent(h)] = Wanted(h)]
  BY <1>1 DEF Commit
<1> QED
  BY <1>2, <1>4, <1>5

LEMMA OneCodeStep ==
    ASSUME TypeOK, TxInv, LinkedByOneCode, [Next]_vars
    PROVE  LinkedByOneCode'
<1> DEFINE Spent(p) == {c \in Codes : ParentOf[c] = p /\ code[c].usedBy # NoUser}
<1>1. CASE UNCHANGED link /\ \A c \in Codes : code'[c].usedBy = code[c].usedBy
  <2>1. ASSUME NEW p \in Parents
        PROVE  /\ IF link[p] = NoLink THEN Spent(p) = {}
                  ELSE \E c \in Codes :
                         /\ Spent(p) = {c}
                         /\ link[p] = [user |-> code[c].usedBy, school |-> SchoolOf[c]]
               /\ Spent(p)' = Spent(p)
    BY <1>1 DEF LinkedByOneCode
  <2>2. ASSUME NEW p \in Parents
        PROVE  IF link'[p] = NoLink THEN Spent(p)' = {}
               ELSE \E c \in Codes :
                      /\ Spent(p)' = {c}
                      /\ link'[p] = [user |-> code'[c].usedBy, school |-> SchoolOf[c]]
    <3> HIDE DEF Spent
    <3> QED
      BY <1>1, <2>1
  <2> QED
    BY <2>2 DEF LinkedByOneCode
<1>2. ASSUME NEW h \in Handlers, Commit(h) PROVE LinkedByOneCode'
  <2>1. PICK c \in Codes, u \in Users :
          /\ code[c].usedBy = NoUser /\ link[ParentOf[c]] = NoLink
          /\ code' = [code EXCEPT ![c] = [status |-> "used", usedBy |-> u]]
          /\ link' = [link EXCEPT ![ParentOf[c]] = [user |-> u, school |-> SchoolOf[c]]]
    BY <1>2, CommitEffect
  <2>2. u # NoUser /\ [user |-> u, school |-> SchoolOf[c]] # NoLink
    BY LinkAssumption DEF Link
  <2>3. /\ code'[c].usedBy = u /\ \A d \in Codes \ {c} : code'[d] = code[d]
        /\ link'[ParentOf[c]] = [user |-> u, school |-> SchoolOf[c]]
        /\ \A p \in Parents \ {ParentOf[c]} : link'[p] = link[p]
    BY <2>1, LinkAssumption DEF TypeOK
  <2>4. Spent(ParentOf[c])' = {c}
    <3>1. Spent(ParentOf[c]) = {}
      BY <2>1, LinkAssumption DEF LinkedByOneCode
    <3> QED
      BY <3>1, <2>2, <2>3
  <2>5. \A p \in Parents \ {ParentOf[c]} : Spent(p)' = Spent(p)
    BY <2>3
  <2>6. ASSUME NEW p \in Parents \ {ParentOf[c]}, link[p] # NoLink
        PROVE  \E d \in Codes : /\ Spent(p)' = {d}
                                /\ link'[p] = [user |-> code'[d].usedBy,
                                               school |-> SchoolOf[d]]
    <3>1. PICK d \in Codes : /\ Spent(p) = {d}
                             /\ link[p] = [user |-> code[d].usedBy, school |-> SchoolOf[d]]
      BY <2>6 DEF LinkedByOneCode
    <3>2. d # c
      BY <3>1
    <3> QED
      BY <2>3, <2>5, <3>1, <3>2
  <2>7. ASSUME NEW p \in Parents \ {ParentOf[c]}, link[p] = NoLink PROVE Spent(p)' = {}
    BY <2>5, <2>7 DEF LinkedByOneCode
  <2> QED
    BY <2>2, <2>3, <2>4, <2>6, <2>7 DEF LinkedByOneCode
<1> QED
  BY <1>1, <1>2, CodeSteps

\* A link stems from one code, however many are redeemed at once.
THEOREM LinkStemsFromOneCode == Spec => []LinkedByOneCode
<1>1. Init => LinkedByOneCode
  BY DEF Init, LinkedByOneCode
<1>2. TypeOK /\ TxInv /\ LinkedByOneCode /\ [Next]_vars => LinkedByOneCode'
  BY OneCodeStep
<1> QED
  BY <1>1, <1>2, TxInvariant, PTL DEF Spec

-----------------------------------------------------------------------------
(* The refinement. *)

LEMMA RegistryStep ==
    ASSUME TypeOK, TypeOK', TxInv, [Next]_vars
    PROVE  [Registry!Next]_Registry!vars
<1>1. CASE UNCHANGED <<code, link>>
  BY <1>1 DEF Registry!vars, Invitation, Redeemer
<1>2. ASSUME NEW h \in Handlers, Commit(h) PROVE Registry!Next
  <2>1. PICK c \in Codes, u \in Users :
          /\ code[c].status = "active" /\ code[c].usedBy = NoUser
          /\ link[ParentOf[c]] = NoLink
          /\ \A p \in Parents : link[p] # [user |-> u, school |-> SchoolOf[c]]
          /\ code' = [code EXCEPT ![c] = [status |-> "used", usedBy |-> u]]
          /\ link' = [link EXCEPT ![ParentOf[c]] = [user |-> u, school |-> SchoolOf[c]]]
    BY <1>2, CommitEffect
  <2>2. /\ code'[c].status = "used" /\ code'[c].usedBy = u
        /\ \A d \in Codes \ {c} : code'[d] = code[d]
    BY <2>1 DEF TypeOK
  <2>3. Invitation[c] = "open"
    BY <2>1 DEF Invitation
  <2>4. Invitation' = [Invitation EXCEPT ![c] = "closed"]
    BY <2>2 DEF Invitation
  <2>5. Redeemer' = [Redeemer EXCEPT ![c] = u]
    BY <2>2 DEF Redeemer
  <2>6. Registry!Redeem(c, u)
    BY <2>1, <2>3, <2>4, <2>5 DEF Registry!Redeem
  <2> QED
    BY <2>6 DEF Registry!Next
<1>3. ASSUME NEW a \in Admins, NEW c \in Codes, RevokeActiveCodes(a, c)
      PROVE  Registry!Next
  <2> DEFINE S == {d \in Codes : SamePair(c, d) /\ code[d].status = "active"}
  <2>1. /\ code' = [d \in Codes |-> IF d \in S THEN [code[d] EXCEPT !.status = "revoked"]
                                    ELSE code[d]]
        /\ UNCHANGED link
    BY <1>3 DEF RevokeActiveCodes
  <2>2. \A d \in Codes : /\ code'[d].usedBy = code[d].usedBy
                         /\ d \in S => code'[d].status = "revoked"
                         /\ d \notin S => code'[d] = code[d]
    BY <2>1 DEF TypeOK, CodeRow
  <2>3. \A d \in S : Invitation[d] = "open"
    BY DEF Invitation
  <2>4. Invitation' = [d \in Codes |-> IF d \in S THEN "closed" ELSE Invitation[d]]
    BY <2>2 DEF Invitation
  <2>5. Redeemer' = Redeemer
    BY <2>2 DEF Redeemer
  <2>6. S \in SUBSET Codes /\ Registry!Close(S)
    BY <2>1, <2>3, <2>4, <2>5 DEF Registry!Close
  <2> QED
    BY <2>6 DEF Registry!Next
<1>4. ASSUME NEW a \in Admins, CreateParentInvitationCode(a) PROVE Registry!Next
  <2>1. PICK c \in Codes : c = admin[a].code
    BY <1>4 DEF CreateParentInvitationCode, TypeOK
  <2>2. /\ code[c].status = "none" /\ code' = [code EXCEPT ![c].status = "active"]
        /\ UNCHANGED link
    BY <1>4, <2>1 DEF CreateParentInvitationCode, TxInv, StoredOnce
  <2>3. /\ code'[c].status = "active" /\ code'[c].usedBy = code[c].usedBy
        /\ \A d \in Codes \ {c} : code'[d] = code[d]
    BY <2>2 DEF TypeOK, CodeRow
  <2>4. Invitation[c] = "new" /\ Invitation' = [Invitation EXCEPT ![c] = "open"]
    BY <2>2, <2>3 DEF Invitation
  <2>5. Redeemer' = Redeemer
    BY <2>3 DEF Redeemer
  <2>6. Registry!Issue(c)
    BY <2>2, <2>4, <2>5 DEF Registry!Issue
  <2> QED
    BY <2>6 DEF Registry!Next
<1>5. ASSUME NEW a \in Admins, RevokeParentInvitationCode(a)
      PROVE  [Registry!Next]_Registry!vars
  <2>1. PICK c \in Codes : c = admin[a].code
    BY <1>5 DEF RevokeParentInvitationCode, TypeOK
  <2>2. /\ code[c].status # "none" /\ code' = [code EXCEPT ![c].status = "revoked"]
        /\ UNCHANGED link
    BY <1>5, <2>1 DEF RevokeParentInvitationCode, TxInv, StoredOnce
  <2>3. /\ code'[c].status = "revoked" /\ code'[c].usedBy = code[c].usedBy
        /\ \A d \in Codes \ {c} : code'[d] = code[d]
    BY <2>2 DEF TypeOK, CodeRow
  <2>4. Redeemer' = Redeemer
    BY <2>3 DEF Redeemer
  <2>5. CASE code[c].status = "active"
    <3>1. \A d \in {c} : Invitation[d] = "open"
      BY <2>5 DEF Invitation
    <3>2. Invitation' = [d \in Codes |-> IF d \in {c} THEN "closed" ELSE Invitation[d]]
      BY <2>3 DEF Invitation
    <3>3. {c} \in SUBSET Codes /\ Registry!Close({c})
      BY <2>2, <2>4, <3>1, <3>2 DEF Registry!Close
    <3> QED
      BY <3>3 DEF Registry!Next
  <2>6. CASE code[c].status # "active"
    <3>1. Invitation' = Invitation
      BY <2>2, <2>3, <2>6 DEF Invitation
    <3> QED
      BY <2>2, <2>4, <3>1 DEF Registry!vars
  <2> QED
    BY <2>5, <2>6
<1>6. ASSUME NEW a \in Admins, NEW c \in Codes, ReadCodeToRevoke(a, c)
      PROVE  UNCHANGED <<code, link>>
  BY <1>6 DEF ReadCodeToRevoke
<1>7. ASSUME NEW h \in Handlers, Redeeming(h), ~Commit(h) PROVE UNCHANGED <<code, link>>
  BY <1>7 DEF Redeeming, CheckParent, CheckUser, CreateParentSuperAppLink, MarkCodeUsed,
              HasActiveSubscription, CreateTrial
<1>8. ASSUME \/ \E h \in Handlers : HandlerStops(h)
             \/ \E h \in Handlers, c \in Codes, u \in Users : LookUpCode(h, c, u)
             \/ \E a \in Admins : AdminStops(a)
             \/ \E p \in Parents, s \in Schools : SubscriptionChanges(p, s)
             \/ UNCHANGED vars
      PROVE  UNCHANGED <<code, link>>
  BY <1>8 DEF HandlerStops, LookUpCode, AdminStops, SubscriptionChanges, vars
<1> QED
  BY <1>1, <1>2, <1>3, <1>4, <1>5, <1>6, <1>7, <1>8 DEF Next, Administering

\* ParentLink implements the registry: the initial states map to its initial
\* states and every step to one of its steps or to a stutter.
THEOREM LinkImplementsRegistry == Spec => ImplementsRegistry
<1>1. Init => Registry!Init
  BY DEF Init, Registry!Init, Invitation, Redeemer
<1>2. TypeOK /\ TypeOK' /\ TxInv /\ [Next]_vars => [Registry!Next]_Registry!vars
  BY RegistryStep
<1> QED
  BY <1>1, <1>2, TxInvariant, PTL DEF Spec, ImplementsRegistry, Registry!Spec

-----------------------------------------------------------------------------
(* Access. *)

\* Until billing changes a subscription, a linked parent has a running one, and a
\* redemption that will commit has found one or will commit its trial.
Admitted(p) == link[p] # NoLink => sub[<<p, link[p].school>>] = "live"
WillAdmit(h) == task[h].pc = "commit" => task[h].trial \/ sub[<<Parent(h), School(h)>>] = "live"

AccessInv == budget.changes = 0 => /\ \A p \in Parents : Admitted(p)
                                   /\ \A h \in Handlers : WillAdmit(h)

\* Steps after which no handler is at its commit that was not there before.
LEMMA AccessKept ==
    ASSUME TypeOK, AccessInv, UNCHANGED <<link, sub>>, budget'.changes = budget.changes,
           \A h \in Handlers : task'[h] = task[h] \/ task'[h].pc # "commit"
    PROVE  AccessInv'
<1> SUFFICES ASSUME budget.changes = 0
             PROVE  /\ \A p \in Parents : Admitted(p)'
                    /\ \A h \in Handlers : WillAdmit(h)'
  BY DEF AccessInv
<1>1. \A p \in Parents : Admitted(p)'
  BY DEF AccessInv, Admitted
<1>2. \A h \in Handlers : WillAdmit(h)'
  BY DEF AccessInv, WillAdmit, Parent, School
<1> QED
  BY <1>1, <1>2

LEMMA CommitAccess ==
    ASSUME TypeOK, AccessInv, NEW h \in Handlers, Commit(h)
    PROVE  AccessInv'
<1> SUFFICES ASSUME budget.changes = 0
             PROVE  /\ \A p \in Parents : Admitted(p)'
                    /\ \A g \in Handlers : WillAdmit(g)'
  BY DEF AccessInv, Commit
<1>1. PICK p \in Parents, s \in Schools :
        p = Parent(h) /\ s = School(h) /\ Wanted(h).school = s
  BY LinkAssumption DEF Commit, TypeOK, Parent, School, Wanted
<1>2. /\ link' = [link EXCEPT ![p] = Wanted(h)]
      /\ sub' = IF task[h].trial THEN [sub EXCEPT ![<<p, s>>] = "live"] ELSE sub
      /\ task[h].trial \/ sub[<<p, s>>] = "live"
  BY <1>1 DEF Commit, AccessInv, WillAdmit
<1>3. /\ sub'[<<p, s>>] = "live"
      /\ \A ps \in Parents \X Schools : sub[ps] = "live" => sub'[ps] = "live"
  BY <1>2 DEF TypeOK
<1>4. /\ task'[h].pc = "idle" /\ \A g \in Handlers \ {h} : task'[g] = task[g]
      /\ \A g \in Handlers : task[g].pc # "idle" => task[g].code \in Codes
  BY HandlerFinishes DEF Commit, TypeOK
<1>5. ASSUME NEW q \in Parents PROVE Admitted(q)'
  <2>1. CASE q = p
    BY <1>1, <1>2, <1>3, <2>1 DEF Admitted, TypeOK
  <2>2. CASE q # p
    <3>1. link'[q] = link[q] /\ (link[q] # NoLink => <<q, link[q].school>> \in Parents \X Schools)
      BY <1>2, <2>2 DEF TypeOK, Link
    <3> QED
      BY <1>3, <3>1 DEF AccessInv, Admitted
  <2> QED
    BY <2>1, <2>2
<1>6. ASSUME NEW g \in Handlers PROVE WillAdmit(g)'
  <2>1. CASE g = h
    BY <1>4, <2>1 DEF WillAdmit
  <2>2. CASE g # h
    <3>1. task[g].pc = "commit" => <<Parent(g), School(g)>> \in Parents \X Schools
      BY <1>4, LinkAssumption DEF Parent, School
    <3> QED
      BY <1>3, <1>4, <2>2, <3>1 DEF AccessInv, WillAdmit, Parent, School
  <2> QED
    BY <2>1, <2>2
<1> QED
  BY <1>5, <1>6

LEMMA AccessStep ==
    ASSUME TypeOK, AccessInv, [Next]_vars
    PROVE  AccessInv'
<1>1. ASSUME NEW h \in Handlers, Redeeming(h) PROVE AccessInv'
  <2>0. task[h] \in Task
    BY DEF TypeOK
  <2>1. CASE CheckParent(h) \/ CheckUser(h) \/ CreateParentSuperAppLink(h) \/ MarkCodeUsed(h)
    <3>1. /\ Finish(h) \/ \E pc \in Pcs \ {"commit"} : Goto(h, pc)
          /\ task[h].pc # "idle" /\ UNCHANGED <<link, sub, budget>>
      BY <2>1 DEF CheckParent, CheckUser, CreateParentSuperAppLink, MarkCodeUsed, Pcs
    <3> QED
      BY <3>1, HandlerGoes, HandlerFinishes, AccessKept
  <2>2. CASE HasActiveSubscription(h)
    <3>1. /\ task[h].pc # "idle" /\ UNCHANGED <<link, sub, budget>>
          /\ Goto(h, IF sub[<<Parent(h), School(h)>>] = "live" THEN "commit" ELSE "trial")
      BY <2>2 DEF HasActiveSubscription
    <3>2. CASE sub[<<Parent(h), School(h)>>] # "live"
      BY <3>1, <3>2, HandlerGoes, AccessKept DEF Pcs
    <3>3. CASE sub[<<Parent(h), School(h)>>] = "live"
      <4>1. /\ task'[h].code = task[h].code /\ \A g \in Handlers \ {h} : task'[g] = task[g]
        BY <3>1, <3>3, HandlerGoes DEF Pcs
      <4>2. \A p \in Parents : Admitted(p)' <=> Admitted(p)
        BY <3>1 DEF Admitted
      <4>3. \A g \in Handlers : (WillAdmit(g) => WillAdmit(g)')
        BY <3>1, <3>3, <4>1 DEF WillAdmit, Parent, School
      <4> QED
        BY <3>1, <4>2, <4>3 DEF AccessInv
    <3> QED
      BY <3>2, <3>3
  <2>3. CASE CreateTrial(h)
    <3>1. UNCHANGED <<link, sub, budget>>
      BY <2>3 DEF CreateTrial
    <3>2. CASE Finish(h)
      BY <3>1, <3>2, HandlerFinishes, AccessKept
    <3>3. CASE task' = [task EXCEPT ![h] = [task[h] EXCEPT !.pc = "commit", !.trial = TRUE]]
      <4>1. /\ task'[h].trial /\ \A g \in Handlers \ {h} : task'[g] = task[g]
        BY <2>0, <3>3 DEF TypeOK, Task
      <4>2. \A p \in Parents : Admitted(p)' <=> Admitted(p)
        BY <3>1 DEF Admitted
      <4>3. \A g \in Handlers : (WillAdmit(g) => WillAdmit(g)')
        BY <3>1, <4>1 DEF WillAdmit, Parent, School
      <4> QED
        BY <3>1, <4>2, <4>3 DEF AccessInv
    <3> QED
      BY <2>3, <3>2, <3>3 DEF CreateTrial
  <2>4. CASE Commit(h)
    BY <2>4, CommitAccess
  <2> QED
    BY <1>1, <2>1, <2>2, <2>3, <2>4 DEF Redeeming
<1>2. ASSUME NEW a \in Admins, Administering(a) PROVE AccessInv'
  BY <1>2, AccessKept DEF Administering, RevokeActiveCodes, ReadCodeToRevoke,
                          CreateParentInvitationCode, RevokeParentInvitationCode
<1>3. ASSUME NEW h \in Handlers, HandlerStops(h) PROVE AccessInv'
  <2>1. UNCHANGED <<link, sub>> /\ budget'.changes = budget.changes /\ Finish(h)
    BY <1>3 DEF HandlerStops, TypeOK
  <2> QED
    BY <2>1, HandlerFinishes, AccessKept
<1>4. ASSUME NEW h \in Handlers, NEW c \in Codes, NEW u \in Users, LookUpCode(h, c, u)
      PROVE  AccessInv'
  <2>1. /\ task'[h].pc = "parent" /\ \A g \in Handlers \ {h} : task'[g] = task[g]
        /\ UNCHANGED <<link, sub, budget>>
    BY <1>4 DEF LookUpCode, TypeOK
  <2> QED
    BY <2>1, AccessKept
<1>5. ASSUME NEW a \in Admins, AdminStops(a) PROVE AccessInv'
  <2>1. UNCHANGED <<link, sub, task>> /\ budget'.changes = budget.changes
    BY <1>5 DEF AdminStops, TypeOK
  <2> QED
    BY <2>1, AccessKept
<1>6. ASSUME NEW p \in Parents, NEW s \in Schools, SubscriptionChanges(p, s)
      PROVE  AccessInv'
  <2>1. budget.changes \in Nat /\ budget'.changes = budget.changes + 1
    BY <1>6, LinkAssumption DEF SubscriptionChanges, TypeOK
  <2> QED
    BY <2>1 DEF AccessInv
<1>7. CASE UNCHANGED vars
  BY <1>7, AccessKept DEF vars
<1> QED
  BY <1>1, <1>2, <1>3, <1>4, <1>5, <1>6, <1>7 DEF Next

\* Unless billing takes it away, a linked parent has a running subscription at the
\* school of the code: the one LinkSuperApp found, or its trial.
THEOREM LinkedAreAdmitted == Spec => []LinkedHasAccess
<1>1. Init => AccessInv
  BY LinkAssumption DEF Init, AccessInv, Admitted, WillAdmit, IdleTask
<1>2. TypeOK /\ AccessInv /\ [Next]_vars => AccessInv'
  BY AccessStep
<1>3. AccessInv => LinkedHasAccess
  BY DEF AccessInv, Admitted, LinkedHasAccess
<1> QED
  BY <1>1, <1>2, <1>3, LinkTypeCorrect, PTL DEF Spec
=============================================================================
