------------------------- MODULE AlertDeliveryProofs -------------------------
(***************************************************************************)
(* What holds of the alerts and of their deliveries for any number of      *)
(* conditions, alerts, attempts and faults, and any LIMIT.                 *)
(***************************************************************************)
EXTENDS AlertDelivery, TLAPS

USE AlertsAssumption, DeliveryAssumption

\* The monitor is about to insert an alert: the only ones of its condition that
\* can be open are those re-opened since, or before, it looked.
MonitorKnows ==
    mon.pc = "create" =>
        \A a \in DOMAIN alerts :
            IsOpen(a) /\ alerts[a].cond = mon.cond => alerts[a].reopened

\* A row that is being sent or marked is not marked SENT, and the messages told
\* are the one of a row marked SENT and the one about to be marked.
MessagesCounted ==
    /\ worker.pc \in {"send", "mark", "fail"} => rows[worker.row].status # "SENT"
    /\ \A r \in DOMAIN rows :
          rows[r].told = IF \/ rows[r].status = "SENT"
                            \/ worker.pc = "mark" /\ worker.row = r
                         THEN 1 ELSE 0

OneRowPerTarget ==
    \A r, s \in DOMAIN rows :
        rows[r].alert = rows[s].alert /\ rows[r].kind = rows[s].kind => r = s

\* What the list of resolved alerts promises of its members outlasts the phase.
ListedAfterOpened ==
    worker.phase = "resolved" => \A a \in worker.queue : IsSent(a, "OPENED")

ResolvedHasOpened ==
    \A r \in DOMAIN rows : rows[r].kind = "RESOLVED" => IsSent(rows[r].alert, "OPENED")

IInv ==
    /\ TypeOK /\ OneOpenAlert /\ MonitorKnows
    /\ MessagesCounted /\ OneRowPerTarget /\ AttemptsBounded
    /\ ListedAfterOpened /\ ResolvedHasOpened

-----------------------------------------------------------------------------
(* Alerts. *)

\* What every step leaves of the table alerts.
AlertsKept ==
    \A a \in DOMAIN alerts : a \in DOMAIN alerts' /\ alerts'[a].cond = alerts[a].cond

LEMMA CreateFacts ==
    ASSUME alerts \in Seq(Alert), clock \in Nat, NEW c \in Conditions, CreateAlert(c)
    PROVE  /\ alerts' \in Seq(Alert) /\ clock' \in Nat
           /\ Len(alerts') = Len(alerts) + 1
           /\ \A a \in DOMAIN alerts : a \in DOMAIN alerts' /\ alerts'[a] = alerts[a]
           /\ \A a \in DOMAIN alerts' : a \in DOMAIN alerts \/ a = Len(alerts) + 1
           /\ alerts'[Len(alerts) + 1].cond = c
<1>. DEFINE new == [cond |-> c, status |-> "OPEN", resolvedAt |-> 0, reopened |-> FALSE]
<1>1. new \in Alert
  BY DEF Alert
<1>2. alerts' = Append(alerts, new) /\ clock' = clock
  BY DEF CreateAlert
<1>. HIDE DEF new
<1>3. alerts' \in Seq(Alert) /\ Len(alerts') = Len(alerts) + 1
  BY <1>1, <1>2
<1>4. \A a \in DOMAIN alerts : a \in DOMAIN alerts' /\ alerts'[a] = alerts[a]
  BY <1>1, <1>2
<1>5. alerts'[Len(alerts) + 1] = new
  BY <1>1, <1>2
<1>. QED
  BY <1>2, <1>3, <1>4, <1>5 DEF new

LEMMA ResolveFacts ==
    ASSUME alerts \in Seq(Alert), clock \in Nat, NEW a \in DOMAIN alerts, ResolveAlert(a)
    PROVE  /\ alerts' \in Seq(Alert) /\ clock' \in Nat
           /\ DOMAIN alerts' = DOMAIN alerts
           /\ \A b \in DOMAIN alerts : alerts'[b].cond = alerts[b].cond
                                       /\ alerts'[b].reopened = alerts[b].reopened
           /\ \A b \in DOMAIN alerts : b # a => alerts'[b] = alerts[b]
           /\ alerts'[a].status = "RESOLVED"
<1>. DEFINE new == [alerts[a] EXCEPT !.status = "RESOLVED", !.resolvedAt = clock + 1]
<1>1. alerts[a] \in Alert
  OBVIOUS
<1>2. /\ new \in Alert /\ new.status = "RESOLVED"
      /\ new.cond = alerts[a].cond /\ new.reopened = alerts[a].reopened
  <2>1. new \in Alert
    <3>1. \A n \in Nat : [alerts[a] EXCEPT !.status = "RESOLVED", !.resolvedAt = n] \in Alert
      BY <1>1 DEF Alert
    <3>2. clock + 1 \in Nat
      OBVIOUS
    <3>. QED
      BY <3>1, <3>2
  <2>2. new.status = "RESOLVED" /\ new.cond = alerts[a].cond
    BY <1>1 DEF Alert
  <2>3. new.reopened = alerts[a].reopened
    BY <1>1 DEF Alert
  <2>. QED
    BY <2>1, <2>2, <2>3
<1>3. alerts' = [alerts EXCEPT ![a] = new] /\ clock' = clock + 1
  BY DEF ResolveAlert
<1>. HIDE DEF new
<1>. QED
  BY <1>2, <1>3

LEMMA AcknowledgeFacts ==
    ASSUME alerts \in Seq(Alert), clock \in Nat, NEW a \in DOMAIN alerts,
           UpdateAlertStatus(a, "ACKNOWLEDGED")
    PROVE  /\ alerts' \in Seq(Alert) /\ clock' \in Nat
           /\ DOMAIN alerts' = DOMAIN alerts
           /\ \A b \in DOMAIN alerts : b # a => alerts'[b] = alerts[b]
           /\ alerts'[a].cond = alerts[a].cond
           /\ alerts[a].status = "RESOLVED" \/ alerts[a].reopened => alerts'[a].reopened
<1>. DEFINE new == [alerts[a] EXCEPT !.status = "ACKNOWLEDGED",
                                     !.reopened = \/ alerts[a].reopened
                                                  \/ alerts[a].status = "RESOLVED"]
<1>1. alerts[a] \in Alert
  OBVIOUS
<1>2. /\ new.cond = alerts[a].cond
      /\ alerts[a].status = "RESOLVED" \/ alerts[a].reopened => new.reopened
  BY <1>1 DEF Alert
<1>3. new \in Alert
  <2>1. (alerts[a].reopened \/ alerts[a].status = "RESOLVED") \in BOOLEAN
    OBVIOUS
  <2>. QED
    BY <1>1, <2>1 DEF Alert
<1>4. alerts' = [alerts EXCEPT ![a] = new] /\ clock' = clock
  BY DEF UpdateAlertStatus
<1>. HIDE DEF new
<1>. QED
  BY <1>2, <1>3, <1>4

Budget == [flips : 0..MaxFlips, admin : 0..MaxAdmin, faults : 0..MaxFaults]

LEMMA BudgetSpent ==
    ASSUME budget \in Budget
    PROVE  /\ budget.flips > 0 => [budget EXCEPT !.flips = budget.flips - 1] \in Budget
           /\ budget.admin > 0 => [budget EXCEPT !.admin = budget.admin - 1] \in Budget
           /\ budget.faults > 0 => [budget EXCEPT !.faults = budget.faults - 1] \in Budget
<1>1. /\ budget.flips > 0 => budget.flips - 1 \in 0..MaxFlips
      /\ budget.admin > 0 => budget.admin - 1 \in 0..MaxAdmin
      /\ budget.faults > 0 => budget.faults - 1 \in 0..MaxFaults
  BY DEF Budget
<1>2. /\ \A n \in 0..MaxFlips : [budget EXCEPT !.flips = n] \in Budget
      /\ \A n \in 0..MaxAdmin : [budget EXCEPT !.admin = n] \in Budget
      /\ \A n \in 0..MaxFaults : [budget EXCEPT !.faults = n] \in Budget
  BY DEF Budget
<1>. QED
  BY <1>1, <1>2

AInv == AlertsTypeOK /\ OneOpenAlert /\ MonitorKnows

\* The steps of the monitor and of the environment that write no alert.
LEMMA MonitorReads ==
    ASSUME AInv, NEW c \in Conditions,
           MonitorTick \/ MonitorPasses(c) \/ MonitorFindsNone(c) \/ MonitorFindsOpen(c)
    PROVE  AInv' /\ UNCHANGED <<alerts, clock, budget>>
<1>1. UNCHANGED <<alerts, clock, health, budget>>
  BY DEF MonitorTick, MonitorPasses, MonitorFindsNone, MonitorFindsOpen
<1>2. OneOpenAlert'
  BY <1>1 DEF AInv, OneOpenAlert, IsOpen
<1>3. mon \in Monitor /\ health \in [Conditions -> Health]
  BY DEF AInv, AlertsTypeOK
<1>4. Checked(c) \in Monitor /\ Checked(c).pc = mon.pc /\ Checked(c).id = mon.id
  <2>1. [mon.seen EXCEPT ![c] = "unclear"] \in [Conditions -> Health]
    BY <1>3 DEF Monitor, Health
  <2>. QED
    BY <1>3, <2>1 DEF Checked, Monitor
<1>5. CASE MonitorTick
  <2>1. [d \in Conditions |-> IF d \in FromList THEN health[d] ELSE "unclear"]
           \in [Conditions -> Health]
    BY <1>3 DEF Health
  <2>2. mon' \in Monitor /\ mon'.pc = "next"
    BY <1>3, <1>5, <2>1 DEF MonitorTick, Monitor
  <2>. QED
    BY <1>1, <1>2, <2>2 DEF AInv, AlertsTypeOK, MonitorKnows
<1>6. CASE MonitorPasses(c)
  <2>1. mon' \in Monitor /\ mon'.pc = "next"
    BY <1>4, <1>6 DEF MonitorPasses
  <2>. QED
    BY <1>1, <1>2, <2>1 DEF AInv, AlertsTypeOK, MonitorKnows
<1>7. CASE MonitorFindsNone(c)
  <2>1. mon' \in Monitor /\ mon'.pc = "create" /\ mon'.cond = c
    BY <1>4, <1>7 DEF MonitorFindsNone, Monitor
  <2>2. \A a \in DOMAIN alerts : ~(IsOpen(a) /\ alerts[a].cond = c)
    BY <1>7 DEF MonitorFindsNone, OpenAlerts, IsOpen
  <2>. QED
    BY <1>1, <1>2, <2>1, <2>2 DEF AInv, AlertsTypeOK, MonitorKnows, IsOpen
<1>8. CASE MonitorFindsOpen(c)
  <2>1. PICK a \in DOMAIN alerts : mon' = [Checked(c) EXCEPT !.pc = "resolve", !.id = a]
    BY <1>8 DEF MonitorFindsOpen, OpenAlerts
  <2>2. a \in Nat
    BY DEF AInv, AlertsTypeOK
  <2>3. mon' \in Monitor /\ mon'.pc = "resolve" /\ mon'.id = a
    BY <1>4, <2>1, <2>2 DEF Monitor
  <2>. QED
    BY <1>1, <1>2, <2>3 DEF AInv, AlertsTypeOK, MonitorKnows
<1>. QED
  BY <1>1, <1>5, <1>6, <1>7, <1>8

\* Whoever resolves an alert by its id.
LEMMA ResolvingKeeps ==
    ASSUME AInv, NEW a \in DOMAIN alerts, ResolveAlert(a)
    PROVE  /\ OneOpenAlert' /\ AlertsKept /\ DOMAIN alerts' = DOMAIN alerts
           /\ alerts' \in Seq(Alert) /\ clock' \in Nat
           /\ mon' = mon => MonitorKnows'
<1>1. alerts \in Seq(Alert) /\ clock \in Nat
  BY DEF AInv, AlertsTypeOK
<1>2. /\ alerts' \in Seq(Alert) /\ clock' \in Nat
      /\ DOMAIN alerts' = DOMAIN alerts
      /\ \A b \in DOMAIN alerts : alerts'[b].cond = alerts[b].cond
                                  /\ alerts'[b].reopened = alerts[b].reopened
      /\ \A b \in DOMAIN alerts : b # a => alerts'[b] = alerts[b]
      /\ alerts'[a].status = "RESOLVED"
  BY <1>1, ResolveFacts
<1>3. \A b \in DOMAIN alerts : IsOpen(b)' => IsOpen(b)
  BY <1>2 DEF IsOpen
<1>4. OneOpenAlert'
  BY <1>2, <1>3 DEF AInv, OneOpenAlert
<1>5. mon' = mon => MonitorKnows'
  BY <1>2, <1>3 DEF AInv, MonitorKnows
<1>. QED
  BY <1>2, <1>4, <1>5 DEF AlertsKept

LEMMA AlertsStep ==
    ASSUME AInv, AlertsNext
    PROVE  AInv' /\ AlertsKept
<1>1. /\ alerts \in Seq(Alert) /\ clock \in Nat /\ mon \in Monitor
      /\ health \in [Conditions -> Health] /\ budget \in Budget
  BY DEF AInv, AlertsTypeOK, Budget
<1>2. UNCHANGED alerts => AlertsKept /\ OneOpenAlert'
  BY DEF AlertsKept, AInv, OneOpenAlert, IsOpen
<1>3. ASSUME Fault PROVE budget' \in Budget
  BY <1>1, <1>3, BudgetSpent DEF Fault
<1>4. ASSUME NEW c \in Conditions,
             MonitorTick \/ MonitorPasses(c) \/ MonitorFindsNone(c) \/ MonitorFindsOpen(c)
      PROVE  AInv' /\ AlertsKept
  BY <1>2, <1>4, MonitorReads
<1>5. ASSUME MonitorGoesOn PROVE mon' \in Monitor /\ mon'.pc = "next"
  BY <1>1, <1>5 DEF MonitorGoesOn, Monitor
<1>6. CASE MonitorTick
  <2>1. CASE Conditions = {}
    <3>1. [d \in Conditions |-> IF d \in FromList THEN health[d] ELSE "unclear"]
             \in [Conditions -> Health]
      BY <2>1
    <3>2. mon' \in Monitor /\ mon'.pc = "next"
      BY <1>1, <1>6, <3>1 DEF MonitorTick, Monitor
    <3>. QED
      BY <1>2, <1>6, <3>2 DEF MonitorTick, AInv, AlertsTypeOK, MonitorKnows
  <2>2. CASE Conditions # {}
    BY <1>4, <1>6, <2>2
  <2>. QED
    BY <2>1, <2>2
<1>7. CASE MonitorCreates
  <2>. DEFINE c == mon.cond
             n == Len(alerts) + 1
  <2>1. c \in Conditions /\ CreateAlert(c) /\ MonitorGoesOn /\ UNCHANGED <<health, budget>>
    BY <1>7 DEF MonitorCreates, AInv, AlertsTypeOK
  <2>2. /\ alerts' \in Seq(Alert) /\ clock' \in Nat
        /\ Len(alerts') = n
        /\ \A a \in DOMAIN alerts : a \in DOMAIN alerts' /\ alerts'[a] = alerts[a]
        /\ \A a \in DOMAIN alerts' : a \in DOMAIN alerts \/ a = n
        /\ alerts'[n].cond = c
    BY <1>1, <2>1, CreateFacts
  <2>3. \A a \in DOMAIN alerts : IsOpen(a)' => IsOpen(a)
    BY <2>2 DEF IsOpen
  <2>4. \A a \in DOMAIN alerts : IsOpen(a) /\ alerts[a].cond = c => alerts[a].reopened
    BY <1>7 DEF MonitorCreates, AInv, MonitorKnows
  <2>5. OneOpenAlert'
    <3>. SUFFICES ASSUME NEW a \in DOMAIN alerts', NEW b \in DOMAIN alerts',
                         IsOpen(a)', IsOpen(b)', alerts'[a].cond = alerts'[b].cond, a # b
                  PROVE  alerts'[a].reopened \/ alerts'[b].reopened
      BY DEF OneOpenAlert
    <3>1. CASE a = n
      BY <2>2, <2>3, <2>4, <3>1
    <3>2. CASE b = n
      BY <2>2, <2>3, <2>4, <3>2
    <3>3. CASE a # n /\ b # n
      BY <2>2, <2>3, <3>3 DEF AInv, OneOpenAlert
    <3>. QED
      BY <3>1, <3>2, <3>3
  <2>6. mon' \in Monitor /\ mon'.pc = "next"
    BY <1>5, <2>1
  <2>7. AlertsKept
    BY <2>2 DEF AlertsKept
  <2>. QED
    BY <2>1, <2>2, <2>5, <2>6, <2>7 DEF AInv, AlertsTypeOK, MonitorKnows
<1>8. CASE MonitorResolves
  <2>1. /\ mon.id \in DOMAIN alerts /\ ResolveAlert(mon.id)
        /\ MonitorGoesOn /\ UNCHANGED <<health, budget>>
    BY <1>8 DEF MonitorResolves, AInv, AlertsTypeOK
  <2>2. /\ OneOpenAlert' /\ AlertsKept
        /\ alerts' \in Seq(Alert) /\ clock' \in Nat
    BY <2>1, ResolvingKeeps
  <2>. QED
    BY <1>5, <2>1, <2>2 DEF AInv, AlertsTypeOK, MonitorKnows
<1>9. CASE MonitorLosesWrite
  BY <1>2, <1>3, <1>5, <1>9 DEF MonitorLosesWrite, AInv, AlertsTypeOK, MonitorKnows, Budget
<1>10. CASE MonitorCrash
  <2>1. [c \in Conditions |-> "unclear"] \in [Conditions -> Health]
    BY DEF Health
  <2>2. MonitorIdle \in Monitor /\ MonitorIdle.pc = "next"
    BY <2>1 DEF MonitorIdle, Monitor
  <2>3. UNCHANGED <<alerts, clock, health>> /\ mon' = MonitorIdle /\ budget' \in Budget
    BY <1>3, <1>10 DEF MonitorCrash
  <2>. QED
    BY <1>1, <1>2, <2>2, <2>3 DEF AInv, AlertsTypeOK, MonitorKnows, Budget
<1>11. ASSUME NEW c \in Conditions, NEW h \in Health, HealthChanges(c, h)
       PROVE  AInv' /\ AlertsKept
  <2>1. health' \in [Conditions -> Health] /\ budget' \in Budget
    BY <1>1, <1>11, BudgetSpent DEF HealthChanges
  <2>2. UNCHANGED <<alerts, clock, mon>>
    BY <1>11 DEF HealthChanges
  <2>. QED
    BY <1>2, <2>1, <2>2 DEF AInv, AlertsTypeOK, MonitorKnows, Budget, IsOpen
<1>12. ASSUME NEW a \in DOMAIN alerts, AdminAcknowledges(a)
       PROVE  AInv' /\ AlertsKept
  <2>1. /\ UpdateAlertStatus(a, "ACKNOWLEDGED") /\ UNCHANGED <<health, mon>>
        /\ budget' \in Budget
    BY <1>1, <1>12, BudgetSpent DEF AdminAcknowledges
  <2>2. /\ alerts' \in Seq(Alert) /\ clock' \in Nat
        /\ DOMAIN alerts' = DOMAIN alerts
        /\ \A b \in DOMAIN alerts : b # a => alerts'[b] = alerts[b]
        /\ alerts'[a].cond = alerts[a].cond
        /\ alerts[a].status = "RESOLVED" \/ alerts[a].reopened => alerts'[a].reopened
    BY <1>1, <2>1, AcknowledgeFacts
  <2>3. alerts[a].status \in {"OPEN", "ACKNOWLEDGED", "RESOLVED"}
    <3>1. alerts[a] \in Alert
      BY <1>1
    <3>. QED
      BY <3>1 DEF Alert
  <2>4. \A b \in DOMAIN alerts : /\ alerts'[b].cond = alerts[b].cond
                                 /\ alerts[b].reopened => alerts'[b].reopened
                                 /\ IsOpen(b)' => IsOpen(b) \/ alerts'[b].reopened
    <3>1. ASSUME NEW b \in DOMAIN alerts, b # a
          PROVE  alerts'[b] = alerts[b] /\ (IsOpen(b)' => IsOpen(b))
      BY <2>2, <3>1 DEF IsOpen
    <3>2. alerts[a].status # "RESOLVED" => IsOpen(a)
      BY <2>3 DEF IsOpen
    <3>. QED
      BY <2>2, <3>1, <3>2, Zenon
  <2>5. OneOpenAlert'
    BY <2>2, <2>4 DEF AInv, OneOpenAlert
  <2>6. MonitorKnows'
    BY <2>1, <2>2, <2>4 DEF AInv, MonitorKnows
  <2>7. AlertsKept
    BY <2>2, <2>4 DEF AlertsKept
  <2>. QED
    BY <2>1, <2>2, <2>5, <2>6, <2>7 DEF AInv, AlertsTypeOK, Budget
<1>13. ASSUME NEW a \in DOMAIN alerts, AdminResolves(a)
       PROVE  AInv' /\ AlertsKept
  <2>1. ResolveAlert(a) /\ UNCHANGED <<health, mon>> /\ budget' \in Budget
    BY <1>1, <1>13, BudgetSpent DEF AdminResolves
  <2>2. /\ OneOpenAlert' /\ AlertsKept /\ DOMAIN alerts' = DOMAIN alerts
        /\ alerts' \in Seq(Alert) /\ clock' \in Nat /\ MonitorKnows'
    BY <2>1, ResolvingKeeps
  <2>. QED
    BY <2>1, <2>2 DEF AInv, AlertsTypeOK, Budget
<1>. QED
  BY <1>4, <1>6, <1>7, <1>8, <1>9, <1>10, <1>11, <1>12, <1>13 DEF AlertsNext, MonitorSteps

-----------------------------------------------------------------------------
(* Deliveries. *)

\* What every step leaves of the table alert_deliveries.
RowsKept ==
    \A r \in DOMAIN rows :
        /\ r \in DOMAIN rows'
        /\ rows'[r].alert = rows[r].alert /\ rows'[r].kind = rows[r].kind
        /\ rows[r].status = "SENT" => rows'[r] = rows[r]

WorkerOK ==
    /\ worker \in Worker
    /\ worker.pc # "next" => worker.row \in DOMAIN rows
    /\ worker.queue \subseteq IF worker.phase = "pending" THEN DOMAIN rows
                                                         ELSE DOMAIN alerts
    /\ worker.phase = "idle" => worker = WorkerIdle

LEMMA SentStays ==
    ASSUME RowsKept, NEW a, NEW k, IsSent(a, k)
    PROVE  IsSent(a, k)'
BY DEF RowsKept, IsSent, RowsOf

\* A step of the worker that writes no row.
LEMMA WorkerMoves ==
    ASSUME IInv, UNCHANGED <<alertsVars, muted, rows>>, budget' \in Budget, WorkerOK',
           worker.pc # "mark", worker'.pc # "mark",
           worker'.pc \in {"send", "fail"} => worker.pc = "send" /\ worker'.row = worker.row,
           ListedAfterOpened'
    PROVE  IInv' /\ RowsKept
<1>1. UNCHANGED <<alerts, clock, health, mon, muted, rows>>
  BY DEF alertsVars
<1>2. TypeOK'
  BY <1>1 DEF IInv, TypeOK, AlertsTypeOK, WorkerOK, Budget
<1>3. OneOpenAlert' /\ MonitorKnows'
  BY <1>1 DEF IInv, OneOpenAlert, MonitorKnows, IsOpen
<1>4. MessagesCounted'
  BY <1>1 DEF IInv, MessagesCounted
<1>5. OneRowPerTarget' /\ AttemptsBounded' /\ ResolvedHasOpened'
  BY <1>1 DEF IInv, OneRowPerTarget, AttemptsBounded, ResolvedHasOpened, IsSent, RowsOf
<1>6. RowsKept
  BY <1>1 DEF RowsKept
<1>. QED
  BY <1>2, <1>3, <1>4, <1>5, <1>6 DEF IInv

\* A step of the worker that writes the row it works on, which is not yet SENT.
LEMMA RowWritten ==
    ASSUME IInv, UNCHANGED <<alertsVars, muted>>, budget' \in Budget, WorkerOK',
           worker.pc # "next", rows[worker.row].status # "SENT",
           NEW e \in Row, rows' = [rows EXCEPT ![worker.row] = e],
           e.alert = rows[worker.row].alert, e.kind = rows[worker.row].kind,
           e.attempts <= MaxAttempts,
           e.told = IF e.status = "SENT" \/ worker'.pc = "mark" THEN 1 ELSE 0,
           worker'.pc \in {"send", "mark", "fail"} =>
               worker'.row = worker.row /\ e.status # "SENT",
           worker'.phase = "resolved" =>
               worker.phase = "resolved" /\ worker'.queue \subseteq worker.queue
    PROVE  IInv' /\ RowsKept
<1>. DEFINE w == worker.row
<1>1. UNCHANGED <<alerts, clock, health, mon, muted>>
  BY DEF alertsVars
<1>2. rows \in Seq(Row) /\ w \in DOMAIN rows
  BY DEF IInv, TypeOK
<1>3. /\ rows' \in Seq(Row) /\ DOMAIN rows' = DOMAIN rows /\ rows'[w] = e
      /\ \A r \in DOMAIN rows : r # w => rows'[r] = rows[r]
  BY <1>2
<1>4. \A r \in DOMAIN rows : rows'[r].alert = rows[r].alert /\ rows'[r].kind = rows[r].kind
  BY <1>2, <1>3
<1>5. RowsKept
  BY <1>3, <1>4 DEF RowsKept
<1>6. TypeOK'
  <2>1. \A r \in DOMAIN rows' : rows'[r].alert \in DOMAIN alerts'
    BY <1>1, <1>3, <1>4 DEF IInv, TypeOK
  <2>. QED
    BY <1>1, <1>3, <2>1 DEF IInv, TypeOK, AlertsTypeOK, WorkerOK, Budget
<1>7. OneOpenAlert' /\ MonitorKnows'
  BY <1>1 DEF IInv, OneOpenAlert, MonitorKnows, IsOpen
<1>8. MessagesCounted'
  <2>1. worker'.pc \in {"send", "mark", "fail"} => rows'[worker'.row].status # "SENT"
    BY <1>3
  <2>2. ASSUME NEW r \in DOMAIN rows
        PROVE  rows'[r].told = IF \/ rows'[r].status = "SENT"
                                  \/ worker'.pc = "mark" /\ worker'.row = r
                               THEN 1 ELSE 0
    <3>1. CASE r = w
      BY <1>3, <3>1
    <3>2. CASE r # w
      BY <1>3, <3>2 DEF IInv, MessagesCounted
    <3>. QED
      BY <3>1, <3>2
  <2>. QED
    BY <1>3, <2>1, <2>2 DEF MessagesCounted
<1>9. OneRowPerTarget'
  BY <1>3, <1>4 DEF IInv, OneRowPerTarget
<1>10. AttemptsBounded'
  BY <1>3 DEF IInv, AttemptsBounded
<1>11. ListedAfterOpened'
  BY <1>5, SentStays DEF IInv, ListedAfterOpened
<1>12. ResolvedHasOpened'
  <2>. SUFFICES ASSUME NEW r \in DOMAIN rows, rows[r].kind = "RESOLVED"
                PROVE  IsSent(rows[r].alert, "OPENED")'
    BY <1>3, <1>4 DEF ResolvedHasOpened, IsSent, RowsOf
  <2>1. IsSent(rows[r].alert, "OPENED")
    BY DEF IInv, ResolvedHasOpened
  <2>2. PICK o \in DOMAIN rows : /\ rows[o].alert = rows[r].alert /\ rows[o].kind = "OPENED"
                                 /\ rows[o].status = "SENT"
    BY <2>1 DEF IsSent, RowsOf
  <2>. QED
    BY <1>3, <1>4, <1>5, <2>2 DEF RowsKept, IsSent, RowsOf
<1>. QED
  BY <1>5, <1>6, <1>7, <1>8, <1>9, <1>10, <1>11, <1>12 DEF IInv

\* ensureDelivery inserts the row of an alert of its list.
LEMMA RowInserted ==
    ASSUME IInv, NEW a \in DOMAIN alerts, EnsureDelivery(a),
           RowsOf(a, KindOf(worker.phase)) = {}
    PROVE  IInv' /\ RowsKept
<1>. DEFINE k == KindOf(worker.phase)
            n == Len(rows) + 1
            e == [alert |-> a, kind |-> k, status |-> "PENDING", attempts |-> 0, told |-> 0]
<1>1. UNCHANGED <<alerts, clock, health, mon, muted, budget>>
  BY DEF EnsureDelivery, alertsVars
<1>2. rows \in Seq(Row) /\ alerts \in Seq(Alert) /\ worker \in Worker
  BY DEF IInv, TypeOK, AlertsTypeOK
<1>3. /\ rows' = Append(rows, e)
      /\ worker' = [worker EXCEPT !.queue = worker.queue \ {a}, !.pc = "claim", !.row = n]
      /\ worker.phase \in {"open", "resolved"} /\ worker.pc = "next" /\ a \in worker.queue
  BY DEF EnsureDelivery, ClaimNext, AlertDue, IsFirst
<1>4. e \in Row
  <2>1. a \in Nat /\ k \in Kinds
    BY <1>2 DEF KindOf, Kinds
  <2>. QED
    BY <2>1 DEF Row
<1>5. /\ e.alert = a /\ e.kind = k /\ e.status = "PENDING" /\ e.attempts = 0 /\ e.told = 0
  OBVIOUS
<1>. HIDE DEF e
<1>6. /\ rows' \in Seq(Row) /\ DOMAIN rows' = DOMAIN rows \cup {n} /\ rows'[n] = e
      /\ n \notin DOMAIN rows /\ n \in Nat
      /\ \A r \in DOMAIN rows : rows'[r] = rows[r]
  BY <1>2, <1>3, <1>4
<1>7. RowsKept
  BY <1>6 DEF RowsKept
<1>8. /\ worker' \in Worker /\ worker'.row = n /\ worker'.pc = "claim"
      /\ worker'.phase = worker.phase /\ worker'.queue \subseteq worker.queue
  BY <1>2, <1>3, <1>6 DEF Worker
<1>9. TypeOK'
  <2>1. \A r \in DOMAIN rows' : rows'[r].alert \in DOMAIN alerts'
    BY <1>1, <1>5, <1>6 DEF IInv, TypeOK
  <2>2. worker'.queue \subseteq DOMAIN alerts'
    BY <1>1, <1>3, <1>8 DEF IInv, TypeOK
  <2>3. worker'.phase \notin {"pending", "idle"} /\ worker'.row \in DOMAIN rows'
    BY <1>3, <1>6, <1>8
  <2>. QED
    BY <1>1, <1>6, <1>8, <2>1, <2>2, <2>3 DEF IInv, TypeOK, AlertsTypeOK
<1>10. OneOpenAlert' /\ MonitorKnows'
  BY <1>1 DEF IInv, OneOpenAlert, MonitorKnows, IsOpen
<1>11. MessagesCounted'
  BY <1>3, <1>5, <1>6, <1>8 DEF IInv, MessagesCounted
<1>12. OneRowPerTarget'
  <2>1. \A r \in DOMAIN rows : ~(rows[r].alert = a /\ rows[r].kind = k)
    BY DEF RowsOf
  <2>. QED
    BY <1>5, <1>6, <2>1 DEF IInv, OneRowPerTarget
<1>13. AttemptsBounded'
  BY <1>5, <1>6 DEF IInv, AttemptsBounded
<1>14. ListedAfterOpened'
  BY <1>7, <1>8, SentStays DEF IInv, ListedAfterOpened
<1>15. ResolvedHasOpened'
  <2>1. k = "RESOLVED" => IsSent(a, "OPENED")
    BY <1>3 DEF KindOf, IInv, ListedAfterOpened
  <2>2. \A r \in DOMAIN rows' :
           rows'[r].kind = "RESOLVED" => IsSent(rows'[r].alert, "OPENED")
    BY <1>5, <1>6, <2>1 DEF IInv, ResolvedHasOpened
  <2>. QED
    BY <1>7, <2>2, SentStays DEF ResolvedHasOpened, IsSent, RowsOf, RowsKept
<1>. QED
  BY <1>7, <1>9, <1>10, <1>11, <1>12, <1>13, <1>14, <1>15 DEF IInv

\* The end of an item, or of a tick, whatever the rows.
LEMMA ItemOver ==
    ASSUME IInv, DOMAIN rows' = DOMAIN rows, UNCHANGED alerts,
           (NextItem /\ worker.pc # "next") \/ worker' = WorkerIdle
    PROVE  /\ WorkerOK' /\ worker'.pc = "next"
           /\ worker'.phase = "resolved" =>
                 worker.phase = "resolved" /\ worker'.queue \subseteq worker.queue
<1>1. worker \in Worker /\ WorkerOK
  BY DEF IInv, TypeOK, WorkerOK
<1>2. CASE NextItem /\ worker.pc # "next"
  <2>1. /\ worker' \in Worker /\ worker'.pc = "next"
        /\ worker'.phase = worker.phase /\ worker'.queue = worker.queue
    BY <1>1, <1>2 DEF NextItem, Worker
  <2>2. worker.phase # "idle"
    BY <1>1, <1>2 DEF WorkerOK, WorkerIdle
  <2>. QED
    BY <1>1, <2>1, <2>2 DEF WorkerOK
<1>3. CASE worker' = WorkerIdle
  <2>1. WorkerIdle \in Worker
    BY DEF WorkerIdle, Worker
  <2>. QED
    BY <1>3, <2>1 DEF WorkerOK, WorkerIdle
<1>. QED
  BY <1>2, <1>3

\* A phase begins with a list of its own, or with none.
LEMMA PhaseBegins ==
    ASSUME IInv, UNCHANGED <<alertsVars, muted, rows>>, budget' \in Budget,
           worker.pc = "next",
           NEW phase \in {"pending", "open", "resolved"}, NEW queue, Begin(phase, queue),
           queue \subseteq IF phase = "pending" THEN DOMAIN rows ELSE DOMAIN alerts,
           phase = "resolved" => \A a \in queue : IsSent(a, "OPENED")
    PROVE  IInv' /\ RowsKept
<1>1. rows \in Seq(Row) /\ alerts \in Seq(Alert) /\ UNCHANGED <<alerts, rows>>
  BY DEF IInv, TypeOK, AlertsTypeOK, alertsVars
<1>2. queue \in SUBSET Nat
  <2>1. DOMAIN rows \subseteq Nat /\ DOMAIN alerts \subseteq Nat
    BY <1>1
  <2>. QED
    BY <2>1
<1>3. /\ worker' \in Worker /\ worker'.pc = "next"
      /\ worker'.phase = phase /\ worker'.queue = queue
  BY <1>2 DEF Begin, Worker
<1>4. WorkerOK'
  BY <1>1, <1>3 DEF WorkerOK
<1>5. ListedAfterOpened'
  BY <1>1, <1>3 DEF ListedAfterOpened, IsSent, RowsOf
<1>. QED
  BY <1>3, <1>4, <1>5, WorkerMoves

\* An item is taken from the list.
LEMMA ItemTaken ==
    ASSUME IInv, UNCHANGED <<alertsVars, muted, budget, rows>>,
           NEW x \in worker.queue, NEW r \in DOMAIN rows, worker.pc = "next",
           \/ worker' = [worker EXCEPT !.queue = worker.queue \ {x}]
           \/ worker' = [worker EXCEPT !.queue = worker.queue \ {x},
                                       !.pc = "claim", !.row = r]
    PROVE  IInv' /\ RowsKept
<1>1. /\ rows \in Seq(Row) /\ worker \in Worker /\ UNCHANGED <<alerts, rows>>
      /\ budget' \in Budget
  BY DEF IInv, TypeOK, AlertsTypeOK, alertsVars, Budget
<1>2. r \in Nat
  BY <1>1
<1>3. /\ worker' \in Worker /\ worker'.pc \in {"next", "claim"}
      /\ worker'.phase = worker.phase /\ worker'.queue \subseteq worker.queue
      /\ worker'.pc = "claim" => worker'.row = r
  BY <1>1, <1>2 DEF Worker
<1>4. worker.phase # "idle"
  BY DEF IInv, TypeOK, WorkerIdle
<1>5. WorkerOK'
  BY <1>1, <1>3, <1>4 DEF IInv, TypeOK, WorkerOK
<1>6. ListedAfterOpened'
  BY <1>1, <1>3 DEF IInv, ListedAfterOpened, IsSent, RowsOf
<1>. QED
  BY <1>1, <1>3, <1>5, <1>6, WorkerMoves

\* deliverRow moves on with the row it has.
LEMMA RowGoes ==
    ASSUME IInv, NEW pc \in {"send", "mark", "fail"}, worker.pc # "next",
           worker' = [worker EXCEPT !.pc = pc],
           DOMAIN rows' = DOMAIN rows, UNCHANGED alerts
    PROVE  /\ WorkerOK' /\ worker'.pc = pc /\ worker'.row = worker.row
           /\ worker'.phase = worker.phase /\ worker'.queue = worker.queue
<1>1. worker \in Worker /\ WorkerOK
  BY DEF IInv, TypeOK, WorkerOK
<1>2. /\ worker' \in Worker /\ worker'.pc = pc /\ worker'.row = worker.row
      /\ worker'.phase = worker.phase /\ worker'.queue = worker.queue
  BY <1>1 DEF Worker
<1>3. worker.phase # "idle"
  BY <1>1 DEF WorkerOK, WorkerIdle
<1>. QED
  BY <1>1, <1>2, <1>3 DEF WorkerOK

\* One step of the tick, or one failure.
LEMMA WorkerStep ==
    ASSUME IInv, WorkerSteps \/ WorkerFails
    PROVE  IInv' /\ RowsKept
<1>. DEFINE w == worker.row
<1>1. /\ rows \in Seq(Row) /\ worker \in Worker /\ budget \in Budget
      /\ alerts \in Seq(Alert)
      /\ worker.pc # "next" => w \in DOMAIN rows /\ rows[w] \in Row
  <2>1. /\ rows \in Seq(Row) /\ worker \in Worker /\ budget \in Budget
        /\ alerts \in Seq(Alert)
        /\ worker.pc # "next" => w \in DOMAIN rows
    BY DEF IInv, TypeOK, AlertsTypeOK, Budget
  <2>2. \A r \in DOMAIN rows : rows[r] \in Row
    BY <2>1
  <2>. QED
    BY <2>1, <2>2
<1>2. Fault => budget' \in Budget
  BY <1>1, BudgetSpent DEF Fault
<1>3. worker.phase = "idle" => worker.pc = "next"
  BY DEF IInv, TypeOK, WorkerIdle
<1>4. \A pc \in {"send", "mark", "fail"} : worker.pc = pc => rows[w].status # "SENT"
  BY DEF IInv, MessagesCounted
<1>5. CASE StartTick
  <2>1. ListPendingAlertDeliveries \subseteq DOMAIN rows
    BY DEF ListPendingAlertDeliveries, FirstFew
  <2>. QED
    BY <1>1, <1>3, <1>5, <2>1, PhaseBegins DEF StartTick
<1>6. CASE StartOpen
  <2>1. ListAlertsNeedingOpenDelivery \subseteq DOMAIN alerts
    BY DEF ListAlertsNeedingOpenDelivery, FirstFew
  <2>. QED
    BY <1>1, <1>6, <2>1, PhaseBegins DEF StartOpen, PhaseOver
<1>7. CASE StartResolved
  <2>1. /\ ListResolvedAlertsNeedingDelivery \subseteq DOMAIN alerts
        /\ \A a \in ListResolvedAlertsNeedingDelivery : IsSent(a, "OPENED")
    BY DEF ListResolvedAlertsNeedingDelivery, FirstFew
  <2>. QED
    BY <1>1, <1>7, <2>1, PhaseBegins DEF StartResolved, PhaseOver
<1>8. CASE EndTick
  <2>1. UNCHANGED <<alertsVars, muted, budget, rows>> /\ worker.pc = "next"
        /\ worker' = WorkerIdle
    BY <1>8 DEF EndTick, PhaseOver
  <2>2. WorkerOK' /\ worker'.pc = "next" /\ worker'.phase = "idle"
    BY <2>1, ItemOver DEF alertsVars, WorkerIdle
  <2>. QED
    BY <1>1, <2>1, <2>2, WorkerMoves DEF ListedAfterOpened
<1>9. ASSUME NEW r \in DOMAIN rows, TakeRow(r) PROVE IInv' /\ RowsKept
  BY <1>9, ItemTaken DEF TakeRow, IsFirst
<1>10. ASSUME NEW a \in DOMAIN alerts, SkipMuted(a) PROVE IInv' /\ RowsKept
  <2>1. /\ worker' = [worker EXCEPT !.queue = worker.queue \ {a}]
        /\ worker.pc = "next" /\ worker.phase \in {"open", "resolved"} /\ a \in worker.queue
        /\ UNCHANGED <<alertsVars, muted, budget, rows>>
    BY <1>10 DEF SkipMuted, AlertDue, IsFirst
  <2>2. /\ worker' \in Worker /\ worker'.pc = "next"
        /\ worker'.phase = worker.phase /\ worker'.queue \subseteq worker.queue
    BY <1>1, <2>1 DEF Worker
  <2>3. UNCHANGED <<alerts, rows>> /\ budget' \in Budget
    BY <1>1, <2>1 DEF alertsVars
  <2>4. WorkerOK'
    BY <2>1, <2>2, <2>3 DEF IInv, TypeOK, WorkerOK
  <2>5. ListedAfterOpened'
    BY <2>2, <2>3 DEF IInv, ListedAfterOpened, IsSent, RowsOf
  <2>. QED
    BY <2>1, <2>2, <2>3, <2>4, <2>5, WorkerMoves
<1>11. ASSUME NEW a \in DOMAIN alerts, EnsureDelivery(a) PROVE IInv' /\ RowsKept
  <2>1. CASE RowsOf(a, KindOf(worker.phase)) = {}
    BY <1>11, <2>1, RowInserted
  <2>2. CASE RowsOf(a, KindOf(worker.phase)) # {}
    <3>1. PICK r \in RowsOf(a, KindOf(worker.phase)) : ClaimNext(a, r) /\ UNCHANGED rows
      BY <1>11, <2>2 DEF EnsureDelivery
    <3>2. /\ r \in DOMAIN rows /\ a \in worker.queue /\ worker.pc = "next"
          /\ UNCHANGED <<alertsVars, muted, budget>>
      BY <1>11 DEF EnsureDelivery, AlertDue, IsFirst, RowsOf
    <3>. QED
      BY <3>1, <3>2, ItemTaken DEF ClaimNext
  <2>. QED
    BY <2>1, <2>2
<1>12. CASE Claim
  <2>. DEFINE e == [rows[w] EXCEPT !.attempts = rows[w].attempts + 1]
  <2>1. /\ w \in DOMAIN rows /\ rows[w] \in Row /\ worker.pc = "claim"
        /\ rows[w].status # "SENT" /\ rows[w].attempts < MaxAttempts
        /\ rows' = [rows EXCEPT ![w] = e]
        /\ worker' = [worker EXCEPT !.pc = "send"]
        /\ UNCHANGED <<alertsVars, muted, budget>>
    BY <1>1, <1>12 DEF Claim, Current
  <2>2. rows[w].attempts \in Nat /\ rows[w].told = 0
    BY <2>1 DEF Row, IInv, MessagesCounted
  <2>3. /\ e \in Row /\ e.attempts = rows[w].attempts + 1 /\ e.told = 0
        /\ e.alert = rows[w].alert /\ e.kind = rows[w].kind /\ e.status = rows[w].status
    BY <2>1, <2>2 DEF Row
  <2>. HIDE DEF e
  <2>4. DOMAIN rows' = DOMAIN rows /\ UNCHANGED alerts
    BY <2>1 DEF alertsVars
  <2>5. /\ WorkerOK' /\ worker'.pc = "send" /\ worker'.row = w
        /\ worker'.phase = worker.phase /\ worker'.queue = worker.queue
    BY <2>1, <2>4, RowGoes
  <2>6. e.attempts <= MaxAttempts
    BY <2>1, <2>2, <2>3
  <2>. QED
    BY <1>1, <2>1, <2>3, <2>5, <2>6, RowWritten
<1>13. CASE ClaimRefused
  <2>1. /\ NextItem /\ worker.pc = "claim" /\ UNCHANGED <<alertsVars, muted, budget, rows>>
    BY <1>13 DEF ClaimRefused
  <2>2. /\ WorkerOK' /\ worker'.pc = "next"
        /\ worker'.phase = "resolved" =>
              worker.phase = "resolved" /\ worker'.queue \subseteq worker.queue
    BY <2>1, ItemOver DEF alertsVars
  <2>3. ListedAfterOpened'
    BY <2>1, <2>2 DEF IInv, ListedAfterOpened, IsSent, RowsOf
  <2>. QED
    BY <1>1, <2>1, <2>2, <2>3, WorkerMoves
<1>14. CASE SendSucceeds
  <2>. DEFINE e == [rows[w] EXCEPT !.told = rows[w].told + 1]
  <2>1. /\ w \in DOMAIN rows /\ rows[w] \in Row /\ worker.pc = "send"
        /\ rows[w].status # "SENT"
        /\ rows' = [rows EXCEPT ![w] = e]
        /\ worker' = [worker EXCEPT !.pc = "mark"]
        /\ UNCHANGED <<alertsVars, muted, budget>>
    BY <1>1, <1>4, <1>14 DEF SendSucceeds, Current
  <2>2. rows[w].told = 0 /\ rows[w].attempts <= MaxAttempts
    BY <2>1 DEF IInv, MessagesCounted, AttemptsBounded
  <2>3. /\ e \in Row /\ e.attempts = rows[w].attempts /\ e.told = 1
        /\ e.alert = rows[w].alert /\ e.kind = rows[w].kind /\ e.status = rows[w].status
    BY <2>1, <2>2 DEF Row
  <2>. HIDE DEF e
  <2>4. DOMAIN rows' = DOMAIN rows /\ UNCHANGED alerts
    BY <2>1 DEF alertsVars
  <2>5. /\ WorkerOK' /\ worker'.pc = "mark" /\ worker'.row = w
        /\ worker'.phase = worker.phase /\ worker'.queue = worker.queue
    BY <2>1, <2>4, RowGoes
  <2>. QED
    BY <1>1, <2>1, <2>2, <2>3, <2>5, RowWritten
<1>15. CASE SendFails
  <2>1. /\ worker' = [worker EXCEPT !.pc = "fail"] /\ worker.pc = "send"
        /\ UNCHANGED <<alertsVars, muted, budget, rows>>
    BY <1>15 DEF SendFails
  <2>2. /\ WorkerOK' /\ worker'.pc = "fail" /\ worker'.row = w
        /\ worker'.phase = worker.phase /\ worker'.queue = worker.queue
    BY <2>1, RowGoes DEF alertsVars
  <2>3. ListedAfterOpened'
    BY <2>1, <2>2 DEF IInv, ListedAfterOpened, IsSent, RowsOf
  <2>. QED
    BY <1>1, <2>1, <2>2, <2>3, WorkerMoves
<1>16. ASSUME NEW e \in Row, worker.pc # "next", rows[w].status # "SENT",
              rows' = [rows EXCEPT ![w] = e],
              e.alert = rows[w].alert, e.kind = rows[w].kind,
              e.attempts = rows[w].attempts,
              e.told = IF e.status = "SENT" THEN 1 ELSE 0,
              NextItem \/ worker' = WorkerIdle,
              UNCHANGED <<alertsVars, muted>>, budget' \in Budget
       PROVE  IInv' /\ RowsKept
  <2>1. DOMAIN rows' = DOMAIN rows /\ UNCHANGED alerts
    BY <1>16 DEF alertsVars
  <2>2. /\ WorkerOK' /\ worker'.pc = "next"
        /\ worker'.phase = "resolved" =>
              worker.phase = "resolved" /\ worker'.queue \subseteq worker.queue
    BY <1>16, <2>1, ItemOver
  <2>3. e.attempts <= MaxAttempts
    BY <1>1, <1>16 DEF IInv, AttemptsBounded
  <2>. QED
    BY <1>16, <2>2, <2>3, RowWritten
<1>17. CASE MarkSent
  <2>. DEFINE e == [rows[w] EXCEPT !.status = "SENT"]
  <2>1. /\ w \in DOMAIN rows /\ rows[w] \in Row /\ worker.pc = "mark"
        /\ rows[w].status # "SENT" /\ rows[w].told = 1
    BY <1>1, <1>4, <1>17 DEF MarkSent, IInv, MessagesCounted
  <2>2. /\ e \in Row /\ e.attempts = rows[w].attempts /\ e.told = 1
        /\ e.alert = rows[w].alert /\ e.kind = rows[w].kind /\ e.status = "SENT"
    BY <2>1 DEF Row
  <2>3. /\ rows' = [rows EXCEPT ![w] = e] /\ NextItem
        /\ UNCHANGED <<alertsVars, muted, budget>>
    BY <1>17 DEF MarkSent
  <2>. QED
    BY <1>1, <1>16, <2>1, <2>2, <2>3
<1>18. CASE MarkFailed
  <2>. DEFINE e == [rows[w] EXCEPT !.status = "FAILED"]
  <2>1. /\ w \in DOMAIN rows /\ rows[w] \in Row /\ worker.pc = "fail"
        /\ rows[w].status # "SENT" /\ rows[w].told = 0
    BY <1>1, <1>4, <1>18 DEF MarkFailed, IInv, MessagesCounted
  <2>2. /\ e \in Row /\ e.attempts = rows[w].attempts /\ e.told = 0
        /\ e.alert = rows[w].alert /\ e.kind = rows[w].kind /\ e.status = "FAILED"
    BY <2>1 DEF Row
  <2>3. /\ rows' = [rows EXCEPT ![w] = e] /\ NextItem
        /\ UNCHANGED <<alertsVars, muted, budget>>
    BY <1>18 DEF MarkFailed
  <2>. QED
    BY <1>1, <1>16, <2>1, <2>2, <2>3
<1>19. ASSUME StatementFails \/ WorkerCrash PROVE IInv' /\ RowsKept
  <2>1. /\ Fault /\ ForgetMark(w) /\ UNCHANGED <<alertsVars, muted>>
        /\ (worker.pc # "next" /\ NextItem) \/ worker' = WorkerIdle
    BY <1>19 DEF StatementFails, WorkerCrash
  <2>2. CASE worker.pc = "mark"
    <3>. DEFINE e == [rows[w] EXCEPT !.told = rows[w].told - 1]
    <3>1. /\ w \in DOMAIN rows /\ rows[w] \in Row
          /\ rows[w].status # "SENT" /\ rows[w].told = 1
      BY <1>1, <1>4, <2>2 DEF IInv, MessagesCounted
    <3>2. /\ e \in Row /\ e.attempts = rows[w].attempts /\ e.told = 0
          /\ e.alert = rows[w].alert /\ e.kind = rows[w].kind /\ e.status = rows[w].status
      BY <3>1 DEF Row
    <3>3. rows' = [rows EXCEPT ![w] = e]
      BY <2>1, <2>2 DEF ForgetMark
    <3>. QED
      BY <1>2, <1>16, <2>1, <2>2, <3>1, <3>2, <3>3
  <2>3. CASE worker.pc # "mark"
    <3>1. UNCHANGED <<alertsVars, muted, rows>> /\ budget' \in Budget
      BY <1>2, <2>1, <2>3 DEF ForgetMark
    <3>2. /\ WorkerOK' /\ worker'.pc = "next"
          /\ worker'.phase = "resolved" =>
                worker.phase = "resolved" /\ worker'.queue \subseteq worker.queue
      BY <2>1, <3>1, ItemOver DEF alertsVars
    <3>3. ListedAfterOpened'
      BY <3>1, <3>2 DEF IInv, ListedAfterOpened, IsSent, RowsOf
    <3>. QED
      BY <2>3, <3>1, <3>2, <3>3, WorkerMoves
  <2>. QED
    BY <2>2, <2>3
<1>20. CASE ListFails
  BY <1>2, <1>3, <1>20, PhaseBegins DEF ListFails, PhaseOver
<1>21. ASSUME NEW a \in DOMAIN alerts, EnsureFails(a) PROVE IInv' /\ RowsKept
  BY <1>2, <1>21, PhaseBegins DEF EnsureFails, AlertDue, IsFirst
<1>. QED
  BY <1>5, <1>6, <1>7, <1>8, <1>9, <1>10, <1>11, <1>12, <1>13, <1>14, <1>15, <1>17,
     <1>18, <1>19, <1>20, <1>21 DEF WorkerSteps, WorkerFails

-----------------------------------------------------------------------------
(* The inductive invariant. *)

LEMMA InvInit == Init => IInv
<1>. SUFFICES ASSUME Init PROVE IInv
  OBVIOUS
<1>1. [c \in Conditions |-> "unclear"] \in [Conditions -> Health]
  BY DEF Health
<1>2. MonitorIdle \in Monitor /\ MonitorIdle.pc = "next" /\ WorkerIdle \in Worker
  BY <1>1 DEF MonitorIdle, Monitor, WorkerIdle, Worker
<1>3. budget \in [flips : 0..MaxFlips, admin : 0..MaxAdmin, faults : 0..MaxFaults]
  BY DEF Init, AlertsInit
<1>4. /\ alerts = <<>> /\ clock = 0 /\ rows = <<>> /\ muted \subseteq Conditions
      /\ mon = MonitorIdle /\ worker = WorkerIdle /\ health \in [Conditions -> Health]
  BY DEF Init, AlertsInit
<1>5. DOMAIN alerts = {} /\ DOMAIN rows = {} /\ alerts \in Seq(Alert) /\ rows \in Seq(Row)
  BY <1>4
<1>6. TypeOK
  BY <1>2, <1>3, <1>4, <1>5 DEF TypeOK, AlertsTypeOK, WorkerIdle
<1>. QED
  BY <1>2, <1>4, <1>5, <1>6
  DEF IInv, OneOpenAlert, MonitorKnows, MessagesCounted, OneRowPerTarget,
      AttemptsBounded, ListedAfterOpened, ResolvedHasOpened, WorkerIdle

LEMMA InvNext == IInv /\ [Next]_vars => IInv' /\ [RowsKept]_rows
<1>. SUFFICES ASSUME IInv, [Next]_vars PROVE IInv' /\ [RowsKept]_rows
  OBVIOUS
<1>1. CASE WorkerSteps \/ WorkerFails
  BY <1>1, WorkerStep
<1>2. CASE AlertsNext /\ UNCHANGED <<muted, rows, worker>>
  <2>1. AInv' /\ AlertsKept
    BY <1>2, AlertsStep DEF IInv, TypeOK, AInv
  <2>2. TypeOK'
    BY <1>2, <2>1 DEF IInv, TypeOK, AInv, AlertsKept
  <2>3. MessagesCounted' /\ OneRowPerTarget' /\ AttemptsBounded'
    BY <1>2 DEF IInv, MessagesCounted, OneRowPerTarget, AttemptsBounded
  <2>4. ListedAfterOpened' /\ ResolvedHasOpened'
    BY <1>2 DEF IInv, ListedAfterOpened, ResolvedHasOpened, IsSent, RowsOf
  <2>. QED
    BY <1>2, <2>1, <2>2, <2>3, <2>4 DEF IInv, AInv
<1>3. CASE UNCHANGED vars
  <2>1. UNCHANGED <<alerts, clock, health, mon, budget, muted, rows, worker>>
    BY <1>3 DEF vars
  <2>2. TypeOK' /\ OneOpenAlert' /\ MonitorKnows'
    BY <2>1 DEF IInv, TypeOK, AlertsTypeOK, OneOpenAlert, MonitorKnows, IsOpen
  <2>3. MessagesCounted' /\ OneRowPerTarget' /\ AttemptsBounded'
    BY <2>1 DEF IInv, MessagesCounted, OneRowPerTarget, AttemptsBounded
  <2>4. ListedAfterOpened' /\ ResolvedHasOpened'
    BY <2>1 DEF IInv, ListedAfterOpened, ResolvedHasOpened, IsSent, RowsOf
  <2>. QED
    BY <2>1, <2>2, <2>3, <2>4 DEF IInv
<1>. QED
  BY <1>1, <1>2, <1>3 DEF Next

LEMMA Invariance == Spec => []IInv
BY InvInit, InvNext, PTL DEF Spec

-----------------------------------------------------------------------------
(* The properties. *)

\* Types, the positions of the monitor and of the worker included.
THEOREM TypeCorrect == Spec => []TypeOK
<1>1. IInv => TypeOK
  BY DEF IInv
<1>. QED
  BY <1>1, Invariance, PTL

\* Two alerts of a condition are open at once only if an administrator has
\* acknowledged one of them after it was resolved.
THEOREM OneOpen == Spec => []OneOpenAlert
<1>1. IInv => OneOpenAlert
  BY DEF IInv
<1>. QED
  BY <1>1, Invariance, PTL

\* A recovery is told only of an alert whose message OPENED was recorded.
THEOREM OpenedFirst == Spec => []ResolvedAfterOpened
<1>1. IInv => ResolvedAfterOpened
  <2>. SUFFICES ASSUME IInv, NEW r \in DOMAIN rows, rows[r].kind = "RESOLVED"
                PROVE  \E o \in RowsOf(rows[r].alert, "OPENED") :
                          rows[o].status = "SENT" /\ rows[o].told > 0
    BY DEF ResolvedAfterOpened
  <2>1. PICK o \in RowsOf(rows[r].alert, "OPENED") : rows[o].status = "SENT"
    BY DEF IInv, ResolvedHasOpened, IsSent
  <2>2. rows[o].told = 1
    BY <2>1 DEF IInv, MessagesCounted, RowsOf
  <2>. QED
    BY <2>1, <2>2
<1>. QED
  BY <1>1, Invariance, PTL

\* One row and one recorded message of an alert and a kind.
THEOREM ToldOnce == Spec => []OncePerTarget
<1>1. IInv => OncePerTarget
  BY DEF IInv, OncePerTarget, OneRowPerTarget, MessagesCounted
<1>. QED
  BY <1>1, Invariance, PTL

\* The bound on attempts, for every LIMIT and every number of crashes.
THEOREM AttemptsStayBounded == Spec => []AttemptsBounded
<1>1. IInv => AttemptsBounded
  BY DEF IInv
<1>. QED
  BY <1>1, Invariance, PTL

\* SENT is the end of a row.
THEOREM SentStaysSent == Spec => SentIsFinal
<1>1. [RowsKept]_rows => [\A r \in DOMAIN rows : rows[r].status = "SENT" => rows'[r] = rows[r]]_rows
  BY DEF RowsKept
<1>. QED
  BY <1>1, Invariance, InvNext, PTL DEF Spec, SentIsFinal
=============================================================================
