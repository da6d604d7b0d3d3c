---------------------------- MODULE AlertDelivery ----------------------------
(***************************************************************************)
(* The alert worker, composed with the alerts it tells of: the rows of     *)
(* alert_deliveries, and the tick of the one worker that sends a Telegram  *)
(* message for each alert that opens and for each that is resolved after   *)
(* its first message was sent. A row is claimed, the message sent, and the *)
(* row marked, in three steps with a crash possible between any two.       *)
(***************************************************************************)
EXTENDS Alerts, FiniteSets

CONSTANTS Limit,       \* the LIMIT of the three list queries, 50 in the code
          MaxAttempts  \* ALERT_DELIVERY_MAX_ATTEMPTS

ASSUME DeliveryAssumption ==
    Limit \in Nat \ {0} /\ MaxAttempts \in Nat \ {0}

VARIABLES muted,  \* conditions of a severity not in ALERT_SEND_SEVERITIES: read
                  \* when the process starts. (A restart spike, the one alert of
                  \* either severity, is as severe as all its alerts here.)
          rows,   \* alert_deliveries in the order of created_at
          worker  \* where the worker is in its tick

alertsVars == <<alerts, clock, health, mon>>
vars == <<alerts, clock, health, mon, budget, muted, rows, worker>>

Kinds == {"OPENED", "RESOLVED"}

\* "told" is history: the messages shown by Telegram, without those that a
\* timeout, a crash or a failed mark has kept the worker from recording.
Row == [alert : Nat, kind : Kinds, status : {"PENDING", "SENT", "FAILED"},
        attempts : Nat, told : Nat]

Worker == [phase : {"idle", "pending", "open", "resolved"},
           queue : SUBSET Nat,  \* rows in phase "pending", else alerts
           pc    : {"next", "claim", "send", "mark", "fail"},
           row   : Nat]

WorkerIdle == [phase |-> "idle", queue |-> {}, pc |-> "next", row |-> 0]

TypeOK ==
    /\ AlertsTypeOK
    /\ muted \subseteq Conditions
    /\ rows \in Seq(Row)
    /\ \A r \in DOMAIN rows : rows[r].alert \in DOMAIN alerts
    /\ worker \in Worker
    /\ worker.pc # "next" => worker.row \in DOMAIN rows
    /\ worker.queue \subseteq IF worker.phase = "pending" THEN DOMAIN rows
                                                         ELSE DOMAIN alerts
    /\ worker.phase = "idle" => worker = WorkerIdle

Init ==
    /\ AlertsInit
    /\ muted \in SUBSET Conditions
    /\ rows = <<>>
    /\ worker = WorkerIdle

-----------------------------------------------------------------------------
(* The statements of sql/queries/alert_deliveries.sql. *)

\* GetAlertDeliveryByTarget: the unique index leaves at most one.
RowsOf(a, k) == {r \in DOMAIN rows : rows[r].alert = a /\ rows[r].kind = k}

IsSent(a, k) == \E r \in RowsOf(a, k) : rows[r].status = "SENT"

\* The ORDER BY of the list of a phase: created_at, opened_at, resolved_at.
Before(phase, x, y) ==
    IF phase = "resolved" THEN alerts[x].resolvedAt < alerts[y].resolvedAt ELSE x < y

FirstFew(phase, S) == {x \in S : Cardinality({y \in S : Before(phase, y, x)}) < Limit}

ListPendingAlertDeliveries ==
    FirstFew("pending", {r \in DOMAIN rows : /\ rows[r].status \in {"PENDING", "FAILED"}
                                             /\ rows[r].attempts < MaxAttempts})

\* Mutant: the query has WHERE status = 'OPEN'.
ListUnacknowledgedAlerts ==
    FirstFew("open", {a \in DOMAIN alerts : /\ alerts[a].status = "OPEN"
                                            /\ ~IsSent(a, "OPENED")})

ListAlertsNeedingOpenDelivery ==
    FirstFew("open", {a \in DOMAIN alerts : IsOpen(a) /\ ~IsSent(a, "OPENED")})

\* Mutant: the query forgets EXISTS (... 'OPENED' ... 'SENT').
ListUntoldResolvedAlerts ==
    FirstFew("resolved", {a \in DOMAIN alerts : IsResolved(a) /\ ~IsSent(a, "RESOLVED")})

ListResolvedAlertsNeedingDelivery ==
    FirstFew("resolved", {a \in DOMAIN alerts : /\ IsResolved(a)
                                                /\ alerts[a].resolvedAt # 0
                                                /\ IsSent(a, "OPENED")
                                                /\ ~IsSent(a, "RESOLVED")})

-----------------------------------------------------------------------------
(* A tick: three lists, each read when its phase begins. *)

Begin(phase, queue) ==
    worker' = [phase |-> phase, queue |-> queue, pc |-> "next", row |-> 0]

\* A row, or an alert, of the queue is done with.
NextItem == worker' = [worker EXCEPT !.pc = "next", !.row = 0]

PhaseOver(phase) == worker.phase = phase /\ worker.pc = "next" /\ worker.queue = {}

StartTick ==
    /\ worker.phase = "idle"
    /\ Begin("pending", ListPendingAlertDeliveries)
    /\ UNCHANGED <<alertsVars, muted, budget, rows>>

StartOpen ==
    /\ PhaseOver("pending")
    /\ Begin("open", ListAlertsNeedingOpenDelivery)
    /\ UNCHANGED <<alertsVars, muted, budget, rows>>

StartResolved ==
    /\ PhaseOver("open")
    /\ Begin("resolved", ListResolvedAlertsNeedingDelivery)
    /\ UNCHANGED <<alertsVars, muted, budget, rows>>

EndTick ==
    /\ PhaseOver("resolved")
    /\ worker' = WorkerIdle
    /\ UNCHANGED <<alertsVars, muted, budget, rows>>

\* The loop's next item. (An alert resolved again while the list is worked off
\* moves to the end of it here, and not in the slice the code walks: the order
\* within a list is seen by nobody.)
IsFirst(x) ==
    /\ worker.pc = "next"
    /\ x \in worker.queue
    /\ \A y \in worker.queue : ~Before(worker.phase, y, x)

\* processPending takes the next row.
TakeRow(r) ==
    /\ worker.phase = "pending" /\ IsFirst(r)
    /\ worker' = [worker EXCEPT !.queue = worker.queue \ {r}, !.pc = "claim", !.row = r]
    /\ UNCHANGED <<alertsVars, muted, budget, rows>>

KindOf(phase) == IF phase = "resolved" THEN "RESOLVED" ELSE "OPENED"

\* processOpenAlerts or processResolvedAlerts comes to an alert.
AlertDue(a) == worker.phase \in {"open", "resolved"} /\ IsFirst(a)

\* shouldNotify says no: the alert stays in the list of the next tick.
SkipMuted(a) ==
    /\ AlertDue(a)
    /\ alerts[a].cond \in muted
    /\ worker' = [worker EXCEPT !.queue = worker.queue \ {a}]
    /\ UNCHANGED <<alertsVars, muted, budget, rows>>

\* The row is claimed next.
ClaimNext(a, r) ==
    worker' = [worker EXCEPT !.queue = worker.queue \ {a}, !.pc = "claim", !.row = r]

\* Mutant: the id that is claimed is that of a row never inserted.
EnsureWithoutInsert(a) ==
    /\ AlertDue(a)
    /\ alerts[a].cond \notin muted
    /\ ClaimNext(a, Len(rows) + 1)
    /\ UNCHANGED <<alertsVars, muted, budget, rows>>

\* ensureDelivery: the row of the alert and the kind of the phase, read or made.
\* The alert is not read again: it may have been resolved since it was listed.
EnsureDelivery(a) ==
    /\ AlertDue(a)
    /\ alerts[a].cond \notin muted
    /\ LET k == KindOf(worker.phase) IN
       \/ \E r \in RowsOf(a, k) : ClaimNext(a, r) /\ UNCHANGED rows
       \/ /\ RowsOf(a, k) = {}
          /\ rows' = Append(rows, [alert |-> a, kind |-> k, status |-> "PENDING",
                                   attempts |-> 0, told |-> 0])
          /\ ClaimNext(a, Len(rows) + 1)
    /\ UNCHANGED <<alertsVars, muted, budget>>

-----------------------------------------------------------------------------
(* deliverRow. *)

Current == rows[worker.row]

\* Mutant: no test of attempts against MaxAttempts.
ClaimAlways ==
    /\ worker.pc = "claim" /\ Current.status # "SENT"
    /\ rows' = [rows EXCEPT ![worker.row].attempts = Current.attempts + 1]
    /\ worker' = [worker EXCEPT !.pc = "send"]
    /\ UNCHANGED <<alertsVars, muted, budget>>

\* IncrementAlertDeliveryAttempt.
Claim ==
    /\ worker.pc = "claim"
    /\ Current.status # "SENT" /\ Current.attempts < MaxAttempts
    /\ rows' = [rows EXCEPT ![worker.row].attempts = Current.attempts + 1]
    /\ worker' = [worker EXCEPT !.pc = "send"]
    /\ UNCHANGED <<alertsVars, muted, budget>>

\* The early returns: the row is sent already, or given up.
ClaimRefused ==
    /\ worker.pc = "claim"
    /\ Current.status = "SENT" \/ Current.attempts >= MaxAttempts
    /\ NextItem
    /\ UNCHANGED <<alertsVars, muted, budget, rows>>

\* SendMessage.
SendSucceeds ==
    /\ worker.pc = "send"
    /\ rows' = [rows EXCEPT ![worker.row].told = Current.told + 1]
    /\ worker' = [worker EXCEPT !.pc = "mark"]
    /\ UNCHANGED <<alertsVars, muted, budget>>

\* Telegram refuses; or it shows the message, and the client's 20 seconds run out
\* before its answer.
SendFails ==
    /\ worker.pc = "send"
    /\ worker' = [worker EXCEPT !.pc = "fail"]
    /\ UNCHANGED <<alertsVars, muted, budget, rows>>

\* Mutant: the row of a message that was sent is marked FAILED.
MarkSentAsFailed ==
    /\ worker.pc = "mark"
    /\ rows' = [rows EXCEPT ![worker.row].status = "FAILED"]
    /\ NextItem
    /\ UNCHANGED <<alertsVars, muted, budget>>

MarkSent ==
    /\ worker.pc = "mark"
    /\ rows' = [rows EXCEPT ![worker.row].status = "SENT"]
    /\ NextItem
    /\ UNCHANGED <<alertsVars, muted, budget>>

\* Mutant: UPDATE ... WHERE alert_id, and not WHERE id.
MarkAlertFailed ==
    /\ worker.pc = "fail"
    /\ rows' = [r \in DOMAIN rows |->
                  IF rows[r].alert = Current.alert
                  THEN [rows[r] EXCEPT !.status = "FAILED"] ELSE rows[r]]
    /\ NextItem
    /\ UNCHANGED <<alertsVars, muted, budget>>

MarkFailed ==
    /\ worker.pc = "fail"
    /\ rows' = [rows EXCEPT ![worker.row].status = "FAILED"]
    /\ NextItem
    /\ UNCHANGED <<alertsVars, muted, budget>>

-----------------------------------------------------------------------------
(* What goes wrong. *)

\* What a message that is shown and not marked leaves in the history.
ForgetMark(r) ==
    rows' = IF worker.pc = "mark"
            THEN [rows EXCEPT ![r].told = rows[r].told - 1] ELSE rows

\* The increment, the read of the alert or of its context, or a mark fails: the
\* row keeps its status, and the loop goes on with the next one. The claim that
\* was counted stays counted.
StatementFails ==
    /\ Fault
    /\ worker.pc # "next"
    /\ NextItem
    /\ ForgetMark(worker.row)
    /\ UNCHANGED <<alertsVars, muted>>

\* A list query fails: its phase is empty.
ListFails ==
    /\ Fault
    /\ \/ worker.phase = "idle" /\ Begin("pending", {})
       \/ PhaseOver("pending") /\ Begin("open", {})
       \/ PhaseOver("open") /\ Begin("resolved", {})
    /\ UNCHANGED <<alertsVars, muted, rows>>

\* ensureDelivery fails: the rest of the phase is dropped.
EnsureFails(a) ==
    /\ Fault
    /\ AlertDue(a) /\ alerts[a].cond \notin muted
    /\ Begin(worker.phase, {})
    /\ UNCHANGED <<alertsVars, muted, rows>>

\* The process stops and is started again by its restart policy.
WorkerCrash ==
    /\ Fault
    /\ worker.phase # "idle"
    /\ worker' = WorkerIdle
    /\ ForgetMark(worker.row)
    /\ UNCHANGED <<alertsVars, muted>>

WorkerSteps ==
    \/ StartTick \/ StartOpen \/ StartResolved \/ EndTick
    \/ \E r \in DOMAIN rows : TakeRow(r)
    \/ \E a \in DOMAIN alerts : SkipMuted(a) \/ EnsureDelivery(a)
    \/ Claim \/ ClaimRefused \/ SendSucceeds \/ SendFails \/ MarkSent \/ MarkFailed

WorkerFails ==
    \/ StatementFails \/ ListFails \/ WorkerCrash
    \/ \E a \in DOMAIN alerts : EnsureFails(a)

Next ==
    \/ AlertsNext /\ UNCHANGED <<muted, rows, worker>>
    \/ WorkerSteps
    \/ WorkerFails

Fairness ==
    /\ WF_vars(MonitorSteps /\ UNCHANGED <<muted, rows, worker>>)
    /\ WF_vars(WorkerSteps)

Spec == Init /\ [][Next]_vars /\ Fairness

-----------------------------------------------------------------------------
(* Properties. *)

\* README.md "What gets sent": the message RESOLVED is prepared and sent only
\* for an alert whose message OPENED was sent, whatever re-opened or resolved
\* the alert since.
ResolvedAfterOpened ==
    \A r \in DOMAIN rows :
        rows[r].kind = "RESOLVED" =>
            \E o \in RowsOf(rows[r].alert, "OPENED") :
                rows[o].status = "SENT" /\ rows[o].told > 0

\* README.md: "no duplicate if already SENT". An alert and a kind have one row,
\* and its message is shown once, but for those a crash, a failed mark or a
\* timeout has kept the worker from recording.
OncePerTarget ==
    \A r, s \in DOMAIN rows :
        /\ rows[r].alert = rows[s].alert /\ rows[r].kind = rows[s].kind => r = s
        /\ rows[r].told <= 1

\* A delivery is attempted MaxAttempts times at most, although one tick meets it
\* in two phases and a crash may fall between its claim and its mark.
AttemptsBounded == \A r \in DOMAIN rows : rows[r].attempts <= MaxAttempts

\* A row marked SENT is never sent, claimed or changed again.
SentIsFinal ==
    [][\A r \in DOMAIN rows : rows[r].status = "SENT" => rows'[r] = rows[r]]_rows

\* The alert is listed by a query, but is muted or out of attempts.
GivenUp(a, k) ==
    \/ alerts[a].cond \in muted
    \/ \E r \in RowsOf(a, k) : rows[r].attempts >= MaxAttempts

Listed(a, k) ==
    /\ ~IsSent(a, k)
    /\ k = "OPENED" => IsOpen(a)
    /\ k = "RESOLVED" => IsResolved(a) /\ IsSent(a, "OPENED")

\* The alerts that take a place in the list although nothing will be sent.
Blockers(k) == {b \in DOMAIN alerts : Listed(b, k) /\ GivenUp(b, k)}

AlertIds == 1..MaxAlerts

Waiting(a, k) == a \in DOMAIN alerts /\ Listed(a, k) /\ ~GivenUp(a, k)

\* A message that is due is sent or given up, as long as fewer alerts than the
\* LIMIT of the query block the list.
DueIsTried ==
    \A a \in AlertIds, k \in Kinds :
        []<>~(Waiting(a, k) /\ Cardinality(Blockers(k)) < Limit)

\* README.md:1080 has one message after a resolve, if the message OPENED was
\* delivered. It has no exception for the alerts of long ago: what is due is
\* sent, or at least tried.
ResolveIsTold == \A a \in AlertIds : []<>~Waiting(a, "RESOLVED")
=============================================================================
