------------------------------- MODULE Alerts -------------------------------
(***************************************************************************)
(* The rows of the table alerts, and the two who change them: the health   *)
(* monitor, which on each tick opens or touches an alert for what is wrong *)
(* and resolves that of what has recovered, in two statements each; and an *)
(* administrator, who acknowledges and resolves by id. One monitor runs    *)
(* (docker-compose.example.yml has one health-worker).                     *)
(***************************************************************************)
EXTENDS Integers, Sequences

CONSTANTS Conditions, \* an alert_type of one camera, of one school, or global
          FromList,   \* those judged from the row listed when the tick began
          NoCondition,
          MaxAlerts,  \* bound: rows ever created, out of reach of the next two
          MaxFlips,   \* bound: changes of the health of a condition
          MaxAdmin,   \* bound: requests of an administrator
          MaxFaults   \* bound: crashes and failed statements

ASSUME AlertsAssumption ==
    /\ FromList \subseteq Conditions /\ NoCondition \notin Conditions
    /\ MaxAlerts \in Nat /\ MaxFlips \in Nat /\ MaxAdmin \in Nat /\ MaxFaults \in Nat

VARIABLES alerts, \* rows in the order of opened_at; the id is the index
          clock,  \* NOW() of the last resolution: the resolutions so far
          health, \* what a check of a condition would say
          mon,    \* where the monitor is in its tick
          budget  \* what is left of the bounds

\* "unclear": the check neither opens nor resolves. The camera is disabled and
\* not listed, OFFLINE for less than the threshold, outside recording hours, or
\* a read failed.
Health == {"ok", "bad", "unclear"}

\* resolvedAt 0 is NULL. "reopened" is history: the row was acknowledged when it
\* was RESOLVED.
Alert == [cond : Conditions, status : {"OPEN", "ACKNOWLEDGED", "RESOLVED"},
          resolvedAt : Nat, reopened : BOOLEAN]

Monitor == [todo : SUBSET Conditions,
            seen : [Conditions -> Health],  \* verdicts of the listed rows
            pc   : {"next", "create", "resolve"},
            cond : Conditions \cup {NoCondition},
            id   : Nat]

MonitorIdle ==
    [todo |-> {}, seen |-> [c \in Conditions |-> "unclear"], pc |-> "next",
     cond |-> NoCondition, id |-> 0]

AlertsTypeOK ==
    /\ alerts \in Seq(Alert)
    /\ clock \in Nat
    /\ health \in [Conditions -> Health]
    /\ mon \in Monitor
    /\ mon.pc = "create" => mon.cond \in Conditions
    /\ mon.pc = "resolve" => mon.id \in DOMAIN alerts
    /\ budget \in [flips : 0..MaxFlips, admin : 0..MaxAdmin, faults : 0..MaxFaults]

AlertsInit ==
    /\ alerts = <<>>
    /\ clock = 0
    /\ health \in [Conditions -> Health]
    /\ mon = MonitorIdle
    /\ budget = [flips |-> MaxFlips, admin |-> MaxAdmin, faults |-> MaxFaults]

Fault == budget.faults > 0 /\ budget' = [budget EXCEPT !.faults = budget.faults - 1]

-----------------------------------------------------------------------------
(* The statements of sql/queries/health.sql. *)

IsOpen(a) == a \in DOMAIN alerts /\ alerts[a].status \in {"OPEN", "ACKNOWLEDGED"}
IsResolved(a) == a \in DOMAIN alerts /\ alerts[a].status = "RESOLVED"

\* Mutant: GetOpenAlertBy... WHERE status = 'OPEN'.
UnacknowledgedAlerts(c) ==
    {a \in DOMAIN alerts : alerts[a].cond = c /\ alerts[a].status = "OPEN"}

\* The rows of which GetOpenAlertByType... returns one: it has no ORDER BY.
OpenAlerts(c) ==
    {a \in DOMAIN alerts : /\ alerts[a].cond = c
                           /\ alerts[a].status \in {"OPEN", "ACKNOWLEDGED"}}

CreateAlert(c) ==
    /\ alerts' = Append(alerts, [cond |-> c, status |-> "OPEN", resolvedAt |-> 0,
                                 reopened |-> FALSE])
    /\ UNCHANGED clock

\* Unconditional: a row that is resolved already gets a later resolved_at.
ResolveAlert(a) ==
    /\ clock' = clock + 1
    /\ alerts' = [alerts EXCEPT ![a] = [alerts[a] EXCEPT !.status = "RESOLVED",
                                                        !.resolvedAt = clock + 1]]

\* Unconditional too, and resolved_at stays.
UpdateAlertStatus(a, status) ==
    /\ alerts' = [alerts EXCEPT ![a] =
                    [alerts[a] EXCEPT !.status = status,
                                      !.reopened = \/ alerts[a].reopened
                                                   \/ alerts[a].status = "RESOLVED"]]
    /\ UNCHANGED clock

-----------------------------------------------------------------------------
(* The monitor. *)

\* tick: the cameras are listed once; every condition is then checked in turn.
MonitorTick ==
    /\ mon.pc = "next" /\ mon.todo = {}
    /\ mon' = [mon EXCEPT !.todo = Conditions,
                            !.seen = [c \in Conditions |->
                                        IF c \in FromList THEN health[c] ELSE "unclear"]]
    /\ UNCHANGED <<alerts, clock, health, budget>>

Verdict(c) == IF c \in FromList THEN mon.seen[c] ELSE health[c]

\* The monitor when it has looked for the open alert of a condition.
Checked(c) ==
    [mon EXCEPT !.todo = mon.todo \ {c}, !.seen = [mon.seen EXCEPT ![c] = "unclear"]]

MonitorGoesOn == mon' = [mon EXCEPT !.pc = "next", !.cond = NoCondition, !.id = 0]

\* The check of a condition that writes nothing: it is unclear, or healthy with
\* no open alert, or bad with one, of which it touches the metadata.
MonitorPasses(c) ==
    /\ mon.pc = "next" /\ c \in mon.todo
    /\ \/ Verdict(c) = "unclear"
       \/ Verdict(c) = "ok" /\ OpenAlerts(c) = {}
       \/ Verdict(c) = "bad" /\ OpenAlerts(c) # {}
    /\ mon' = Checked(c)
    /\ UNCHANGED <<alerts, clock, health, budget>>

\* OpenOrTouch... has found no open alert, and is about to insert one.
MonitorFindsNone(c) ==
    /\ mon.pc = "next" /\ c \in mon.todo
    /\ Verdict(c) = "bad" /\ OpenAlerts(c) = {}
    /\ mon' = [Checked(c) EXCEPT !.pc = "create", !.cond = c]
    /\ UNCHANGED <<alerts, clock, health, budget>>

\* Resolve...IfOpen has found an open alert, and is about to resolve it by id.
MonitorFindsOpen(c) ==
    /\ mon.pc = "next" /\ c \in mon.todo
    /\ Verdict(c) = "ok"
    /\ \E a \in OpenAlerts(c) :
          mon' = [Checked(c) EXCEPT !.pc = "resolve", !.id = a]
    /\ UNCHANGED <<alerts, clock, health, budget>>

MonitorCreates ==
    /\ mon.pc = "create" /\ Len(alerts) < MaxAlerts
    /\ CreateAlert(mon.cond)
    /\ MonitorGoesOn
    /\ UNCHANGED <<health, budget>>

MonitorResolves ==
    /\ mon.pc = "resolve"
    /\ ResolveAlert(mon.id)
    /\ MonitorGoesOn
    /\ UNCHANGED <<health, budget>>

\* A statement fails: the error is dropped, and the tick goes on.
MonitorLosesWrite ==
    /\ Fault
    /\ mon.pc # "next"
    /\ MonitorGoesOn
    /\ UNCHANGED <<alerts, clock, health>>

MonitorCrash ==
    /\ Fault
    /\ mon # MonitorIdle
    /\ mon' = MonitorIdle
    /\ UNCHANGED <<alerts, clock, health>>

MonitorSteps ==
    \/ MonitorTick \/ MonitorCreates \/ MonitorResolves
    \/ \E c \in Conditions : MonitorPasses(c) \/ MonitorFindsNone(c) \/ MonitorFindsOpen(c)

-----------------------------------------------------------------------------
(* The environment and the administrator. *)

HealthChanges(c, h) ==
    /\ budget.flips > 0 /\ health[c] # h
    /\ health' = [health EXCEPT ![c] = h]
    /\ budget' = [budget EXCEPT !.flips = budget.flips - 1]
    /\ UNCHANGED <<alerts, clock, mon>>

\* The handlers read the row to answer 404 and to check access; alerts are never
\* deleted, so that what they do is the one UPDATE.
AdminAcknowledges(a) ==
    /\ budget.admin > 0
    /\ UpdateAlertStatus(a, "ACKNOWLEDGED")
    /\ budget' = [budget EXCEPT !.admin = budget.admin - 1]
    /\ UNCHANGED <<health, mon>>

AdminResolves(a) ==
    /\ budget.admin > 0
    /\ ResolveAlert(a)
    /\ budget' = [budget EXCEPT !.admin = budget.admin - 1]
    /\ UNCHANGED <<health, mon>>

AlertsNext ==
    \/ MonitorSteps \/ MonitorLosesWrite \/ MonitorCrash
    \/ \E c \in Conditions, h \in Health : HealthChanges(c, h)
    \/ \E a \in DOMAIN alerts : AdminAcknowledges(a) \/ AdminResolves(a)

-----------------------------------------------------------------------------
(* Properties. *)

\* README.md "Alert de-duplication": a problem has one alert that is not
\* resolved, although nothing in the table's indexes says so. The exception is
\* an administrator's acknowledgement that comes after the alert was resolved.
OneOpenAlert ==
    \A a, b \in DOMAIN alerts :
        /\ IsOpen(a) /\ IsOpen(b) /\ alerts[a].cond = alerts[b].cond
        => a = b \/ alerts[a].reopened \/ alerts[b].reopened

\* A condition that stays healthy ends with no alert open, acknowledged ones and
\* those an administrator has re-opened included, whatever the monitor's stale
\* list said and whichever of its writes were lost.
RecoveredIsResolved ==
    \A c \in Conditions :
        <>[](health[c] = "ok") => []<>(\A a \in DOMAIN alerts :
                                          alerts[a].cond = c => IsResolved(a))
=============================================================================
