---------------------------- MODULE DashboardData ----------------------------
(***************************************************************************)
(* What the dashboard keeps of the backend's data: the queries and the     *)
(* mutations of lib/admin/use-*-queries.ts as tables, and one query next   *)
(* to one mutation in the query cache, for every pair that concerns the    *)
(* same data.  The cache (TanStack Query) is external: it is modelled by   *)
(* what these files rely on.  Data is the number of writes it shows.       *)
(***************************************************************************)
EXTENDS DashboardApi, Integers, SequencesExt

CONSTANT MaxWrites     \* bound: times the mutation is submitted

ASSUME DataBounds == MaxWrites \in Nat \ {0}

VARIABLES pair,    \* [query, mutation]: the names of the two
          db,      \* external: the writes made so far to what the query reads
          cache,   \* external: the cache's entry for the query
          write    \* the mutation: [pc, step, version]

dataVars == <<pair, db, cache, write>>

-----------------------------------------------------------------------------
(* A query has a key, calls to make, parts of their answers it drops, and   *)
(* perhaps an interval; a mutation has a call to make and then, one after  *)
(* the other, sets of keys to invalidate.                                  *)

Query(key, calls) == [key |-> key, calls |-> calls, drops |-> {}, polled |-> FALSE]
Polled(q) == [q EXCEPT !.polled = TRUE]
Mutation(calls, invalidates) == [calls |-> calls, invalidates |-> invalidates]

SchoolsQueries ==
    [schoolsList |-> Query(<<"schools-list">>, {"getSchools"}),
     schoolDetail |-> Query(<<"school-detail", "id">>, {"getSchool"}),
     schoolAdmins |-> Query(<<"school-admins", "id">>, {"getSchoolAdmins"}),
     schoolRevenue |-> Query(<<"school-revenue", "id">>, {"getSchoolRevenueShare"}),
     schoolStorage |-> Query(<<"school-storage", "id">>, {"getSchoolStorageUsage"})]

SchoolsMutations ==
    [createSchool |-> Mutation({"createSchoolFromForm"}, <<{<<"schools-list">>}>>),
     updateSchool |-> Mutation({"updateSchoolFromForm", "updateSchoolLimited"},
                               <<{<<"schools-list">>}, {<<"school-detail", "id">>}>>),
     assignSchoolAdmin |-> Mutation({"assignSchoolAdmin"}, <<{<<"school-admins", "id">>}>>),
     setRevenueShare |-> Mutation({"setSchoolRevenueShare"}, <<{<<"school-revenue", "id">>}>>)]

\* The lists of cameras carry what the status says of streams and alerts, when it
\* answers, without its names.
CamerasQueries ==
    [schools |-> Query(<<"schools">>, {"listSchools"}),
     classrooms |-> Query(<<"classrooms", "id">>, {"getSchoolClassrooms"}),
     schoolCameras |-> [Query(<<"school-cameras", "id", "status">>,
                              {"getSchoolCameras", "getSchoolCameraStatus"})
                           EXCEPT !.drops = {"classroom", "school"}],
     cameraDetail |-> Query(<<"camera-detail", "id">>, {"getCamera"}),
     cameraStreamState |-> Polled(Query(<<"camera-stream-state", "id">>, {"getCameraStreamState"}))]

CamerasMutations ==
    [createCamera |-> Mutation({"createCamera"}, <<{<<"school-cameras">>}, {<<"camera-detail">>}>>),
     updateCamera |-> Mutation({"updateCamera"},
                               <<{<<"school-cameras">>}, {<<"camera-detail", "id">>}>>)]

CameraMonitoringQueries ==
    [cameraStatus |-> Polled(Query(<<"camera-status", "id">>, {"getSchoolCameraStatus"})),
     cameraHealth |-> Polled(Query(<<"camera-health", "id">>, {"getCameraHealthDetail"})),
     schedulerStatus |-> Query(<<"scheduler-status">>, {"getSchedulerStatus"})]

BillingQueries ==
    [subscriptions |-> Query(<<"subscriptions", "filters">>, {"getSubscriptions"}),
     payments |-> Query(<<"payments", "filters">>, {"getPayments"}),
     invoices |-> Query(<<"invoices", "filters">>, {"getInvoices"})]

\* Mutant: the invoices are forgotten.
invalidateSomeBilling == <<{<<"subscriptions">>, <<"payments">>}>>

invalidateAllBilling == <<{<<"subscriptions">>, <<"payments">>, <<"invoices">>}>>

BillingMutations ==
    [m \in {"createSubscription", "updateSubscriptionStatus", "extendSubscription",
            "createPayment", "approvePayment", "rejectPayment",
            "createInvoice", "markInvoicePaid", "voidInvoice"} |->
        Mutation({m}, invalidateAllBilling)]

UsersQueries ==
    [users |-> Query(<<"users", "filters">>, {"getUsers"}),
     userDetail |-> Query(<<"user-detail", "id">>, {"getUserById"})]

usersAndDetail == <<{<<"users">>}, {<<"user-detail", "id">>}>>

UsersMutations ==
    Together({[createUser |-> Mutation({"createUser"}, <<{<<"users">>}>>),
               resetUserPassword |-> Mutation({"resetUserPassword"}, <<{<<"user-detail", "id">>}>>)],
              [m \in {"updateUser", "updateUserStatus", "updateUserRole",
                      "forceUserPasswordChange", "assignUserSchools"} |->
                  Mutation({m}, usersAndDetail)]})

ClassroomsQueries ==
    [schoolClassrooms |-> Query(<<"school-classrooms", "id">>, {"getSchoolClassrooms"})]

ClassroomsMutations ==
    [m \in {"createClassroom", "updateClassroom"} |->
        Mutation({m}, <<{<<"school-classrooms", "id">>}, {<<"school-children", "id">>}>>)]

ChildrenQueries ==
    [schoolChildren |-> Query(<<"school-children", "id", "classroom">>, {"getSchoolChildren"})]

ChildrenMutations ==
    [m \in {"createChild", "updateChild"} |->
        Mutation({m}, <<{<<"school-children", "id">>}, {<<"school-classrooms", "id">>}>>)]

ParentsQueries ==
    [parents |-> Query(<<"parents">>, {"getParents"}),
     parentDetail |-> Query(<<"parent-detail", "id">>, {"getParentById"}),
     childParents |-> Query(<<"child-parents", "id">>, {"getChildParents"})]

ParentsMutations ==
    [createParent |-> Mutation({"createParent"}, <<{<<"parents">>}>>),
     linkParentToChild |-> Mutation({"linkParentToChild"},
         <<{<<"parents">>}, {<<"child-parents", "id">>}, {<<"school-children">>}>>)]

ParentCodesQueries ==
    [parentCodes |-> Query(<<"parent-invitation-codes", "id">>, {"listParentInvitationCodes"})]

ParentCodesMutations ==
    [m \in {"generateParentInvitationCode", "revokeParentInvitationCode"} |->
        Mutation({m}, <<{<<"parent-invitation-codes", "id">>}>>)]

ScheduleQueries == [schoolSchedule |-> Query(<<"school-schedule", "id">>, {"getSchoolSchedule"})]

ScheduleMutations ==
    [updateSchedule |-> Mutation({"updateSchoolSchedule"}, <<{<<"school-schedule", "id">>}>>)]

AlertsQueries ==
    [alerts |-> Polled(Query(<<"alerts", "filters">>, {"getAlerts"})),
     alertDeliveries |-> Polled(Query(<<"alert-deliveries">>, {"getAlertDeliveries"}))]

AlertsMutations ==
    [m \in {"acknowledgeAlert", "resolveAlert"} |-> Mutation({m}, <<{<<"alerts">>}>>)]

AuditLogsQueries == [auditLogs |-> Polled(Query(<<"audit-logs", "filters">>, {"getAuditLogsPage"}))]

DashboardQuery == [dashboard |-> Polled(Query(<<"dashboard">>, {"getAdminDashboard"}))]

SystemQueries ==
    [workers |-> Polled(Query(<<"system", "workers">>, {"getWorkers"})),
     healthSummary |-> Polled(Query(<<"system", "health-summary">>, {"getHealthSummary"})),
     scheduler |-> Polled(Query(<<"system", "scheduler">>, {"getSchedulerStatus"})),
     retention |-> Polled(Query(<<"system", "retention">>, {"getRetentionStatus"})),
     storageUsage |-> Polled(Query(<<"system", "storage-usage", "summary">>, {"getStorageUsage"}))]

QueryTables ==
    {SchoolsQueries, CamerasQueries, CameraMonitoringQueries, BillingQueries, UsersQueries,
     ClassroomsQueries, ChildrenQueries, ParentsQueries, ParentCodesQueries, ScheduleQueries,
     AlertsQueries, AuditLogsQueries, DashboardQuery, SystemQueries}
Queries == Together(QueryTables)

MutationTables ==
    {SchoolsMutations, CamerasMutations, BillingMutations, UsersMutations, ClassroomsMutations,
     ChildrenMutations, ParentsMutations, ParentCodesMutations, ScheduleMutations,
     AlertsMutations}
Mutations == Together(MutationTables)

\* The mutation writes what the query reads.
Concerns(m, q) ==
    \E c \in Mutations[m].calls, d \in Queries[q].calls :
        Api[c].writes \intersect (Api[d].reads \ Queries[q].drops) # {}

\* invalidateQueries concerns every query whose key begins with the given one.
Matches(keys, q) == \E k \in keys : IsPrefix(k, Queries[q].key)
Invalidates(m, q) == \E i \in DOMAIN Mutations[m].invalidates : Matches(Mutations[m].invalidates[i], q)

-----------------------------------------------------------------------------
NoData == -1
Absent == [data |-> NoData, invalid |-> FALSE, aged |-> FALSE, fetching |-> FALSE,
           seen |-> NoData, mounted |-> FALSE, joined |-> FALSE]

DataTypeOK ==
    /\ pair \in [query : DOMAIN Queries, mutation : DOMAIN Mutations]
    /\ db \in 0..MaxWrites
    /\ cache \in [data : NoData..MaxWrites, invalid : BOOLEAN, aged : BOOLEAN, fetching : BOOLEAN,
                  seen : NoData..MaxWrites, mounted : BOOLEAN, joined : BOOLEAN]
    /\ write \in [pc : {"idle", "sent", "written", "settling", "settled"}, step : Nat,
                  version : 0..MaxWrites]

DataInit ==
    /\ pair \in {p \in [query : DOMAIN Queries, mutation : DOMAIN Mutations] :
                    Concerns(p.mutation, p.query) \/ Invalidates(p.mutation, p.query)}
    /\ db = 0 /\ cache = Absent
    /\ write = [pc |-> "idle", step |-> 0, version |-> 0]

Fetching(entry) == [entry EXCEPT !.fetching = TRUE, !.seen = NoData]
isStale(entry) == entry.aged \/ entry.invalid

\* A component that uses the query appears: data that is missing or stale is
\* fetched, unless a fetch is under way.
Mount ==
    /\ ~cache.mounted
    /\ cache' = [(IF ~cache.fetching /\ (cache.data = NoData \/ isStale(cache))
                  THEN Fetching(cache) ELSE cache) EXCEPT !.mounted = TRUE]
    /\ UNCHANGED <<pair, db, write>>

Unmount ==
    /\ cache.mounted
    /\ cache' = [cache EXCEPT !.mounted = FALSE]
    /\ UNCHANGED <<pair, db, write>>

\* Nobody used the entry for five minutes.
Collected ==
    /\ ~cache.mounted /\ ~cache.fetching /\ cache # Absent
    /\ cache' = Absent
    /\ UNCHANGED <<pair, db, write>>

\* The stale time passes.
Ages ==
    /\ cache.data # NoData /\ ~cache.aged
    /\ cache' = [cache EXCEPT !.aged = TRUE]
    /\ UNCHANGED <<pair, db, write>>

\* Mutant: only data that has failed to load is polled.
PollMissing ==
    /\ Queries[pair.query].polled
    /\ cache.mounted /\ ~cache.fetching /\ cache.data = NoData
    /\ cache' = Fetching(cache)
    /\ UNCHANGED <<pair, db, write>>

\* The interval passes, or the window or the network comes back to stale data.
Poll ==
    /\ Queries[pair.query].polled
    /\ cache.mounted /\ ~cache.fetching
    /\ cache' = Fetching(cache)
    /\ UNCHANGED <<pair, db, write>>

Refocus ==
    /\ cache.mounted /\ ~cache.fetching /\ isStale(cache)
    /\ cache' = Fetching(cache)
    /\ UNCHANGED <<pair, db, write>>

BackendReads ==
    /\ cache.fetching /\ cache.seen = NoData
    /\ cache' = [cache EXCEPT !.seen = db]
    /\ UNCHANGED <<pair, db, write>>

FetchSucceeds ==
    /\ cache.fetching /\ cache.seen # NoData
    /\ cache' = [cache EXCEPT !.data = cache.seen, !.seen = NoData, !.fetching = FALSE,
                              !.invalid = FALSE, !.aged = FALSE, !.joined = @ /\ cache.invalid]
    /\ UNCHANGED <<pair, db, write>>

FetchFails ==
    /\ cache.fetching
    /\ cache' = [cache EXCEPT !.seen = NoData, !.fetching = FALSE, !.joined = @ /\ ~cache.invalid]
    /\ UNCHANGED <<pair, db, write>>

-----------------------------------------------------------------------------
(* The mutation.                                                           *)

Submit ==
    /\ write.pc \in {"idle", "settled"} /\ write.version < MaxWrites
    /\ write' = [write EXCEPT !.pc = "sent", !.step = 0]
    /\ UNCHANGED <<pair, db, cache>>

BackendWrites ==
    /\ write.pc = "sent"
    /\ db' = IF Concerns(pair.mutation, pair.query) THEN db + 1 ELSE db
    /\ write' = [write EXCEPT !.pc = "written", !.version = @ + 1]
    /\ UNCHANGED <<pair, cache>>

\* Refused, or the request or its answer is lost, or is not what was expected:
\* onSuccess is not called, whatever the backend has written.
WriteFails ==
    /\ write.pc \in {"sent", "written"}
    /\ write' = [write EXCEPT !.pc = "idle"]
    /\ UNCHANGED <<pair, db, cache>>

\* onSuccess begins.
WriteAnswered ==
    /\ write.pc = "written"
    /\ write' = [write EXCEPT !.pc = "settling", !.step = 1]
    /\ UNCHANGED <<pair, db, cache>>

\* invalidateQueries: the entry is marked, and one in use is fetched anew in
\* place of a fetch under way.  The first fetch of an entry and one nobody waits
\* for any more go on, and their success clears the mark.
invalidateQueries ==
    LET marked == [cache EXCEPT !.invalid = TRUE, !.joined = FALSE]
        goesOn == cache.fetching /\ (cache.data = NoData \/ ~cache.mounted)
    IN IF cache = Absent THEN cache
       ELSE IF goesOn THEN [marked EXCEPT !.joined = TRUE]
       ELSE IF cache.mounted THEN Fetching(marked)
       ELSE marked

\* The i-th await of onSuccess concerns the query.
Touches(i) ==
    LET steps == Mutations[pair.mutation].invalidates
    IN i \in DOMAIN steps /\ Matches(steps[i], pair.query)

\* One await of onSuccess after another; each waits for the fetches it caused.
Invalidate ==
    /\ write.pc = "settling"
    /\ Touches(write.step - 1) => ~cache.fetching \/ ~cache.mounted
    /\ cache' = IF Touches(write.step) THEN invalidateQueries ELSE cache
    /\ write' = IF write.step > Len(Mutations[pair.mutation].invalidates)
                THEN [write EXCEPT !.pc = "settled", !.step = 0]
                ELSE [write EXCEPT !.step = @ + 1]
    /\ UNCHANGED <<pair, db>>

Fetch == BackendReads \/ FetchSucceeds \/ FetchFails

DataNext ==
    \/ Mount \/ Unmount \/ Collected \/ Ages \/ Poll \/ Refocus \/ Fetch
    \/ Submit \/ BackendWrites \/ WriteFails \/ WriteAnswered \/ Invalidate

DataSpec == DataInit /\ [][DataNext]_dataVars

\* Intervals elapse, and of the requests sent again and again some are answered.
DataFairness ==
    WF_dataVars(Poll) /\ SF_dataVars(BackendReads) /\ SF_dataVars(FetchSucceeds)

-----------------------------------------------------------------------------
(* Properties                                                              *)

\* The lists that a mutation leaves as they are although it changes what they
\* show, until their data ages (the queries that are polled catch up by that).
LeftToAge ==
    {p \in (DOMAIN Mutations) \X (DOMAIN Queries) :
        \/ p[1] \in {"createSchool", "updateSchool"} /\ p[2] = "schools"
        \/ /\ p[1] = "updateSchool"
           /\ p[2] \in {"subscriptions", "payments", "invoices", "schoolStorage", "parentDetail"}
        \/ p[1] \in {"updateSchool", "updateClassroom", "updateCamera"} /\ p[2] = "schedulerStatus"
        \/ p[1] \in {"createClassroom", "updateClassroom"} /\ p[2] = "classrooms"
        \/ p[1] \in {"linkParentToChild", "updateChild"} /\ p[2] = "parentDetail"
        \/ p[1] = "resolveAlert" /\ p[2] = "schoolCameras"
        \/ /\ p[1] \in {"createUser", "updateUser", "updateUserStatus", "updateUserRole",
                        "assignUserSchools"}
           /\ p[2] = "schoolAdmins"
        \/ p[1] = "assignSchoolAdmin" /\ p[2] \in {"users", "userDetail"}
        \/ p[1] = "resetUserPassword" /\ p[2] = "users"}

\* Who has changed something is not shown the data from before the change: once
\* a mutation has settled, each query of that data shows the change, is being
\* fetched, or is marked to be; only a query whose first fetch, or a fetch of a
\* page left since, was under way when it was invalidated can miss it.
OwnWriteSeen ==
    write.pc = "settled" /\ Concerns(pair.mutation, pair.query)
    /\ ~Queries[pair.query].polled /\ <<pair.mutation, pair.query>> \notin LeftToAge
    /\ cache.data # NoData
    => cache.data >= write.version \/ cache.invalid \/ cache.joined

\* What is polled catches up with the backend while it is shown, also when
\* answers of writes were lost and fetches failed in between.
PolledCatchesUp ==
    []<>(Queries[pair.query].polled => cache.data = db \/ ~cache.mounted)
=============================================================================
