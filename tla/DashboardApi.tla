---------------------------- MODULE DashboardApi ----------------------------
(***************************************************************************)
(* The calls the dashboard makes of the backend, one table for each file   *)
(* lib/admin/*-api.ts: what its answer says or what it changes there, and  *)
(* what becomes of a refusal with status 403; and the roles the backend's  *)
(* router accepts.  Data is a name: the plural is which rows there are,    *)
(* the singular what the rows that exist say, the name a join adds to an   *)
(* answer included (a new row joins nothing that was read before).  Which  *)
(* schools the caller may see is not data: no call changes its own.  The   *)
(* row in the audit log that each change adds is left out: it is polled.   *)
(***************************************************************************)
EXTENDS Naturals, Sequences, FiniteSets

Roles == {"SUPER_ADMIN", "SCHOOL_ADMIN", "TECHNICIAN"}

Get(what) == [reads |-> what, writes |-> {}, refused |-> "throws"]
GetOrEmpty(what) == [Get(what) EXCEPT !.refused = "empty"]
Send(what) == [reads |-> {}, writes |-> what, refused |-> "throws"]

\* An alert that is acknowledged still counts as open.
AlertsApi ==
    [getAlerts |-> Get({"alert"}),
     getAlertDeliveries |-> GetOrEmpty({"deliveries"}),
     acknowledgeAlert |-> Send({"alert"}),
     resolveAlert |-> Send({"alert", "openAlerts"})]

AuditLogsApi == [getAuditLogsPage |-> Get({"audit", "user", "parent", "school"})]

BillingApi ==
    [getSubscriptions |-> GetOrEmpty({"subscriptions", "parent", "school"}),
     getPayments |-> GetOrEmpty({"payments", "parent", "school"}),
     getInvoices |-> GetOrEmpty({"invoices", "parent", "school"}),
     createSubscription |-> Send({"subscriptions"}),
     updateSubscriptionStatus |-> Send({"subscriptions"}),
     extendSubscription |-> Send({"subscriptions"}),
     createPayment |-> Send({"payments"}),
     approvePayment |-> Send({"payments", "subscriptions", "invoices"}),
     rejectPayment |-> Send({"payments"}),
     createInvoice |-> Send({"invoices"}),
     markInvoicePaid |-> Send({"invoices"}),
     voidInvoice |-> Send({"invoices"})]

\* The detail of a camera's health survives a refused or failed stream state; the
\* scheduler counts the cameras that are in use in classrooms and schools in use.
CameraMonitoringApi ==
    [listSchools |-> GetOrEmpty({"schools", "school"}),
     getSchoolCameraStatus |->
         Get({"cameras", "camera", "classroom", "school", "stream", "openAlerts"}),
     getCameraHealthDetail |-> Get({"camera", "stream", "alert", "openAlerts"}),
     getSchedulerStatus |-> Get({"stream", "camera", "classroom", "school"})]

\* createCamera is a POST and, when the path of the camera is not the one sent,
\* a PATCH whose failure is dropped.
CamerasApi ==
    [getSchoolCameras |-> Get({"cameras", "camera"}),
     getCamera |-> Get({"camera"}),
     getCameraStreamState |-> Get({"stream"}),
     createCamera |-> Send({"cameras"}),
     updateCamera |-> Send({"camera"})]

ChildrenApi ==
    [getSchoolChildren |-> Get({"children", "child"}),
     createChild |-> Send({"children"}),
     updateChild |-> Send({"child"})]

ClassroomsApi ==
    [getSchoolClassrooms |-> Get({"classrooms", "classroom"}),
     createClassroom |-> Send({"classrooms"}),
     updateClassroom |-> Send({"classroom"})]

DashboardDataApi ==
    [getAdminDashboard |-> Get({"schools", "school", "cameras", "camera", "openAlerts", "children",
                                "parents", "parent", "links", "subscriptions", "payments",
                                "workers", "storage"})]

ParentCodesApi ==
    [listParentInvitationCodes |-> GetOrEmpty({"codes"}),
     generateParentInvitationCode |-> Send({"codes"}),
     revokeParentInvitationCode |-> Send({"codes"})]

\* Mutant: the refusal of the list of parents is thrown.
ParentsApiThrowing ==
    [getParents |-> Get({"parents", "parent"}),
     getParentById |-> GetOrEmpty({"parent", "links", "child", "school"}),
     getChildParents |-> Get({"links", "parent"}),
     createParent |-> Send({"parents"}),
     linkParentToChild |-> Send({"links"})]

\* getParentById looks the parent up in the list and walks every child of every
\* school for its links: what fails on the way is an empty list of links, and a
\* new parent, school or child changes no answer before it is linked.
ParentsApi ==
    [getParents |-> GetOrEmpty({"parents", "parent"}),
     getParentById |-> GetOrEmpty({"parent", "links", "child", "school"}),
     getChildParents |-> Get({"links", "parent"}),
     createParent |-> Send({"parents"}),
     linkParentToChild |-> Send({"links"})]

ScheduleApi ==
    [getSchoolSchedule |-> Get({"schedule"}),
     updateSchoolSchedule |-> Send({"schedule"})]

\* The schools of an administrator are part of what a user's row says.
SchoolsApi ==
    [getSchools |-> Get({"schools", "school"}),
     getSchool |-> Get({"school"}),
     getSchoolAdmins |-> Get({"admins", "user"}),
     getSchoolRevenueShare |-> Get({"revenue"}),
     getSchoolStorageUsage |-> Get({"storage", "school"}),
     createSchoolFromForm |-> Send({"schools"}),
     updateSchoolFromForm |-> Send({"school"}),
     updateSchoolLimited |-> Send({"school"}),
     assignSchoolAdmin |-> Send({"admins", "user"}),
     setSchoolRevenueShare |-> Send({"revenue"})]

SystemApi ==
    [getWorkers |-> Get({"workers"}),
     getHealthSummary |-> Get({"schools", "school", "cameras", "camera", "alert", "openAlerts",
                               "workers"}),
     getRetentionStatus |-> Get({"retention"}),
     getStorageUsage |-> Get({"storage", "school"})]

\* What is said of a password (when it was changed, whether it must be) stands
\* in a user's own row, not in a school's list of administrators.
UsersApi ==
    [getUsers |-> GetOrEmpty({"users", "user", "password"}),
     getUserById |-> Get({"user", "password"}),
     createUser |-> Send({"users", "admins"}),
     updateUser |-> Send({"user"}),
     updateUserStatus |-> Send({"user"}),
     updateUserRole |-> Send({"user"}),
     resetUserPassword |-> Send({"password"}),
     forceUserPasswordChange |-> Send({"password"}),
     assignUserSchools |-> Send({"user", "admins"})]

\* The tables of several files as one (no name stands in two of them).
Together(tables) ==
    [x \in UNION {DOMAIN t : t \in tables} |-> (CHOOSE t \in tables : x \in DOMAIN t)[x]]

ApiTables ==
    {AlertsApi, AuditLogsApi, BillingApi, CameraMonitoringApi, CamerasApi, ChildrenApi,
     ClassroomsApi, DashboardDataApi, ParentCodesApi, ParentsApi, ScheduleApi, SchoolsApi,
     SystemApi, UsersApi}
Api == Together(ApiTables)

\* The groups of the backend's router.  getParentById asks for the parents first.
SuperAdminOnly ==
    {"createSchoolFromForm", "updateSchoolSchedule", "assignSchoolAdmin", "getSchoolAdmins",
     "getParents", "getParentById", "getAlertDeliveries", "setSchoolRevenueShare"}
    \union DOMAIN UsersApi
WithoutSchoolAdmin == {"getRetentionStatus", "getWorkers"}
EveryRole ==
    {"getSchoolCameras", "getCamera", "getCameraStreamState", "getCameraHealthDetail",
     "getSchoolCameraStatus", "getSchedulerStatus", "getAdminDashboard", "getHealthSummary",
     "getAlerts", "acknowledgeAlert", "resolveAlert"}

BackendAccepts(r, c) ==
    \/ r = "SUPER_ADMIN"
    \/ c \in EveryRole
    \/ r = "TECHNICIAN" /\ c \in WithoutSchoolAdmin
    \/ r = "SCHOOL_ADMIN" /\ c \notin SuperAdminOnly \union WithoutSchoolAdmin
=============================================================================
