------------------------- MODULE DashboardDataProofs -------------------------
(***************************************************************************)
(* Who changes something in the dashboard is shown the change: that the    *)
(* tables of mutations invalidate every query of what they write, and that *)
(* an invalidated entry of the cache catches up, for any number of writes. *)
(***************************************************************************)
EXTENDS DashboardData, SequenceTheorems, TLAPS

USE DataBounds

-----------------------------------------------------------------------------
(* Tables of tables.                                                       *)

\* No name stands in two tables.
Distinct(tables) == \A t, u \in tables : (\E x \in DOMAIN t : x \in DOMAIN u) => t = u

LEMMA TogetherKeeps ==
    ASSUME NEW tables, Distinct(tables), NEW t \in tables
    PROVE  /\ DOMAIN t \subseteq DOMAIN Together(tables)
           /\ \A x \in DOMAIN t : Together(tables)[x] = t[x]
<1> SUFFICES ASSUME NEW x \in DOMAIN t
             PROVE  x \in DOMAIN Together(tables) /\ Together(tables)[x] = t[x]
  BY DEF Together
<1> DEFINE u == CHOOSE v \in tables : x \in DOMAIN v
<1>1. u \in tables /\ x \in DOMAIN u
  OBVIOUS
<1>2. u = t
  BY <1>1 DEF Distinct
<1> QED
  BY <1>2 DEF Together

LEMMA ApiNames1 ==
    /\ DOMAIN AlertsApi = {"getAlerts", "getAlertDeliveries", "acknowledgeAlert", "resolveAlert"}
    /\ DOMAIN AuditLogsApi = {"getAuditLogsPage"}
    /\ DOMAIN BillingApi =
         {"getSubscriptions", "getPayments", "getInvoices", "createSubscription",
          "updateSubscriptionStatus", "extendSubscription", "createPayment", "approvePayment",
          "rejectPayment", "createInvoice", "markInvoicePaid", "voidInvoice"}
    /\ DOMAIN CameraMonitoringApi =
         {"listSchools", "getSchoolCameraStatus", "getCameraHealthDetail", "getSchedulerStatus"}
    /\ DOMAIN CamerasApi =
         {"getSchoolCameras", "getCamera", "getCameraStreamState", "createCamera", "updateCamera"}
    /\ DOMAIN ChildrenApi = {"getSchoolChildren", "createChild", "updateChild"}
    /\ DOMAIN ClassroomsApi = {"getSchoolClassrooms", "createClassroom", "updateClassroom"}
    /\ DOMAIN DashboardDataApi = {"getAdminDashboard"}
BY DEF AlertsApi, AuditLogsApi, BillingApi, CameraMonitoringApi, CamerasApi, ChildrenApi,
       ClassroomsApi, DashboardDataApi

LEMMA ApiNames2 ==
    /\ DOMAIN ParentCodesApi =
         {"listParentInvitationCodes", "generateParentInvitationCode",
          "revokeParentInvitationCode"}
    /\ DOMAIN ParentsApi =
         {"getParents", "getParentById", "getChildParents", "createParent", "linkParentToChild"}
    /\ DOMAIN ScheduleApi = {"getSchoolSchedule", "updateSchoolSchedule"}
    /\ DOMAIN SchoolsApi =
         {"getSchools", "getSchool", "getSchoolAdmins", "getSchoolRevenueShare",
          "getSchoolStorageUsage", "createSchoolFromForm", "updateSchoolFromForm",
          "updateSchoolLimited", "assignSchoolAdmin", "setSchoolRevenueShare"}
    /\ DOMAIN SystemApi =
         {"getWorkers", "getHealthSummary", "getRetentionStatus", "getStorageUsage"}
    /\ DOMAIN UsersApi =
         {"getUsers", "getUserById", "createUser", "updateUser", "updateUserStatus",
          "updateUserRole", "resetUserPassword", "forceUserPasswordChange", "assignUserSchools"}
BY DEF ParentCodesApi, ParentsApi, ScheduleApi, SchoolsApi, SystemApi, UsersApi

LEMMA ApiDistinct == Distinct(ApiTables)
BY ApiNames1, ApiNames2, SMTT(60) DEF Distinct, ApiTables

LEMMA QueryNames ==
    /\ DOMAIN SchoolsQueries =
         {"schoolsList", "schoolDetail", "schoolAdmins", "schoolRevenue", "schoolStorage"}
    /\ DOMAIN CamerasQueries =
         {"schools", "classrooms", "schoolCameras", "cameraDetail", "cameraStreamState"}
    /\ DOMAIN CameraMonitoringQueries = {"cameraStatus", "cameraHealth", "schedulerStatus"}
    /\ DOMAIN BillingQueries = {"subscriptions", "payments", "invoices"}
    /\ DOMAIN UsersQueries = {"users", "userDetail"}
    /\ DOMAIN ClassroomsQueries = {"schoolClassrooms"}
    /\ DOMAIN ChildrenQueries = {"schoolChildren"}
    /\ DOMAIN ParentsQueries = {"parents", "parentDetail", "childParents"}
    /\ DOMAIN ParentCodesQueries = {"parentCodes"}
    /\ DOMAIN ScheduleQueries = {"schoolSchedule"}
    /\ DOMAIN AlertsQueries = {"alerts", "alertDeliveries"}
    /\ DOMAIN AuditLogsQueries = {"auditLogs"}
    /\ DOMAIN DashboardQuery = {"dashboard"}
    /\ DOMAIN SystemQueries =
         {"workers", "healthSummary", "scheduler", "retention", "storageUsage"}
BY DEF SchoolsQueries, CamerasQueries, CameraMonitoringQueries, BillingQueries, UsersQueries,
       ClassroomsQueries, ChildrenQueries, ParentsQueries, ParentCodesQueries, ScheduleQueries,
       AlertsQueries, AuditLogsQueries, DashboardQuery, SystemQueries

LEMMA QueriesDistinct == Distinct(QueryTables)
BY QueryNames, SMTT(60) DEF Distinct, QueryTables

BillingWrites ==
    {"createSubscription", "updateSubscriptionStatus", "extendSubscription", "createPayment",
     "approvePayment", "rejectPayment", "createInvoice", "markInvoicePaid", "voidInvoice"}
UserEdits ==
    {"updateUser", "updateUserStatus", "updateUserRole", "forceUserPasswordChange",
     "assignUserSchools"}

LEMMA UsersMutationsAre ==
    /\ DOMAIN UsersMutations = {"createUser", "resetUserPassword"} \cup UserEdits
    /\ UsersMutations["createUser"] = Mutation({"createUser"}, <<{<<"users">>}>>)
    /\ UsersMutations["resetUserPassword"] =
         Mutation({"resetUserPassword"}, <<{<<"user-detail", "id">>}>>)
    /\ \A m \in UserEdits : UsersMutations[m] = Mutation({m}, usersAndDetail)
<1> DEFINE t == [createUser |-> Mutation({"createUser"}, <<{<<"users">>}>>),
                 resetUserPassword |->
                     Mutation({"resetUserPassword"}, <<{<<"user-detail", "id">>}>>)]
           u == [m \in UserEdits |-> Mutation({m}, usersAndDetail)]
<1>1. UsersMutations = Together({t, u})
  BY Zenon DEF UsersMutations, UserEdits
<1>2. /\ DOMAIN t = {"createUser", "resetUserPassword"} /\ DOMAIN u = UserEdits
      /\ t["createUser"] = Mutation({"createUser"}, <<{<<"users">>}>>)
      /\ t["resetUserPassword"] = Mutation({"resetUserPassword"}, <<{<<"user-detail", "id">>}>>)
      /\ \A m \in UserEdits : u[m] = Mutation({m}, usersAndDetail)
  OBVIOUS
<1> HIDE DEF t, u
<1>3. Distinct({t, u})
  BY <1>2 DEF Distinct, UserEdits
<1>4. DOMAIN Together({t, u}) = DOMAIN t \cup DOMAIN u
  BY DEF Together
<1> QED
  BY <1>1, <1>2, <1>3, <1>4, TogetherKeeps

LEMMA MutationNames ==
    /\ DOMAIN SchoolsMutations =
         {"createSchool", "updateSchool", "assignSchoolAdmin", "setRevenueShare"}
    /\ DOMAIN CamerasMutations = {"createCamera", "updateCamera"}
    /\ DOMAIN BillingMutations = BillingWrites
    /\ DOMAIN ClassroomsMutations = {"createClassroom", "updateClassroom"}
    /\ DOMAIN ChildrenMutations = {"createChild", "updateChild"}
    /\ DOMAIN ParentsMutations = {"createParent", "linkParentToChild"}
    /\ DOMAIN ParentCodesMutations =
         {"generateParentInvitationCode", "revokeParentInvitationCode"}
    /\ DOMAIN ScheduleMutations = {"updateSchedule"}
    /\ DOMAIN AlertsMutations = {"acknowledgeAlert", "resolveAlert"}
BY DEF SchoolsMutations, CamerasMutations, BillingMutations, BillingWrites, ClassroomsMutations,
       ChildrenMutations, ParentsMutations, ParentCodesMutations, ScheduleMutations,
       AlertsMutations

LEMMA MutationsDistinct == Distinct(MutationTables)
BY MutationNames, UsersMutationsAre, SMTT(60)
DEF Distinct, MutationTables, BillingWrites, UserEdits

LEMMA PrefixOf ==
    ASSUME NEW S, NEW s \in Seq(S), NEW t \in Seq(S), Len(s) <= Len(t),
           \A i \in 1..Len(s) : s[i] = t[i]
    PROVE  IsPrefix(s, t)
<1> DEFINE u == SubSeq(t, 1, Len(s))
<1>0. Len(s) \in Nat /\ Len(t) \in Nat /\ s \in Seq(S) /\ t \in Seq(S)
  OBVIOUS
<1>1. \A i \in 1..Len(s) : t[i] \in S
  BY <1>0
<1>2. u \in Seq(S) /\ Len(u) = Len(s) /\ \A i \in 1..Len(s) : u[i] = t[i]
  <2>1. /\ u \in Seq(S)
        /\ Len(u) = IF 1 <= Len(s) THEN Len(s) - 1 + 1 ELSE 0
        /\ \A i \in 1..(Len(s) - 1 + 1) : u[i] = t[1 + i - 1]
    BY <1>0, <1>1, SubSeqProperties
  <2> HIDE DEF u
  <2> QED
    BY <1>0, <2>1
<1>3. u = s
  <2> HIDE DEF u
  <2> QED
    BY <1>0, <1>2, SeqEqual
<1>4. SubSeq(s, 1, Len(s)) = s
  BY SubSeqFull
<1> QED
  BY <1>3, <1>4 DEF IsPrefix

LEMMA KeyPrefixes ==
    \A a, b, c : /\ IsPrefix(<<a>>, <<a>>) /\ IsPrefix(<<a>>, <<a, b>>)
                 /\ IsPrefix(<<a>>, <<a, b, c>>)
                 /\ IsPrefix(<<a, b>>, <<a, b>>) /\ IsPrefix(<<a, b>>, <<a, b, c>>)
<1> SUFFICES ASSUME NEW a, NEW b, NEW c
             PROVE  /\ IsPrefix(<<a>>, <<a>>) /\ IsPrefix(<<a>>, <<a, b>>)
                    /\ IsPrefix(<<a>>, <<a, b, c>>)
                    /\ IsPrefix(<<a, b>>, <<a, b>>) /\ IsPrefix(<<a, b>>, <<a, b, c>>)
  OBVIOUS
<1> DEFINE S == {a, b, c}
<1>1. <<a>> \in Seq(S) /\ <<a, b>> \in Seq(S) /\ <<a, b, c>> \in Seq(S)
  OBVIOUS
<1>2. Len(<<a>>) = 1 /\ Len(<<a, b>>) = 2 /\ Len(<<a, b, c>>) = 3
  OBVIOUS
<1>5. \A i \in 1..1 : <<a>>[i] = <<a, b>>[i] /\ <<a>>[i] = <<a, b, c>>[i]
  OBVIOUS
<1>6. \A i \in 1..2 : <<a, b>>[i] = <<a, b, c>>[i]
  OBVIOUS
<1> HIDE DEF S
<1> DEFINE s == <<a>>
           t == <<a, b>>
           u == <<a, b, c>>
<1> HIDE DEF s, t, u
<1>3. IsPrefix(s, s) /\ IsPrefix(s, t) /\ IsPrefix(s, u)
  <2>1. s \in Seq(S) /\ t \in Seq(S) /\ u \in Seq(S) /\ Len(s) = 1 /\ Len(t) = 2 /\ Len(u) = 3
    BY <1>1, <1>2 DEF s, t, u
  <2>2. \A i \in 1..1 : s[i] = t[i] /\ s[i] = u[i]
    BY <1>5 DEF s, t, u
  <2> QED
    BY <2>1, <2>2, PrefixOf
<1>4. IsPrefix(t, t) /\ IsPrefix(t, u)
  <2>1. t \in Seq(S) /\ u \in Seq(S) /\ Len(t) = 2 /\ Len(u) = 3
    BY <1>1, <1>2 DEF t, u
  <2>2. \A i \in 1..2 : t[i] = u[i]
    BY <1>6 DEF t, u
  <2> QED
    BY <2>1, <2>2, PrefixOf
<1> QED
  BY <1>3, <1>4 DEF s, t, u

-----------------------------------------------------------------------------
Reads(q) == (UNION {Api[c].reads : c \in Queries[q].calls}) \ Queries[q].drops

\* The entry of q: its key and what it reads.
Entry(q, key, reads) ==
    q \in DOMAIN Queries /\ Queries[q].key = key /\ Reads(q) = reads

LEMMA ApiOf ==
    ASSUME NEW t \in ApiTables, NEW c \in DOMAIN t
    PROVE  c \in DOMAIN Api /\ Api[c] = t[c]
BY TogetherKeeps, ApiDistinct DEF Api

LEMMA QueryOf ==
    ASSUME NEW t \in QueryTables, NEW q \in DOMAIN t
    PROVE  q \in DOMAIN Queries /\ Queries[q] = t[q]
BY TogetherKeeps, QueriesDistinct DEF Queries

LEMMA MutationOf ==
    ASSUME NEW t \in MutationTables, NEW m \in DOMAIN t
    PROVE  m \in DOMAIN Mutations /\ Mutations[m] = t[m]
BY TogetherKeeps, MutationsDistinct DEF Mutations

\* A query that makes one call.
LEMMA OneCall ==
    ASSUME NEW t \in QueryTables, NEW q \in DOMAIN t, NEW a \in ApiTables, NEW c \in DOMAIN a,
           NEW key, t[q] = Query(key, {c})
    PROVE  Entry(q, key, a[c].reads)
<1>1. Queries[q].key = key /\ Queries[q].calls = {c} /\ Queries[q].drops = {}
  BY QueryOf DEF Query
<1> QED
  BY <1>1, QueryOf, ApiOf DEF Entry, Reads

LEMMA SchoolsEntries ==
    /\ Entry("schoolsList", <<"schools-list">>, {"schools", "school"})
    /\ Entry("schoolDetail", <<"school-detail", "id">>, {"school"})
    /\ Entry("schoolAdmins", <<"school-admins", "id">>, {"admins", "user"})
    /\ Entry("schoolRevenue", <<"school-revenue", "id">>, {"revenue"})
    /\ Entry("schoolStorage", <<"school-storage", "id">>, {"storage", "school"})
<1>0. /\ SchoolsQueries \in QueryTables
      /\ SchoolsApi \in ApiTables
  BY DEF QueryTables, ApiTables
<1>1. Entry("schoolsList", <<"schools-list">>, {"schools", "school"})
  <2>1. SchoolsApi["getSchools"].reads = {"schools", "school"}
    BY DEF SchoolsApi, Get, GetOrEmpty
  <2>2. SchoolsQueries["schoolsList"] = Query(<<"schools-list">>, {"getSchools"})
    BY DEF SchoolsQueries
  <2>3. "schoolsList" \in DOMAIN SchoolsQueries /\ "getSchools" \in DOMAIN SchoolsApi
    BY QueryNames, ApiNames1, ApiNames2
  <2>4. Entry("schoolsList", <<"schools-list">>, SchoolsApi["getSchools"].reads)
    BY <1>0, <2>2, <2>3, OneCall
  <2> QED
    BY <2>1, <2>4
<1>2. Entry("schoolDetail", <<"school-detail", "id">>, {"school"})
  <2>1. SchoolsApi["getSchool"].reads = {"school"}
    BY DEF SchoolsApi, Get, GetOrEmpty
  <2>2. SchoolsQueries["schoolDetail"] = Query(<<"school-detail", "id">>, {"getSchool"})
    BY DEF SchoolsQueries
  <2>3. "schoolDetail" \in DOMAIN SchoolsQueries /\ "getSchool" \in DOMAIN SchoolsApi
    BY QueryNames, ApiNames1, ApiNames2
  <2>4. Entry("schoolDetail", <<"school-detail", "id">>, SchoolsApi["getSchool"].reads)
    BY <1>0, <2>2, <2>3, OneCall
  <2> QED
    BY <2>1, <2>4
<1>3. Entry("schoolAdmins", <<"school-admins", "id">>, {"admins", "user"})
  <2>1. SchoolsApi["getSchoolAdmins"].reads = {"admins", "user"}
    BY DEF SchoolsApi, Get, GetOrEmpty
  <2>2. SchoolsQueries["schoolAdmins"] =
            Query(<<"school-admins", "id">>, {"getSchoolAdmins"})
    BY DEF SchoolsQueries
  <2>3. "schoolAdmins" \in DOMAIN SchoolsQueries /\ "getSchoolAdmins" \in DOMAIN SchoolsApi
    BY QueryNames, ApiNames1, ApiNames2
  <2>4. Entry("schoolAdmins", <<"school-admins", "id">>,
              SchoolsApi["getSchoolAdmins"].reads)
    BY <1>0, <2>2, <2>3, OneCall
  <2> QED
    BY <2>1, <2>4
<1>4. Entry("schoolRevenue", <<"school-revenue", "id">>, {"revenue"})
  <2>1. SchoolsApi["getSchoolRevenueShare"].reads = {"revenue"}
    BY DEF SchoolsApi, Get, GetOrEmpty
  <2>2. SchoolsQueries["schoolRevenue"] =
            Query(<<"school-revenue", "id">>, {"getSchoolRevenueShare"})
    BY DEF SchoolsQueries
  <2>3. /\ "schoolRevenue" \in DOMAIN SchoolsQueries
        /\ "getSchoolRevenueShare" \in DOMAIN SchoolsApi
    BY QueryNames, ApiNames1, ApiNames2
  <2>4. Entry("schoolRevenue", <<"school-revenue", "id">>,
              SchoolsApi["getSchoolRevenueShare"].reads)
    BY <1>0, <2>2, <2>3, OneCall
  <2> QED
    BY <2>1, <2>4
<1>5. Entry("schoolStorage", <<"school-storage", "id">>, {"storage", "school"})
  <2>1. SchoolsApi["getSchoolStorageUsage"].reads = {"storage", "school"}
    BY DEF SchoolsApi, Get, GetOrEmpty
  <2>2. SchoolsQueries["schoolStorage"] =
            Query(<<"school-storage", "id">>, {"getSchoolStorageUsage"})
    BY DEF SchoolsQueries
  <2>3. /\ "schoolStorage" \in DOMAIN SchoolsQueries
        /\ "getSchoolStorageUsage" \in DOMAIN SchoolsApi
    BY QueryNames, ApiNames1, ApiNames2
  <2>4. Entry("schoolStorage", <<"school-storage", "id">>,
              SchoolsApi["getSchoolStorageUsage"].reads)
    BY <1>0, <2>2, <2>3, OneCall
  <2> QED
    BY <2>1, <2>4
<1> QED
  BY <1>1, <1>2, <1>3, <1>4, <1>5

LEMMA CamerasEntries ==
    /\ Entry("schools", <<"schools">>, {"schools", "school"})
    /\ Entry("classrooms", <<"classrooms", "id">>, {"classrooms", "classroom"})
    /\ Entry("cameraDetail", <<"camera-detail", "id">>, {"camera"})
<1>0. /\ CamerasQueries \in QueryTables
      /\ CameraMonitoringApi \in ApiTables
      /\ ClassroomsApi \in ApiTables
      /\ CamerasApi \in ApiTables
  BY DEF QueryTables, ApiTables
<1>1. Entry("schools", <<"schools">>, {"schools", "school"})
  <2>1. CameraMonitoringApi["listSchools"].reads = {"schools", "school"}
    BY DEF CameraMonitoringApi, Get, GetOrEmpty
  <2>2. CamerasQueries["schools"] = Query(<<"schools">>, {"listSchools"})
    BY DEF CamerasQueries
  <2>3. "schools" \in DOMAIN CamerasQueries /\ "listSchools" \in DOMAIN CameraMonitoringApi
    BY QueryNames, ApiNames1, ApiNames2
  <2>4. Entry("schools", <<"schools">>, CameraMonitoringApi["listSchools"].reads)
    BY <1>0, <2>2, <2>3, OneCall
  <2> QED
    BY <2>1, <2>4
<1>2. Entry("classrooms", <<"classrooms", "id">>, {"classrooms", "classroom"})
  <2>1. ClassroomsApi["getSchoolClassrooms"].reads = {"classrooms", "classroom"}
    BY DEF ClassroomsApi, Get, GetOrEmpty
  <2>2. CamerasQueries["classrooms"] =
            Query(<<"classrooms", "id">>, {"getSchoolClassrooms"})
    BY DEF CamerasQueries
  <2>3. /\ "classrooms" \in DOMAIN CamerasQueries
        /\ "getSchoolClassrooms" \in DOMAIN ClassroomsApi
    BY QueryNames, ApiNames1, ApiNames2
  <2>4. Entry("classrooms", <<"classrooms", "id">>,
              ClassroomsApi["getSchoolClassrooms"].reads)
    BY <1>0, <2>2, <2>3, OneCall
  <2> QED
    BY <2>1, <2>4
<1>3. Entry("cameraDetail", <<"camera-detail", "id">>, {"camera"})
  <2>1. CamerasApi["getCamera"].reads = {"camera"}
    BY DEF CamerasApi, Get, GetOrEmpty
  <2>2. CamerasQueries["cameraDetail"] = Query(<<"camera-detail", "id">>, {"getCamera"})
    BY DEF CamerasQueries
  <2>3. "cameraDetail" \in DOMAIN CamerasQueries /\ "getCamera" \in DOMAIN CamerasApi
    BY QueryNames, ApiNames1, ApiNames2
  <2>4. Entry("cameraDetail", <<"camera-detail", "id">>, CamerasApi["getCamera"].reads)
    BY <1>0, <2>2, <2>3, OneCall
  <2> QED
    BY <2>1, <2>4
<1> QED
  BY <1>1, <1>2, <1>3

LEMMA BillingEntries ==
    /\ Entry("subscriptions", <<"subscriptions", "filters">>, {"subscriptions", "parent", "school"})
    /\ Entry("payments", <<"payments", "filters">>, {"payments", "parent", "school"})
    /\ Entry("invoices", <<"invoices", "filters">>, {"invoices", "parent", "school"})
<1>0. /\ BillingQueries \in QueryTables
      /\ BillingApi \in ApiTables
  BY DEF QueryTables, ApiTables
<1>1. Entry("subscriptions", <<"subscriptions", "filters">>, {"subscriptions", "parent", "school"})
  <2>1. BillingApi["getSubscriptions"].reads = {"subscriptions", "parent", "school"}
    BY DEF BillingApi, Get, GetOrEmpty
  <2>2. BillingQueries["subscriptions"] =
            Query(<<"subscriptions", "filters">>, {"getSubscriptions"})
    BY DEF BillingQueries
  <2>3. /\ "subscriptions" \in DOMAIN BillingQueries
        /\ "getSubscriptions" \in DOMAIN BillingApi
    BY QueryNames, ApiNames1, ApiNames2
  <2>4. Entry("subscriptions", <<"subscriptions", "filters">>,
              BillingApi["getSubscriptions"].reads)
    BY <1>0, <2>2, <2>3, OneCall
  <2> QED
    BY <2>1, <2>4
<1>2. Entry("payments", <<"payments", "filters">>, {"payments", "parent", "school"})
  <2>1. BillingApi["getPayments"].reads = {"payments", "parent", "school"}
    BY DEF BillingApi, Get, GetOrEmpty
  <2>2. BillingQueries["payments"] = Query(<<"payments", "filters">>, {"getPayments"})
    BY DEF BillingQueries
  <2>3. "payments" \in DOMAIN BillingQueries /\ "getPayments" \in DOMAIN BillingApi
    BY QueryNames, ApiNames1, ApiNames2
  <2>4. Entry("payments", <<"payments", "filters">>, BillingApi["getPayments"].reads)
    BY <1>0, <2>2, <2>3, OneCall
  <2> QED
    BY <2>1, <2>4
<1>3. Entry("invoices", <<"invoices", "filters">>, {"invoices", "parent", "school"})
  <2>1. BillingApi["getInvoices"].reads = {"invoices", "parent", "school"}
    BY DEF BillingApi, Get, GetOrEmpty
  <2>2. BillingQueries["invoices"] = Query(<<"invoices", "filters">>, {"getInvoices"})
    BY DEF BillingQueries
  <2>3. "invoices" \in DOMAIN BillingQueries /\ "getInvoices" \in DOMAIN BillingApi
    BY QueryNames, ApiNames1, ApiNames2
  <2>4. Entry("invoices", <<"invoices", "filters">>, BillingApi["getInvoices"].reads)
    BY <1>0, <2>2, <2>3, OneCall
  <2> QED
    BY <2>1, <2>4
<1> QED
  BY <1>1, <1>2, <1>3

LEMMA UsersEntries ==
    /\ Entry("users", <<"users", "filters">>, {"users", "user", "password"})
    /\ Entry("userDetail", <<"user-detail", "id">>, {"user", "password"})
<1>0. /\ UsersQueries \in QueryTables
      /\ UsersApi \in ApiTables
  BY DEF QueryTables, ApiTables
<1>1. Entry("users", <<"users", "filters">>, {"users", "user", "password"})
  <2>1. UsersApi["getUsers"].reads = {"users", "user", "password"}
    BY DEF UsersApi, Get, GetOrEmpty
  <2>2. UsersQueries["users"] = Query(<<"users", "filters">>, {"getUsers"})
    BY DEF UsersQueries
  <2>3. "users" \in DOMAIN UsersQueries /\ "getUsers" \in DOMAIN UsersApi
    BY QueryNames, ApiNames1, ApiNames2
  <2>4. Entry("users", <<"users", "filters">>, UsersApi["getUsers"].reads)
    BY <1>0, <2>2, <2>3, OneCall
  <2> QED
    BY <2>1, <2>4
<1>2. Entry("userDetail", <<"user-detail", "id">>, {"user", "password"})
  <2>1. UsersApi["getUserById"].reads = {"user", "password"}
    BY DEF UsersApi, Get, GetOrEmpty
  <2>2. UsersQueries["userDetail"] = Query(<<"user-detail", "id">>, {"getUserById"})
    BY DEF UsersQueries
  <2>3. "userDetail" \in DOMAIN UsersQueries /\ "getUserById" \in DOMAIN UsersApi
    BY QueryNames, ApiNames1, ApiNames2
  <2>4. Entry("userDetail", <<"user-detail", "id">>, UsersApi["getUserById"].reads)
    BY <1>0, <2>2, <2>3, OneCall
  <2> QED
    BY <2>1, <2>4
<1> QED
  BY <1>1, <1>2

LEMMA PeopleEntries ==
    /\ Entry("schoolClassrooms", <<"school-classrooms", "id">>, {"classrooms", "classroom"})
    /\ Entry("schoolChildren", <<"school-children", "id", "classroom">>, {"children", "child"})
    /\ Entry("parents", <<"parents">>, {"parents", "parent"})
    /\ Entry("parentDetail", <<"parent-detail", "id">>, {"parent", "links", "child", "school"})
    /\ Entry("childParents", <<"child-parents", "id">>, {"links", "parent"})
    /\ Entry("parentCodes", <<"parent-invitation-codes", "id">>, {"codes"})
<1>0. /\ ClassroomsQueries \in QueryTables
      /\ ChildrenQueries \in QueryTables
      /\ ParentsQueries \in QueryTables
      /\ ParentCodesQueries \in QueryTables
      /\ ClassroomsApi \in ApiTables
      /\ ChildrenApi \in ApiTables
      /\ ParentsApi \in ApiTables
      /\ ParentCodesApi \in ApiTables
  BY DEF QueryTables, ApiTables
<1>1. Entry("schoolClassrooms", <<"school-classrooms", "id">>, {"classrooms", "classroom"})
  <2>1. ClassroomsApi["getSchoolClassrooms"].reads = {"classrooms", "classroom"}
    BY DEF ClassroomsApi, Get, GetOrEmpty
  <2>2. ClassroomsQueries["schoolClassrooms"] =
            Query(<<"school-classrooms", "id">>, {"getSchoolClassrooms"})
    BY DEF ClassroomsQueries
  <2>3. /\ "schoolClassrooms" \in DOMAIN ClassroomsQueries
        /\ "getSchoolClassrooms" \in DOMAIN ClassroomsApi
    BY QueryNames, ApiNames1, ApiNames2
  <2>4. Entry("schoolClassrooms", <<"school-classrooms", "id">>,
              ClassroomsApi["getSchoolClassrooms"].reads)
    BY <1>0, <2>2, <2>3, OneCall
  <2> QED
    BY <2>1, <2>4
<1>2. Entry("schoolChildren", <<"school-children", "id", "classroom">>, {"children", "child"})
  <2>1. ChildrenApi["getSchoolChildren"].reads = {"children", "child"}
    BY DEF ChildrenApi, Get, GetOrEmpty
  <2>2. ChildrenQueries["schoolChildren"] =
            Query(<<"school-children", "id", "classroom">>, {"getSchoolChildren"})
    BY DEF ChildrenQueries
  <2>3. /\ "schoolChildren" \in DOMAIN ChildrenQueries
        /\ "getSchoolChildren" \in DOMAIN ChildrenApi
    BY QueryNames, ApiNames1, ApiNames2
  <2>4. Entry("schoolChildren", <<"school-children", "id", "classroom">>,
              ChildrenApi["getSchoolChildren"].reads)
    BY <1>0, <2>2, <2>3, OneCall
  <2> QED
    BY <2>1, <2>4
<1>3. Entry("parents", <<"parents">>, {"parents", "parent"})
  <2>1. ParentsApi["getParents"].reads = {"parents", "parent"}
    BY DEF ParentsApi, Get, GetOrEmpty
  <2>2. ParentsQueries["parents"] = Query(<<"parents">>, {"getParents"})
    BY DEF ParentsQueries
  <2>3. "parents" \in DOMAIN ParentsQueries /\ "getParents" \in DOMAIN ParentsApi
    BY QueryNames, ApiNames1, ApiNames2
  <2>4. Entry("parents", <<"parents">>, ParentsApi["getParents"].reads)
    BY <1>0, <2>2, <2>3, OneCall
  <2> QED
    BY <2>1, <2>4
<1>4. Entry("parentDetail", <<"parent-detail", "id">>, {"parent", "links", "child", "school"})
  <2>1. ParentsApi["getParentById"].reads = {"parent", "links", "child", "school"}
    BY DEF ParentsApi, Get, GetOrEmpty
  <2>2. ParentsQueries["parentDetail"] = Query(<<"parent-detail", "id">>, {"getParentById"})
    BY DEF ParentsQueries
  <2>3. "parentDetail" \in DOMAIN ParentsQueries /\ "getParentById" \in DOMAIN ParentsApi
    BY QueryNames, ApiNames1, ApiNames2
  <2>4. Entry("parentDetail", <<"parent-detail", "id">>, ParentsApi["getParentById"].reads)
    BY <1>0, <2>2, <2>3, OneCall
  <2> QED
    BY <2>1, <2>4
<1>5. Entry("childParents", <<"child-parents", "id">>, {"links", "parent"})
  <2>1. ParentsApi["getChildParents"].reads = {"links", "parent"}
    BY DEF ParentsApi, Get, GetOrEmpty
  <2>2. ParentsQueries["childParents"] =
            Query(<<"child-parents", "id">>, {"getChildParents"})
    BY DEF ParentsQueries
  <2>3. "childParents" \in DOMAIN ParentsQueries /\ "getChildParents" \in DOMAIN ParentsApi
    BY QueryNames, ApiNames1, ApiNames2
  <2>4. Entry("childParents", <<"child-parents", "id">>,
              ParentsApi["getChildParents"].reads)
    BY <1>0, <2>2, <2>3, OneCall
  <2> QED
    BY <2>1, <2>4
<1>6. Entry("parentCodes", <<"parent-invitation-codes", "id">>, {"codes"})
  <2>1. ParentCodesApi["listParentInvitationCodes"].reads = {"codes"}
    BY DEF ParentCodesApi, Get, GetOrEmpty
  <2>2. ParentCodesQueries["parentCodes"] =
            Query(<<"parent-invitation-codes", "id">>, {"listParentInvitationCodes"})
    BY DEF ParentCodesQueries
  <2>3. /\ "parentCodes" \in DOMAIN ParentCodesQueries
        /\ "listParentInvitationCodes" \in DOMAIN ParentCodesApi
    BY QueryNames, ApiNames1, ApiNames2
  <2>4. Entry("parentCodes", <<"parent-invitation-codes", "id">>,
              ParentCodesApi["listParentInvitationCodes"].reads)
    BY <1>0, <2>2, <2>3, OneCall
  <2> QED
    BY <2>1, <2>4
<1> QED
  BY <1>1, <1>2, <1>3, <1>4, <1>5, <1>6

LEMMA OtherEntries ==
    /\ Entry("schoolSchedule", <<"school-schedule", "id">>, {"schedule"})
    /\ Entry("schedulerStatus", <<"scheduler-status">>, {"stream", "camera", "classroom", "school"})
<1>0. /\ ScheduleQueries \in QueryTables
      /\ CameraMonitoringQueries \in QueryTables
      /\ ScheduleApi \in ApiTables
      /\ CameraMonitoringApi \in ApiTables
  BY DEF QueryTables, ApiTables
<1>1. Entry("schoolSchedule", <<"school-schedule", "id">>, {"schedule"})
  <2>1. ScheduleApi["getSchoolSchedule"].reads = {"schedule"}
    BY DEF ScheduleApi, Get, GetOrEmpty
  <2>2. ScheduleQueries["schoolSchedule"] =
            Query(<<"school-schedule", "id">>, {"getSchoolSchedule"})
    BY DEF ScheduleQueries
  <2>3. /\ "schoolSchedule" \in DOMAIN ScheduleQueries
        /\ "getSchoolSchedule" \in DOMAIN ScheduleApi
    BY QueryNames, ApiNames1, ApiNames2
  <2>4. Entry("schoolSchedule", <<"school-schedule", "id">>,
              ScheduleApi["getSchoolSchedule"].reads)
    BY <1>0, <2>2, <2>3, OneCall
  <2> QED
    BY <2>1, <2>4
<1>2. Entry("schedulerStatus", <<"scheduler-status">>, {"stream", "camera", "classroom", "school"})
  <2>1. CameraMonitoringApi["getSchedulerStatus"].reads = {"stream", "camera", "classroom", "school"}
    BY DEF CameraMonitoringApi, Get, GetOrEmpty
  <2>2. CameraMonitoringQueries["schedulerStatus"] =
            Query(<<"scheduler-status">>, {"getSchedulerStatus"})
    BY DEF CameraMonitoringQueries
  <2>3. /\ "schedulerStatus" \in DOMAIN CameraMonitoringQueries
        /\ "getSchedulerStatus" \in DOMAIN CameraMonitoringApi
    BY QueryNames, ApiNames1, ApiNames2
  <2>4. Entry("schedulerStatus", <<"scheduler-status">>,
              CameraMonitoringApi["getSchedulerStatus"].reads)
    BY <1>0, <2>2, <2>3, OneCall
  <2> QED
    BY <2>1, <2>4
<1> QED
  BY <1>1, <1>2

\* The lists of cameras carry what the status of the cameras says, but for its names.
LEMMA SchoolCamerasEntry ==
    Entry("schoolCameras", <<"school-cameras", "id", "status">>,
          {"cameras", "camera", "stream", "openAlerts"})
<1>1. /\ CamerasQueries \in QueryTables /\ CamerasApi \in ApiTables
      /\ CameraMonitoringApi \in ApiTables
  BY DEF QueryTables, ApiTables
<1>2. /\ "schoolCameras" \in DOMAIN Queries
      /\ Queries["schoolCameras"].key = <<"school-cameras", "id", "status">>
      /\ Queries["schoolCameras"].calls = {"getSchoolCameras", "getSchoolCameraStatus"}
      /\ Queries["schoolCameras"].drops = {"classroom", "school"}
  BY <1>1, QueryOf, QueryNames DEF CamerasQueries, Query
<1>3. Api["getSchoolCameras"].reads = {"cameras", "camera"}
  BY <1>1, ApiOf, ApiNames1 DEF CamerasApi, Get
<1>4. Api["getSchoolCameraStatus"].reads =
        {"cameras", "camera", "classroom", "school", "stream", "openAlerts"}
  BY <1>1, ApiOf, ApiNames1 DEF CameraMonitoringApi, Get
<1>5. Reads("schoolCameras") =
        (Api["getSchoolCameras"].reads \cup Api["getSchoolCameraStatus"].reads)
        \ {"classroom", "school"}
  BY <1>2 DEF Reads
<1> QED
  BY <1>2, <1>3, <1>4, <1>5 DEF Entry

PolledQueries ==
    {"cameraStreamState", "cameraStatus", "cameraHealth", "alerts", "alertDeliveries",
     "auditLogs", "dashboard", "workers", "healthSummary", "scheduler", "retention",
     "storageUsage"}

LEMMA PolledEntries == \A q \in PolledQueries : q \in DOMAIN Queries /\ Queries[q].polled
<1>1. /\ CamerasQueries \in QueryTables /\ CameraMonitoringQueries \in QueryTables
      /\ AlertsQueries \in QueryTables /\ AuditLogsQueries \in QueryTables
      /\ DashboardQuery \in QueryTables /\ SystemQueries \in QueryTables
  BY DEF QueryTables
<1>2. /\ CamerasQueries["cameraStreamState"].polled
      /\ \A q \in {"cameraStatus", "cameraHealth"} : CameraMonitoringQueries[q].polled
  BY DEF CamerasQueries, CameraMonitoringQueries, Polled, Query
<1>3. /\ \A q \in {"alerts", "alertDeliveries"} : AlertsQueries[q].polled
      /\ AuditLogsQueries["auditLogs"].polled /\ DashboardQuery["dashboard"].polled
  BY DEF AlertsQueries, AuditLogsQueries, DashboardQuery, Polled, Query
<1>4. \A q \in {"workers", "healthSummary", "scheduler", "retention", "storageUsage"} :
        SystemQueries[q].polled
  BY DEF SystemQueries, Polled, Query
<1>5. \A q \in {"cameraStreamState", "cameraStatus", "cameraHealth"} :
        q \in DOMAIN Queries /\ Queries[q].polled
  BY <1>1, <1>2, QueryOf, QueryNames
<1>6. \A q \in {"alerts", "alertDeliveries", "auditLogs", "dashboard"} :
        q \in DOMAIN Queries /\ Queries[q].polled
  BY <1>1, <1>3, QueryOf, QueryNames
<1>7. \A q \in DOMAIN SystemQueries : q \in DOMAIN Queries /\ Queries[q].polled
  BY <1>1, <1>4, QueryOf, QueryNames
<1> QED
  BY <1>5, <1>6, <1>7, QueryNames DEF PolledQueries

\* Which queries read what a mutation writes, but for those that are polled.
Readers ==
    [schools |-> {"schoolsList", "schools"},
     school |-> {"schoolsList", "schoolDetail", "schoolStorage", "schools", "subscriptions",
                 "payments", "invoices", "parentDetail", "schedulerStatus"},
     admins |-> {"schoolAdmins"},
     user |-> {"schoolAdmins", "users", "userDetail"},
     revenue |-> {"schoolRevenue"},
     cameras |-> {"schoolCameras"},
     camera |-> {"cameraDetail", "schedulerStatus", "schoolCameras"},
     classrooms |-> {"classrooms", "schoolClassrooms"},
     classroom |-> {"classrooms", "schoolClassrooms", "schedulerStatus"},
     children |-> {"schoolChildren"},
     child |-> {"schoolChildren", "parentDetail"},
     parents |-> {"parents"},
     links |-> {"parentDetail", "childParents"},
     alert |-> {},
     openAlerts |-> {"schoolCameras"},
     users |-> {"users"},
     password |-> {"users", "userDetail"},
     schedule |-> {"schoolSchedule"},
     codes |-> {"parentCodes"},
     subscriptions |-> {"subscriptions"},
     payments |-> {"payments"},
     invoices |-> {"invoices"}]

LEMMA OnlyReaders ==
    \A q \in DOMAIN Queries, what \in DOMAIN Readers :
        ~Queries[q].polled /\ what \in Reads(q) => q \in Readers[what]
<1> SUFFICES ASSUME NEW q \in DOMAIN Queries, NEW what \in DOMAIN Readers, ~Queries[q].polled,
                    what \in Reads(q)
             PROVE  q \in Readers[what]
  OBVIOUS
<1>1. PICK t \in QueryTables : q \in DOMAIN t
  BY DEF Queries, Together
<1>2. q \notin PolledQueries
  BY PolledEntries
<1>3. CASE t = SchoolsQueries
  BY <1>1, <1>3, QueryNames, SchoolsEntries DEF Readers, Entry
<1>4. CASE t \in {CamerasQueries, CameraMonitoringQueries}
  BY <1>1, <1>2, <1>4, QueryNames, CamerasEntries, OtherEntries, SchoolCamerasEntry
  DEF Readers, Entry, PolledQueries
<1>5. CASE t \in {BillingQueries, UsersQueries}
  BY <1>1, <1>5, QueryNames, BillingEntries, UsersEntries DEF Readers, Entry
<1>6. CASE t \in {ClassroomsQueries, ChildrenQueries, ParentsQueries, ParentCodesQueries}
  BY <1>1, <1>6, QueryNames, PeopleEntries DEF Readers, Entry
<1>7. CASE t = ScheduleQueries
  BY <1>1, <1>7, QueryNames, OtherEntries DEF Readers, Entry
<1>8. CASE t \in {AlertsQueries, AuditLogsQueries, DashboardQuery, SystemQueries}
  BY <1>1, <1>2, <1>8, QueryNames DEF PolledQueries
<1> QED
  BY <1>1, <1>3, <1>4, <1>5, <1>6, <1>7, <1>8 DEF QueryTables

-----------------------------------------------------------------------------
\* What a mutation writes, and its entry: what it writes and which keys it
\* invalidates.
Writes(m) == UNION {Api[c].writes : c \in Mutations[m].calls}

Change(m, writes, steps) ==
    m \in DOMAIN Mutations /\ Mutations[m].invalidates = steps /\ Writes(m) = writes

LEMMA OneSend ==
    ASSUME NEW t \in MutationTables, NEW m \in DOMAIN t, NEW a \in ApiTables, NEW c \in DOMAIN a,
           NEW steps, t[m] = Mutation({c}, steps)
    PROVE  Change(m, a[c].writes, steps)
<1>1. Mutations[m].invalidates = steps /\ Mutations[m].calls = {c}
  BY MutationOf DEF Mutation
<1> QED
  BY <1>1, MutationOf, ApiOf DEF Change, Writes

LEMMA SchoolsChanges ==
    /\ Change("createSchool", {"schools"}, <<{<<"schools-list">>}>>)
    /\ Change("assignSchoolAdmin", {"admins", "user"}, <<{<<"school-admins", "id">>}>>)
    /\ Change("setRevenueShare", {"revenue"}, <<{<<"school-revenue", "id">>}>>)
<1>0. SchoolsMutations \in MutationTables /\ SchoolsApi \in ApiTables
  BY DEF MutationTables, ApiTables
<1>1. Change("createSchool", {"schools"}, <<{<<"schools-list">>}>>)
  <2>1. SchoolsApi["createSchoolFromForm"].writes = {"schools"}
    BY DEF SchoolsApi, Send
  <2>2. SchoolsMutations["createSchool"] = Mutation({"createSchoolFromForm"},
                                                    <<{<<"schools-list">>}>>)
    BY DEF SchoolsMutations
  <2>3. "createSchool" \in DOMAIN SchoolsMutations /\ "createSchoolFromForm" \in DOMAIN SchoolsApi
    BY MutationNames, ApiNames1, ApiNames2
  <2>4. Change("createSchool", SchoolsApi["createSchoolFromForm"].writes,
               <<{<<"schools-list">>}>>)
    BY <1>0, <2>2, <2>3, OneSend
  <2> QED
    BY <2>1, <2>4
<1>2. Change("assignSchoolAdmin", {"admins", "user"}, <<{<<"school-admins", "id">>}>>)
  <2>1. SchoolsApi["assignSchoolAdmin"].writes = {"admins", "user"}
    BY DEF SchoolsApi, Send
  <2>2. SchoolsMutations["assignSchoolAdmin"] = Mutation({"assignSchoolAdmin"},
                                                         <<{<<"school-admins", "id">>}>>)
    BY DEF SchoolsMutations
  <2>3. /\ "assignSchoolAdmin" \in DOMAIN SchoolsMutations
        /\ "assignSchoolAdmin" \in DOMAIN SchoolsApi
    BY MutationNames, ApiNames1, ApiNames2
  <2>4. Change("assignSchoolAdmin", SchoolsApi["assignSchoolAdmin"].writes,
               <<{<<"school-admins", "id">>}>>)
    BY <1>0, <2>2, <2>3, OneSend
  <2> QED
    BY <2>1, <2>4
<1>3. Change("setRevenueShare", {"revenue"}, <<{<<"school-revenue", "id">>}>>)
  <2>1. SchoolsApi["setSchoolRevenueShare"].writes = {"revenue"}
    BY DEF SchoolsApi, Send
  <2>2. SchoolsMutations["setRevenueShare"] = Mutation({"setSchoolRevenueShare"},
                                                       <<{<<"school-revenue", "id">>}>>)
    BY DEF SchoolsMutations
  <2>3. /\ "setRevenueShare" \in DOMAIN SchoolsMutations
        /\ "setSchoolRevenueShare" \in DOMAIN SchoolsApi
    BY MutationNames, ApiNames1, ApiNames2
  <2>4. Change("setRevenueShare", SchoolsApi["setSchoolRevenueShare"].writes,
               <<{<<"school-revenue", "id">>}>>)
    BY <1>0, <2>2, <2>3, OneSend
  <2> QED
    BY <2>1, <2>4
<1> QED
  BY <1>1, <1>2, <1>3

LEMMA CamerasChanges ==
    /\ Change("createCamera", {"cameras"}, <<{<<"school-cameras">>}, {<<"camera-detail">>}>>)
    /\ Change("updateCamera", {"camera"},
              <<{<<"school-cameras">>}, {<<"camera-detail", "id">>}>>)
<1>0. CamerasMutations \in MutationTables /\ CamerasApi \in ApiTables
  BY DEF MutationTables, ApiTables
<1>1. Change("createCamera", {"cameras"}, <<{<<"school-cameras">>}, {<<"camera-detail">>}>>)
  <2>1. CamerasApi["createCamera"].writes = {"cameras"}
    BY DEF CamerasApi, Send
  <2>2. CamerasMutations["createCamera"] = Mutation({"createCamera"},
                      <<{<<"school-cameras">>}, {<<"camera-detail">>}>>)
    BY DEF CamerasMutations
  <2>3. "createCamera" \in DOMAIN CamerasMutations /\ "createCamera" \in DOMAIN CamerasApi
    BY MutationNames, ApiNames1, ApiNames2
  <2>4. Change("createCamera", CamerasApi["createCamera"].writes,
               <<{<<"school-cameras">>}, {<<"camera-detail">>}>>)
    BY <1>0, <2>2, <2>3, OneSend
  <2> QED
    BY <2>1, <2>4
<1>2. Change("updateCamera", {"camera"}, <<{<<"school-cameras">>}, {<<"camera-detail", "id">>}>>)
  <2>1. CamerasApi["updateCamera"].writes = {"camera"}
    BY DEF CamerasApi, Send
  <2>2. CamerasMutations["updateCamera"] = Mutation({"updateCamera"},
                      <<{<<"school-cameras">>}, {<<"camera-detail", "id">>}>>)
    BY DEF CamerasMutations
  <2>3. "updateCamera" \in DOMAIN CamerasMutations /\ "updateCamera" \in DOMAIN CamerasApi
    BY MutationNames, ApiNames1, ApiNames2
  <2>4. Change("updateCamera", CamerasApi["updateCamera"].writes,
               <<{<<"school-cameras">>}, {<<"camera-detail", "id">>}>>)
    BY <1>0, <2>2, <2>3, OneSend
  <2> QED
    BY <2>1, <2>4
<1> QED
  BY <1>1, <1>2

LEMMA ParentsChanges ==
    /\ Change("createParent", {"parents"}, <<{<<"parents">>}>>)
    /\ Change("linkParentToChild", {"links"},
              <<{<<"parents">>}, {<<"child-parents", "id">>}, {<<"school-children">>}>>)
<1>0. ParentsMutations \in MutationTables /\ ParentsApi \in ApiTables
  BY DEF MutationTables, ApiTables
<1>1. Change("createParent", {"parents"}, <<{<<"parents">>}>>)
  <2>1. ParentsApi["createParent"].writes = {"parents"}
    BY DEF ParentsApi, Send
  <2>2. ParentsMutations["createParent"] = Mutation({"createParent"}, <<{<<"parents">>}>>)
    BY DEF ParentsMutations
  <2>3. "createParent" \in DOMAIN ParentsMutations /\ "createParent" \in DOMAIN ParentsApi
    BY MutationNames, ApiNames1, ApiNames2
  <2>4. Change("createParent", ParentsApi["createParent"].writes, <<{<<"parents">>}>>)
    BY <1>0, <2>2, <2>3, OneSend
  <2> QED
    BY <2>1, <2>4
<1>2. Change("linkParentToChild", {"links"},
             <<{<<"parents">>}, {<<"child-parents", "id">>}, {<<"school-children">>}>>)
  <2>1. ParentsApi["linkParentToChild"].writes = {"links"}
    BY DEF ParentsApi, Send
  <2>2. ParentsMutations["linkParentToChild"] = Mutation({"linkParentToChild"},
                      <<{<<"parents">>}, {<<"child-parents", "id">>}, {<<"school-children">>}>>)
    BY DEF ParentsMutations
  <2>3. /\ "linkParentToChild" \in DOMAIN ParentsMutations
        /\ "linkParentToChild" \in DOMAIN ParentsApi
    BY MutationNames, ApiNames1, ApiNames2
  <2>4. Change("linkParentToChild", ParentsApi["linkParentToChild"].writes,
               <<{<<"parents">>}, {<<"child-parents", "id">>}, {<<"school-children">>}>>)
    BY <1>0, <2>2, <2>3, OneSend
  <2> QED
    BY <2>1, <2>4
<1> QED
  BY <1>1, <1>2

LEMMA ScheduleChanges ==
    /\ Change("updateSchedule", {"schedule"}, <<{<<"school-schedule", "id">>}>>)
<1>0. ScheduleMutations \in MutationTables /\ ScheduleApi \in ApiTables
  BY DEF MutationTables, ApiTables
<1>1. Change("updateSchedule", {"schedule"}, <<{<<"school-schedule", "id">>}>>)
  <2>1. ScheduleApi["updateSchoolSchedule"].writes = {"schedule"}
    BY DEF ScheduleApi, Send
  <2>2. ScheduleMutations["updateSchedule"] = Mutation({"updateSchoolSchedule"},
                                                       <<{<<"school-schedule", "id">>}>>)
    BY DEF ScheduleMutations
  <2>3. /\ "updateSchedule" \in DOMAIN ScheduleMutations
        /\ "updateSchoolSchedule" \in DOMAIN ScheduleApi
    BY MutationNames, ApiNames1, ApiNames2
  <2>4. Change("updateSchedule", ScheduleApi["updateSchoolSchedule"].writes,
               <<{<<"school-schedule", "id">>}>>)
    BY <1>0, <2>2, <2>3, OneSend
  <2> QED
    BY <2>1, <2>4
<1> QED
  BY <1>1

\* An update of a school is one of two calls, by the role.
LEMMA UpdateSchoolChange ==
    Change("updateSchool", {"school"}, <<{<<"schools-list">>}, {<<"school-detail", "id">>}>>)
<1>1. SchoolsMutations \in MutationTables /\ SchoolsApi \in ApiTables
  BY DEF MutationTables, ApiTables
<1>2. /\ "updateSchool" \in DOMAIN Mutations
      /\ Mutations["updateSchool"].calls = {"updateSchoolFromForm", "updateSchoolLimited"}
      /\ Mutations["updateSchool"].invalidates =
           <<{<<"schools-list">>}, {<<"school-detail", "id">>}>>
  BY <1>1, MutationOf, MutationNames DEF SchoolsMutations, Mutation
<1>3. \A c \in {"updateSchoolFromForm", "updateSchoolLimited"} : Api[c].writes = {"school"}
  BY <1>1, ApiOf, ApiNames2 DEF SchoolsApi, Send
<1> QED
  BY <1>2, <1>3 DEF Change, Writes

LEMMA BillingChanges ==
    \A m \in BillingWrites :
        Change(m, BillingApi[m].writes, invalidateAllBilling)
<1> SUFFICES ASSUME NEW m \in BillingWrites
             PROVE  Change(m, BillingApi[m].writes, invalidateAllBilling)
  OBVIOUS
<1>1. BillingMutations \in MutationTables /\ BillingApi \in ApiTables
  BY DEF MutationTables, ApiTables
<1>2. m \in DOMAIN BillingMutations /\ m \in DOMAIN BillingApi
  BY MutationNames, ApiNames1, ApiNames2 DEF BillingWrites
<1>3. BillingMutations[m] = Mutation({m}, invalidateAllBilling)
  BY DEF BillingMutations, BillingWrites
<1> QED
  BY <1>1, <1>2, <1>3, OneSend

LEMMA ClassroomsChanges ==
    /\ Change("createClassroom", {"classrooms"},
              <<{<<"school-classrooms", "id">>}, {<<"school-children", "id">>}>>)
    /\ Change("updateClassroom", {"classroom"},
              <<{<<"school-classrooms", "id">>}, {<<"school-children", "id">>}>>)
<1>1. ClassroomsMutations \in MutationTables /\ ClassroomsApi \in ApiTables
  BY DEF MutationTables, ApiTables
<1>2. \A m \in {"createClassroom", "updateClassroom"} : m \in DOMAIN ClassroomsMutations /\ m \in DOMAIN ClassroomsApi
  BY MutationNames, ApiNames1, ApiNames2
<1>3. \A m \in {"createClassroom", "updateClassroom"} :
        ClassroomsMutations[m] = Mutation({m}, <<{<<"school-classrooms", "id">>}, {<<"school-children", "id">>}>>)
  BY DEF ClassroomsMutations
<1>4. /\ ClassroomsApi["createClassroom"].writes = {"classrooms"}
      /\ ClassroomsApi["updateClassroom"].writes = {"classroom"}
  BY DEF ClassroomsApi, Send
<1>5. \A m \in {"createClassroom", "updateClassroom"} :
        Change(m, ClassroomsApi[m].writes, <<{<<"school-classrooms", "id">>}, {<<"school-children", "id">>}>>)
  BY <1>1, <1>2, <1>3, OneSend
<1> QED
  BY <1>4, <1>5

LEMMA ChildrenChanges ==
    /\ Change("createChild", {"children"},
              <<{<<"school-children", "id">>}, {<<"school-classrooms", "id">>}>>)
    /\ Change("updateChild", {"child"},
              <<{<<"school-children", "id">>}, {<<"school-classrooms", "id">>}>>)
<1>1. ChildrenMutations \in MutationTables /\ ChildrenApi \in ApiTables
  BY DEF MutationTables, ApiTables
<1>2. \A m \in {"createChild", "updateChild"} : m \in DOMAIN ChildrenMutations /\ m \in DOMAIN ChildrenApi
  BY MutationNames, ApiNames1, ApiNames2
<1>3. \A m \in {"createChild", "updateChild"} :
        ChildrenMutations[m] = Mutation({m}, <<{<<"school-children", "id">>}, {<<"school-classrooms", "id">>}>>)
  BY DEF ChildrenMutations
<1>4. /\ ChildrenApi["createChild"].writes = {"children"}
      /\ ChildrenApi["updateChild"].writes = {"child"}
  BY DEF ChildrenApi, Send
<1>5. \A m \in {"createChild", "updateChild"} :
        Change(m, ChildrenApi[m].writes, <<{<<"school-children", "id">>}, {<<"school-classrooms", "id">>}>>)
  BY <1>1, <1>2, <1>3, OneSend
<1> QED
  BY <1>4, <1>5

LEMMA ParentCodesChanges ==
    \A m \in {"generateParentInvitationCode", "revokeParentInvitationCode"} :
        Change(m, {"codes"}, <<{<<"parent-invitation-codes", "id">>}>>)
<1> SUFFICES ASSUME NEW m \in {"generateParentInvitationCode", "revokeParentInvitationCode"}
             PROVE  Change(m, {"codes"}, <<{<<"parent-invitation-codes", "id">>}>>)
  OBVIOUS
<1>1. ParentCodesMutations \in MutationTables /\ ParentCodesApi \in ApiTables
  BY DEF MutationTables, ApiTables
<1>2. m \in DOMAIN ParentCodesMutations /\ m \in DOMAIN ParentCodesApi
  BY MutationNames, ApiNames1, ApiNames2
<1>3. ParentCodesMutations[m] = Mutation({m}, <<{<<"parent-invitation-codes", "id">>}>>)
  BY DEF ParentCodesMutations
<1>4. ParentCodesApi[m].writes = {"codes"}
  BY DEF ParentCodesApi, Send
<1>5. Change(m, ParentCodesApi[m].writes, <<{<<"parent-invitation-codes", "id">>}>>)
  BY <1>1, <1>2, <1>3, OneSend
<1> QED
  BY <1>4, <1>5

LEMMA AlertsChanges ==
    /\ Change("acknowledgeAlert", {"alert"}, <<{<<"alerts">>}>>)
    /\ Change("resolveAlert", {"alert", "openAlerts"}, <<{<<"alerts">>}>>)
<1>1. AlertsMutations \in MutationTables /\ AlertsApi \in ApiTables
  BY DEF MutationTables, ApiTables
<1>2. \A m \in {"acknowledgeAlert", "resolveAlert"} :
        m \in DOMAIN AlertsMutations /\ m \in DOMAIN AlertsApi
  BY MutationNames, ApiNames1, ApiNames2
<1>3. \A m \in {"acknowledgeAlert", "resolveAlert"} :
        AlertsMutations[m] = Mutation({m}, <<{<<"alerts">>}>>)
  BY DEF AlertsMutations
<1>4. /\ AlertsApi["acknowledgeAlert"].writes = {"alert"}
      /\ AlertsApi["resolveAlert"].writes = {"alert", "openAlerts"}
  BY DEF AlertsApi, Send
<1>5. \A m \in {"acknowledgeAlert", "resolveAlert"} :
        Change(m, AlertsApi[m].writes, <<{<<"alerts">>}>>)
  BY <1>1, <1>2, <1>3, OneSend
<1> QED
  BY <1>4, <1>5

LEMMA UserEditsChanges ==
    \A m \in UserEdits :
        Change(m, UsersApi[m].writes, usersAndDetail)
<1> SUFFICES ASSUME NEW m \in UserEdits
             PROVE  Change(m, UsersApi[m].writes, usersAndDetail)
  OBVIOUS
<1>1. UsersMutations \in MutationTables /\ UsersApi \in ApiTables
  BY DEF MutationTables, ApiTables
<1>2. m \in DOMAIN UsersMutations /\ m \in DOMAIN UsersApi
  BY MutationNames, ApiNames1, ApiNames2, UsersMutationsAre DEF UserEdits
<1>3. UsersMutations[m] = Mutation({m}, usersAndDetail)
  BY UsersMutationsAre
<1> QED
  BY <1>1, <1>2, <1>3, OneSend

LEMMA NewUserChanges ==
    /\ Change("createUser", {"users", "admins"}, <<{<<"users">>}>>)
    /\ Change("resetUserPassword", {"password"}, <<{<<"user-detail", "id">>}>>)
<1>1. UsersMutations \in MutationTables /\ UsersApi \in ApiTables
  BY DEF MutationTables, ApiTables
<1>2. /\ {"createUser", "resetUserPassword"} \subseteq DOMAIN UsersMutations
      /\ {"createUser", "resetUserPassword"} \subseteq DOMAIN UsersApi
  BY UsersMutationsAre, ApiNames2
<1>3. /\ UsersApi["createUser"].writes = {"users", "admins"}
      /\ UsersApi["resetUserPassword"].writes = {"password"}
  BY DEF UsersApi, Send
<1>4. /\ Change("createUser", UsersApi["createUser"].writes, <<{<<"users">>}>>)
      /\ Change("resetUserPassword", UsersApi["resetUserPassword"].writes,
                <<{<<"user-detail", "id">>}>>)
  BY <1>1, <1>2, OneSend, UsersMutationsAre
<1> QED
  BY <1>3, <1>4

\* What the edits of a user and of the billing write.
LEMMA UserEditsWrite ==
    \A m \in UserEdits :
        UsersApi[m].writes = IF m = "assignUserSchools" THEN {"user", "admins"}
                             ELSE IF m = "forceUserPasswordChange" THEN {"password"}
                             ELSE {"user"}
<1>1. /\ UsersApi["assignUserSchools"].writes = {"user", "admins"}
      /\ UsersApi["forceUserPasswordChange"].writes = {"password"}
  BY DEF UsersApi, Send
<1>2. UsersApi["updateUser"].writes = {"user"} /\ UsersApi["updateUserStatus"].writes = {"user"}
  BY DEF UsersApi, Send
<1>3. UsersApi["updateUserRole"].writes = {"user"}
  BY DEF UsersApi, Send
<1> QED
  BY <1>1, <1>2, <1>3 DEF UserEdits

LEMMA BillingWritesBilling ==
    \A m \in BillingWrites :
        BillingApi[m].writes \subseteq {"subscriptions", "payments", "invoices"}
BY DEF BillingWrites, BillingApi, Send

-----------------------------------------------------------------------------
\* Of each m: whoever reads what it writes is left to age or invalidated.
Seen(m) ==
    \A what \in Writes(m) :
        /\ what \in DOMAIN Readers
        /\ \A q \in Readers[what] : <<m, q>> \in LeftToAge \/ Invalidates(m, q)

LEMMA Reached ==
    ASSUME NEW m, NEW writes, NEW k, NEW l, NEW q, NEW key, NEW reads, Entry(q, key, reads)
    PROVE  /\ Change(m, writes, <<{k}>>) /\ IsPrefix(k, key) => Invalidates(m, q)
           /\ /\ Change(m, writes, <<{k}, {l}>>)
              /\ IsPrefix(k, key) \/ IsPrefix(l, key)
              => Invalidates(m, q)
<1>1. CASE Change(m, writes, <<{k}>>) /\ IsPrefix(k, key)
  <2>1. Mutations[m].invalidates = <<{k}>> /\ 1 \in DOMAIN <<{k}>> /\ <<{k}>>[1] = {k}
    BY <1>1 DEF Change
  <2> QED
    BY <1>1, <2>1 DEF Invalidates, Matches, Entry
<1>2. CASE Change(m, writes, <<{k}, {l}>>) /\ (IsPrefix(k, key) \/ IsPrefix(l, key))
  <2>1. /\ Mutations[m].invalidates = <<{k}, {l}>> /\ {1, 2} \subseteq DOMAIN <<{k}, {l}>>
        /\ <<{k}, {l}>>[1] = {k} /\ <<{k}, {l}>>[2] = {l}
    BY <1>2 DEF Change
  <2> QED
    BY <1>2, <2>1 DEF Invalidates, Matches, Entry
<1> QED
  BY <1>1, <1>2

LEMMA SchoolsSeen ==
    /\ Seen("createSchool")
    /\ Seen("updateSchool")
    /\ Seen("assignSchoolAdmin")
    /\ Seen("setRevenueShare")
<1>1. Seen("createSchool")
  <2>1. Invalidates("createSchool", "schoolsList")
    BY SchoolsChanges, SchoolsEntries, Reached, KeyPrefixes
  <2>2. <<"createSchool", "schools">> \in LeftToAge
    BY SchoolsChanges, CamerasEntries DEF LeftToAge, Change, Entry
  <2> QED
    BY <2>1, <2>2, SchoolsChanges DEF Seen, Change, Readers
<1>2. Seen("updateSchool")
  <2>1. Invalidates("updateSchool", "schoolsList")
    BY UpdateSchoolChange, SchoolsEntries, Reached, KeyPrefixes
  <2>2. Invalidates("updateSchool", "schoolDetail")
    BY UpdateSchoolChange, SchoolsEntries, Reached, KeyPrefixes
  <2>3. \A q \in {"schoolStorage", "schools", "subscriptions", "payments",
                 "invoices", "parentDetail", "schedulerStatus"} :
        <<"updateSchool", q>> \in LeftToAge
    BY UpdateSchoolChange, BillingEntries, CamerasEntries, OtherEntries, PeopleEntries, SchoolsEntries DEF LeftToAge, Change, Entry
  <2> QED
    BY <2>1, <2>2, <2>3, UpdateSchoolChange DEF Seen, Change, Readers
<1>3. Seen("assignSchoolAdmin")
  <2>1. Invalidates("assignSchoolAdmin", "schoolAdmins")
    BY SchoolsChanges, SchoolsEntries, Reached, KeyPrefixes
  <2>2. \A q \in {"users", "userDetail"} :
        <<"assignSchoolAdmin", q>> \in LeftToAge
    BY SchoolsChanges, UsersEntries DEF LeftToAge, Change, Entry
  <2> QED
    BY <2>1, <2>2, SchoolsChanges DEF Seen, Change, Readers
<1>4. Seen("setRevenueShare")
  <2>1. Invalidates("setRevenueShare", "schoolRevenue")
    BY SchoolsChanges, SchoolsEntries, Reached, KeyPrefixes
  <2> QED
    BY <2>1, SchoolsChanges DEF Seen, Change, Readers
<1> QED
  BY <1>1, <1>2, <1>3, <1>4

LEMMA CamerasSeen == Seen("createCamera") /\ Seen("updateCamera")
<1>1. Seen("createCamera")
  <2>1. Invalidates("createCamera", "schoolCameras")
    <3>1. IsPrefix(<<"school-cameras">>, <<"school-cameras", "id", "status">>)
      BY KeyPrefixes
    <3> QED
      BY <3>1, CamerasChanges, SchoolCamerasEntry, Reached
  <2> QED
    BY <2>1, CamerasChanges DEF Seen, Change, Readers
<1>2. Seen("updateCamera")
  <2>1. Invalidates("updateCamera", "cameraDetail")
    BY CamerasChanges, CamerasEntries, Reached, KeyPrefixes
  <2>2. Invalidates("updateCamera", "schoolCameras")
    <3>1. IsPrefix(<<"school-cameras">>, <<"school-cameras", "id", "status">>)
      BY KeyPrefixes
    <3> QED
      BY <3>1, CamerasChanges, SchoolCamerasEntry, Reached
  <2>3. <<"updateCamera", "schedulerStatus">> \in LeftToAge
    BY CamerasChanges, OtherEntries DEF LeftToAge, Change, Entry
  <2> QED
    BY <2>1, <2>2, <2>3, CamerasChanges DEF Seen, Change, Readers
<1> QED
  BY <1>1, <1>2

LEMMA NewUserSeen == Seen("createUser") /\ Seen("resetUserPassword")
<1>1. Seen("createUser")
  <2>1. Invalidates("createUser", "users")
    BY NewUserChanges, UsersEntries, Reached, KeyPrefixes
  <2>2. <<"createUser", "schoolAdmins">> \in LeftToAge
    BY NewUserChanges, SchoolsEntries DEF LeftToAge, Change, Entry
  <2> QED
    BY <2>1, <2>2, NewUserChanges DEF Seen, Change, Readers
<1>2. Seen("resetUserPassword")
  <2>1. Invalidates("resetUserPassword", "userDetail")
    BY NewUserChanges, UsersEntries, Reached, KeyPrefixes
  <2>2. <<"resetUserPassword", "users">> \in LeftToAge
    BY NewUserChanges, UsersEntries DEF LeftToAge, Change, Entry
  <2> QED
    BY <2>1, <2>2, NewUserChanges DEF Seen, Change, Readers
<1> QED
  BY <1>1, <1>2

LEMMA ScheduleSeen == Seen("updateSchedule")
<1>1. Seen("updateSchedule")
  <2>1. Invalidates("updateSchedule", "schoolSchedule")
    BY ScheduleChanges, OtherEntries, Reached, KeyPrefixes
  <2> QED
    BY <2>1, ScheduleChanges DEF Seen, Change, Readers
<1> QED
  BY <1>1

LEMMA ParentsSeen == Seen("createParent") /\ Seen("linkParentToChild")
<1>1. Seen("createParent")
  <2>1. Invalidates("createParent", "parents")
    BY ParentsChanges, PeopleEntries, Reached, KeyPrefixes
  <2> QED
    BY <2>1, ParentsChanges DEF Seen, Change, Readers
<1>2. Seen("linkParentToChild")
  <2> DEFINE steps == Mutations["linkParentToChild"].invalidates
  <2>1. 2 \in DOMAIN steps /\ <<"child-parents", "id">> \in steps[2]
    BY ParentsChanges DEF Change
  <2>2. Invalidates("linkParentToChild", "childParents")
    <3>1. Queries["childParents"].key = <<"child-parents", "id">>
      BY PeopleEntries DEF Entry
    <3>2. IsPrefix(<<"child-parents", "id">>, Queries["childParents"].key)
      BY <3>1, KeyPrefixes
    <3> QED
      BY <2>1, <3>2 DEF Invalidates, Matches
  <2>3. <<"linkParentToChild", "parentDetail">> \in LeftToAge
    BY ParentsChanges, PeopleEntries DEF LeftToAge, Change, Entry
  <2> QED
    BY <2>2, <2>3, ParentsChanges DEF Seen, Change, Readers
<1> QED
  BY <1>1, <1>2

\* A change of the billing invalidates all its lists.
LEMMA BillingSeen == \A m \in BillingWrites : Seen(m)
<1> SUFFICES ASSUME NEW m \in BillingWrites
             PROVE  Seen(m)
  OBVIOUS
<1> DEFINE steps == Mutations[m].invalidates
<1>1. /\ 1 \in DOMAIN steps
      /\ steps[1] = {<<"subscriptions">>, <<"payments">>, <<"invoices">>}
  BY BillingChanges DEF Change, invalidateAllBilling
<1>2. \A q \in {"subscriptions", "payments", "invoices"} : Matches(steps[1], q)
  <2>1. /\ Queries["subscriptions"].key = <<"subscriptions", "filters">>
        /\ Queries["payments"].key = <<"payments", "filters">>
        /\ Queries["invoices"].key = <<"invoices", "filters">>
    BY BillingEntries DEF Entry
  <2>2. /\ IsPrefix(<<"subscriptions">>, Queries["subscriptions"].key)
        /\ IsPrefix(<<"payments">>, Queries["payments"].key)
        /\ IsPrefix(<<"invoices">>, Queries["invoices"].key)
    BY <2>1, KeyPrefixes
  <2> QED
    BY <1>1, <2>2 DEF Matches
<1>3. \A q \in {"subscriptions", "payments", "invoices"} : Invalidates(m, q)
  BY <1>1, <1>2 DEF Invalidates
<1>4. Writes(m) \subseteq {"subscriptions", "payments", "invoices"}
  BY BillingChanges, BillingWritesBilling DEF Change
<1> QED
  BY <1>3, <1>4 DEF Seen, Readers

LEMMA UserEditsSeen == \A m \in UserEdits : Seen(m)
<1> SUFFICES ASSUME NEW m \in UserEdits
             PROVE  Seen(m)
  OBVIOUS
<1>1. Invalidates(m, "users") /\ Invalidates(m, "userDetail")
  BY UserEditsChanges, UsersEntries, Reached, KeyPrefixes DEF usersAndDetail
<1>2. m # "forceUserPasswordChange" => <<m, "schoolAdmins">> \in LeftToAge
  BY UserEditsChanges, SchoolsEntries DEF LeftToAge, Change, Entry, UserEdits
<1>3. Writes(m) = IF m = "assignUserSchools" THEN {"user", "admins"}
                  ELSE IF m = "forceUserPasswordChange" THEN {"password"}
                  ELSE {"user"}
  BY UserEditsChanges, UserEditsWrite DEF Change
<1> QED
  BY <1>1, <1>2, <1>3 DEF Seen, Readers

LEMMA PeopleSeen ==
    /\ Seen("createClassroom")
    /\ Seen("updateClassroom")
    /\ Seen("createChild")
    /\ Seen("updateChild")
<1>1. Seen("createClassroom")
  <2>1. Invalidates("createClassroom", "schoolClassrooms")
    BY ClassroomsChanges, PeopleEntries, Reached, KeyPrefixes
  <2>2. <<"createClassroom", "classrooms">> \in LeftToAge
    BY ClassroomsChanges, CamerasEntries DEF LeftToAge, Change, Entry
  <2> QED
    BY <2>1, <2>2, ClassroomsChanges DEF Seen, Change, Readers
<1>2. Seen("updateClassroom")
  <2>1. Invalidates("updateClassroom", "schoolClassrooms")
    BY ClassroomsChanges, PeopleEntries, Reached, KeyPrefixes
  <2>2. \A q \in {"classrooms", "schedulerStatus"} :
        <<"updateClassroom", q>> \in LeftToAge
    BY ClassroomsChanges, CamerasEntries, OtherEntries DEF LeftToAge, Change, Entry
  <2> QED
    BY <2>1, <2>2, ClassroomsChanges DEF Seen, Change, Readers
<1>3. Seen("createChild")
  <2>1. Invalidates("createChild", "schoolChildren")
    BY ChildrenChanges, PeopleEntries, Reached, KeyPrefixes
  <2> QED
    BY <2>1, ChildrenChanges DEF Seen, Change, Readers
<1>4. Seen("updateChild")
  <2>1. Invalidates("updateChild", "schoolChildren")
    BY ChildrenChanges, PeopleEntries, Reached, KeyPrefixes
  <2>2. <<"updateChild", "parentDetail">> \in LeftToAge
    BY ChildrenChanges, PeopleEntries DEF LeftToAge, Change, Entry
  <2> QED
    BY <2>1, <2>2, ChildrenChanges DEF Seen, Change, Readers
<1> QED
  BY <1>1, <1>2, <1>3, <1>4

LEMMA CodesSeen ==
    \A m \in {"generateParentInvitationCode", "revokeParentInvitationCode"} : Seen(m)
<1> TAKE m \in {"generateParentInvitationCode", "revokeParentInvitationCode"}
<1>1. Invalidates(m, "parentCodes")
  BY ParentCodesChanges, PeopleEntries, Reached, KeyPrefixes
<1> QED
  BY <1>1, ParentCodesChanges DEF Seen, Change, Readers

LEMMA AlertsSeen == Seen("acknowledgeAlert") /\ Seen("resolveAlert")
<1>1. Seen("acknowledgeAlert")
  <2> QED
    BY AlertsChanges DEF Seen, Change, Readers
<1>2. Seen("resolveAlert")
  <2>1. <<"resolveAlert", "schoolCameras">> \in LeftToAge
    BY AlertsChanges, SchoolCamerasEntry DEF LeftToAge, Change, Entry
  <2> QED
    BY <2>1, AlertsChanges DEF Seen, Change, Readers
<1> QED
  BY <1>1, <1>2

LEMMA AllSeen == \A m \in DOMAIN Mutations : Seen(m)
<1> SUFFICES ASSUME NEW t \in MutationTables, NEW m \in DOMAIN t
             PROVE  Seen(m)
  BY DEF Mutations, Together
<1>1. CASE t \in {SchoolsMutations, CamerasMutations, ScheduleMutations}
  BY <1>1, MutationNames, SchoolsSeen, CamerasSeen, ScheduleSeen
<1>2. CASE t \in {BillingMutations, UsersMutations, AlertsMutations}
  BY <1>2, MutationNames, UsersMutationsAre, BillingSeen, NewUserSeen, UserEditsSeen, AlertsSeen
<1>3. CASE t \in {ClassroomsMutations, ChildrenMutations, ParentsMutations, ParentCodesMutations}
  BY <1>3, MutationNames, PeopleSeen, CodesSeen, ParentsSeen
<1> QED
  BY <1>1, <1>2, <1>3 DEF MutationTables

\* The invalidations of the tables are complete: a mutation invalidates every query
\* that reads what it writes, but for those that poll and those of LeftToAge.
THEOREM EveryReaderInvalidated ==
    \A m \in DOMAIN Mutations, q \in DOMAIN Queries :
        Concerns(m, q) /\ ~Queries[q].polled /\ <<m, q>> \notin LeftToAge => Invalidates(m, q)
<1> SUFFICES ASSUME NEW m \in DOMAIN Mutations, NEW q \in DOMAIN Queries, Concerns(m, q),
                    ~Queries[q].polled, <<m, q>> \notin LeftToAge
             PROVE  Invalidates(m, q)
  OBVIOUS
<1>1. PICK what : what \in Writes(m) /\ what \in Reads(q)
  BY DEF Concerns, Writes, Reads
<1> QED
  BY <1>1, AllSeen, OnlyReaders DEF Seen

\* What a mutation invalidates is a sequence.
LEMMA Steps ==
    ASSUME NEW m, NEW writes, NEW a, NEW b, NEW c,
           \/ Change(m, writes, <<a>>) \/ Change(m, writes, <<a, b>>)
           \/ Change(m, writes, <<a, b, c>>)
    PROVE  \E S : Mutations[m].invalidates \in Seq(S)
<1>1. <<a>> \in Seq({a}) /\ <<a, b>> \in Seq({a, b}) /\ <<a, b, c>> \in Seq({a, b, c})
  OBVIOUS
<1> QED
  BY <1>1 DEF Change

LEMMA StepsAreFinite == \A m \in DOMAIN Mutations : \E S : Mutations[m].invalidates \in Seq(S)
<1> SUFFICES ASSUME NEW t \in MutationTables, NEW m \in DOMAIN t
             PROVE  \E S : Mutations[m].invalidates \in Seq(S)
  BY DEF Mutations, Together
<1>1. CASE t = SchoolsMutations
  BY <1>1, MutationNames, SchoolsChanges, UpdateSchoolChange, Steps
<1>2. CASE t = CamerasMutations
  BY <1>2, MutationNames, CamerasChanges, Steps
<1>3. CASE t = ScheduleMutations
  BY <1>3, MutationNames, ScheduleChanges, Steps
<1>4. CASE t = BillingMutations
  BY <1>4, MutationNames, BillingChanges, Steps DEF invalidateAllBilling
<1>5. CASE t = UsersMutations
  BY <1>5, UsersMutationsAre, NewUserChanges, UserEditsChanges, Steps DEF usersAndDetail
<1>6. CASE t = AlertsMutations
  BY <1>6, MutationNames, AlertsChanges, Steps
<1>7. CASE t = ParentCodesMutations
  BY <1>7, MutationNames, ParentCodesChanges, Steps
<1>8. CASE t = ClassroomsMutations
  BY <1>8, MutationNames, ClassroomsChanges, Steps
<1>9. CASE t = ChildrenMutations
  BY <1>9, MutationNames, ChildrenChanges, Steps
<1>10. CASE t = ParentsMutations
  BY <1>10, MutationNames, ParentsChanges, Steps
<1> QED
  BY <1>1, <1>2, <1>3, <1>4, <1>5, <1>6, <1>7, <1>8, <1>9, <1>10 DEF MutationTables

-----------------------------------------------------------------------------
(* The entry of the cache and the mutation.                                *)

TheSteps == Mutations[pair.mutation].invalidates

\* The entry shows the last write, or will: it is marked, or its first fetch is under
\* way; and so is the answer the backend is about to give.
CatchingUp(entry, version) ==
    /\ entry.data # NoData => entry.data >= version \/ entry.invalid \/ entry.joined
    /\ entry.seen # NoData => entry.seen >= version \/ (entry.joined /\ entry.invalid)

\* onSuccess has passed an await that concerns the query.
Passed ==
    \/ write.pc = "settled"
    \/ write.pc = "settling" /\ \E i \in DOMAIN TheSteps : Touches(i) /\ i < write.step

DataInv ==
    /\ DataTypeOK
    /\ write.pc = "sent" => write.version < MaxWrites
    /\ db = IF Concerns(pair.mutation, pair.query) THEN write.version ELSE 0
    /\ ~cache.fetching => cache.seen = NoData
    /\ Concerns(pair.mutation, pair.query) /\ Invalidates(pair.mutation, pair.query) /\ Passed =>
         CatchingUp(cache, write.version)

Caught == CatchingUp(cache, write.version)

LEMMA DataInitInv == DataInit => DataInv
<1> SUFFICES ASSUME DataInit PROVE DataInv
  OBVIOUS
<1> USE DEF DataInit, Absent, NoData
<1>1. DataTypeOK
  BY DEF DataTypeOK
<1>2. ~Passed
  BY DEF Passed
<1> QED
  BY <1>1, <1>2 DEF DataInv

CacheEntry ==
    [data : NoData..MaxWrites, invalid : BOOLEAN, aged : BOOLEAN, fetching : BOOLEAN,
     seen : NoData..MaxWrites, mounted : BOOLEAN, joined : BOOLEAN]

\* A step of the cache alone.
LEMMA CacheInv ==
    ASSUME DataInv, UNCHANGED <<pair, db, write>>, cache' \in CacheEntry,
           ~cache'.fetching => cache'.seen = NoData,
           db = write.version /\ Caught => CatchingUp(cache', write.version)
    PROVE  DataInv'
<1>1. DataTypeOK'
  BY DEF DataInv, DataTypeOK, CacheEntry
<1>2. Passed' <=> Passed
  BY DEF Passed, TheSteps, Touches
<1> QED
  BY <1>1, <1>2 DEF DataInv, Caught, Concerns, Invalidates

\* A fetch under way, or its success, never takes back what an invalidation has
\* brought about.
LEMMA CacheSteps ==
    ASSUME DataInv,
           Mount \/ Unmount \/ Collected \/ Ages \/ Poll \/ Refocus \/ Fetch
    PROVE  DataInv'
<1>0. cache \in CacheEntry /\ (~cache.fetching => cache.seen = NoData) /\ db \in 0..MaxWrites
      /\ write.version \in Nat
  BY DEF DataInv, DataTypeOK, CacheEntry
<1> USE DEF CacheEntry, NoData, CatchingUp, Caught
<1>1. ASSUME NEW c \in CacheEntry PROVE Fetching(c) \in CacheEntry /\ Fetching(c).fetching
                 /\ (CatchingUp(c, write.version) => CatchingUp(Fetching(c), write.version))
  <2>1. NoData \in NoData..MaxWrites
    OBVIOUS
  <2>2. /\ Fetching(c) \in CacheEntry /\ Fetching(c).fetching /\ Fetching(c).data = c.data
        /\ Fetching(c).invalid = c.invalid /\ Fetching(c).joined = c.joined
        /\ Fetching(c).seen = NoData
    BY <2>1 DEF Fetching
  <2> QED
    BY <2>2
<1>2. CASE Mount
  <2>1. \/ cache' = [cache EXCEPT !.mounted = TRUE]
        \/ cache' = [Fetching(cache) EXCEPT !.mounted = TRUE]
    BY <1>2 DEF Mount
  <2>2. CASE cache' = [cache EXCEPT !.mounted = TRUE]
    BY <1>0, <1>2, <2>2, CacheInv DEF Mount
  <2>3. CASE cache' = [Fetching(cache) EXCEPT !.mounted = TRUE]
    BY <1>0, <1>1, <1>2, <2>3, CacheInv DEF Mount
  <2> QED
    BY <2>1, <2>2, <2>3
<1>3. CASE Unmount
  BY <1>0, <1>3, CacheInv DEF Unmount
<1>4. CASE Collected
  BY <1>0, <1>4, CacheInv DEF Collected, Absent
<1>5. CASE Ages
  BY <1>0, <1>5, CacheInv DEF Ages
<1>6. CASE Poll
  BY <1>0, <1>1, <1>6, CacheInv DEF Poll
<1>7. CASE Refocus
  BY <1>0, <1>1, <1>7, CacheInv DEF Refocus
<1>8. CASE BackendReads
  BY <1>0, <1>8, CacheInv DEF BackendReads
<1>9. CASE FetchSucceeds
  <2>1. /\ cache'.data = cache.seen /\ cache'.seen = NoData /\ cache'.invalid = FALSE
        /\ (cache'.joined <=> cache.joined /\ cache.invalid) /\ cache.seen # NoData
    BY <1>0, <1>9 DEF FetchSucceeds
  <2>4. cache' \in CacheEntry
    <3>1. (cache.joined /\ cache.invalid) \in BOOLEAN /\ NoData \in NoData..MaxWrites
      BY <1>0
    <3> QED
      BY <1>0, <1>9, <3>1 DEF FetchSucceeds
  <2>2. CatchingUp(cache, write.version) => CatchingUp(cache', write.version)
    BY <2>1
  <2>3. UNCHANGED <<pair, db, write>>
    BY <1>9 DEF FetchSucceeds
  <2> QED
    BY <2>1, <2>2, <2>3, <2>4, CacheInv
<1>10. CASE FetchFails
  <2>1. /\ cache'.data = cache.data /\ cache'.seen = NoData /\ cache'.invalid = cache.invalid
        /\ (cache'.joined <=> cache.joined /\ ~cache.invalid)
    BY <1>0, <1>10 DEF FetchFails
  <2>4. cache' \in CacheEntry
    <3>1. (cache.joined /\ ~cache.invalid) \in BOOLEAN /\ NoData \in NoData..MaxWrites
      BY <1>0
    <3> QED
      BY <1>0, <1>10, <3>1 DEF FetchFails
  <2>2. CatchingUp(cache, write.version) => CatchingUp(cache', write.version)
    BY <2>1
  <2>3. UNCHANGED <<pair, db, write>>
    BY <1>10 DEF FetchFails
  <2> QED
    BY <2>1, <2>2, <2>3, <2>4, CacheInv
<1> QED
  BY <1>2, <1>3, <1>4, <1>5, <1>6, <1>7, <1>8, <1>9, <1>10 DEF Fetch

\* Whatever the entry was, it is catching up once it is invalidated.
LEMMA InvalidatedCatchesUp ==
    ASSUME DataInv
    PROVE  /\ invalidateQueries \in CacheEntry
           /\ ~invalidateQueries.fetching => invalidateQueries.seen = NoData
           /\ CatchingUp(invalidateQueries, write.version)
<1>0. cache \in CacheEntry /\ (~cache.fetching => cache.seen = NoData)
  BY DEF DataInv, DataTypeOK, CacheEntry
<1> DEFINE marked == [cache EXCEPT !.invalid = TRUE, !.joined = FALSE]
<1>1. /\ marked \in CacheEntry /\ marked.invalid
      /\ marked.fetching = cache.fetching /\ marked.seen = cache.seen
  BY <1>0 DEF CacheEntry
<1>2. CASE cache = Absent
  BY <1>0, <1>2 DEF invalidateQueries, Absent, CatchingUp
<1>3. CASE cache # Absent /\ cache.fetching /\ (cache.data = NoData \/ ~cache.mounted)
  <2>1. invalidateQueries = [marked EXCEPT !.joined = TRUE]
    BY <1>3 DEF invalidateQueries
  <2> HIDE DEF marked
  <2> QED
    BY <1>1, <1>3, <2>1 DEF CatchingUp, CacheEntry
<1>4. CASE /\ cache # Absent /\ cache.mounted
           /\ ~(cache.fetching /\ (cache.data = NoData \/ ~cache.mounted))
  <2>1. invalidateQueries = Fetching(marked)
    BY <1>4 DEF invalidateQueries
  <2> HIDE DEF marked
  <2> QED
    <3>1. NoData \in NoData..MaxWrites
      BY DEF NoData
    <3>2. /\ invalidateQueries \in CacheEntry /\ invalidateQueries.fetching
          /\ invalidateQueries.invalid /\ invalidateQueries.seen = NoData
      BY <1>1, <2>1, <3>1 DEF CacheEntry, Fetching
    <3> QED
      BY <3>2 DEF CatchingUp
<1>5. CASE cache # Absent /\ ~cache.fetching /\ ~cache.mounted
  <2>1. invalidateQueries = marked
    BY <1>5 DEF invalidateQueries
  <2> HIDE DEF marked
  <2> QED
    BY <1>0, <1>1, <1>5, <2>1 DEF CatchingUp, CacheEntry
<1> QED
  BY <1>2, <1>3, <1>4, <1>5

\* A mutation that is sent again has not passed anything yet.
LEMMA WriteSteps ==
    ASSUME DataInv, Submit \/ BackendWrites \/ WriteFails \/ WriteAnswered
    PROVE  DataInv'
<1>0. /\ pair' = pair /\ cache' = cache
      /\ write \in [pc : {"idle", "sent", "written", "settling", "settled"}, step : Nat,
                    version : 0..MaxWrites]
      /\ db \in 0..MaxWrites
  BY DEF DataInv, DataTypeOK, Submit, BackendWrites, WriteFails, WriteAnswered
<1>1. ASSUME write' \in [pc : {"idle", "sent", "written", "settling", "settled"}, step : Nat,
                         version : 0..MaxWrites],
             write'.pc = "sent" => write'.version < MaxWrites,
             db' = IF Concerns(pair.mutation, pair.query) THEN write'.version ELSE 0,
             ~Passed'
      PROVE  DataInv'
  <2>1. DataTypeOK'
    BY <1>0, <1>1 DEF DataInv, DataTypeOK
  <2> QED
    BY <1>0, <1>1, <2>1 DEF DataInv, Concerns
<1>2. CASE Submit
  BY <1>0, <1>1, <1>2 DEF Submit, Passed, DataInv
<1>3. CASE BackendWrites
  <2>1. write'.version = write.version + 1 /\ write'.pc = "written" /\ write'.step = write.step
    BY <1>0, <1>3 DEF BackendWrites
  <2>2. write.version < MaxWrites /\ write.version \in Nat
    BY <1>0, <1>3 DEF BackendWrites, DataInv
  <2>3. write' \in [pc : {"idle", "sent", "written", "settling", "settled"}, step : Nat,
                    version : 0..MaxWrites]
    <3>1. write.version + 1 \in 0..MaxWrites
      BY <2>2
    <3>2. write' = [write EXCEPT !.pc = "written", !.version = @ + 1]
      BY <1>3 DEF BackendWrites
    <3> QED
      BY <1>0, <3>1, <3>2
  <2>4. db' = IF Concerns(pair.mutation, pair.query) THEN write'.version ELSE 0
    BY <1>3, <2>1 DEF BackendWrites, DataInv
  <2> QED
    BY <1>1, <2>1, <2>3, <2>4 DEF Passed
<1>4. CASE WriteFails
  BY <1>0, <1>1, <1>4 DEF WriteFails, Passed, DataInv
<1>5. CASE WriteAnswered
  <2>1. ~Passed'
    <3>1. write'.pc = "settling" /\ write'.step = 1
      BY <1>0, <1>5 DEF WriteAnswered
    <3>2. PICK S : TheSteps \in Seq(S)
      BY StepsAreFinite DEF DataInv, DataTypeOK, TheSteps
    <3>3. DOMAIN TheSteps' \subseteq Nat \ {0}
      BY <1>0, <3>2 DEF TheSteps
    <3> QED
      BY <3>1, <3>3 DEF Passed
  <2> QED
    BY <1>0, <1>1, <1>5, <2>1 DEF WriteAnswered, DataInv
<1> QED
  BY <1>2, <1>3, <1>4, <1>5

\* The step that settles has passed every await.
LEMMA InvalidateStep == DataInv /\ Invalidate => DataInv'
<1> SUFFICES ASSUME DataInv, Invalidate PROVE DataInv'
  OBVIOUS
<1>0. /\ pair' = pair /\ db' = db /\ write.pc = "settling" /\ cache \in CacheEntry
      /\ write \in [pc : {"idle", "sent", "written", "settling", "settled"}, step : Nat,
                    version : 0..MaxWrites]
      /\ cache' = IF Touches(write.step) THEN invalidateQueries ELSE cache
      /\ (~cache.fetching => cache.seen = NoData)
  BY DEF DataInv, DataTypeOK, Invalidate, CacheEntry
<1>1. PICK S : TheSteps \in Seq(S)
  BY StepsAreFinite DEF DataInv, DataTypeOK, TheSteps
<1>2. /\ cache' \in CacheEntry /\ (~cache'.fetching => cache'.seen = NoData)
      /\ Touches(write.step) => CatchingUp(cache', write.version)
  BY <1>0, InvalidatedCatchesUp
<1>3. /\ write' \in [pc : {"idle", "sent", "written", "settling", "settled"}, step : Nat,
                    version : 0..MaxWrites]
      /\ write'.version = write.version /\ write'.pc \in {"settling", "settled"}
      /\ write'.pc = "settling" => write'.step = write.step + 1
      /\ write'.pc = "settled" => write.step > Len(TheSteps)
  <2>1. write' = IF write.step > Len(TheSteps) THEN [write EXCEPT !.pc = "settled", !.step = 0]
                 ELSE [write EXCEPT !.step = @ + 1]
    BY DEF Invalidate, TheSteps
  <2>2. CASE write.step > Len(TheSteps)
    BY <1>0, <2>1, <2>2
  <2>3. CASE ~(write.step > Len(TheSteps))
    <3>1. write' = [write EXCEPT !.step = @ + 1]
      BY <2>1, <2>3
    <3> QED
      BY <1>0, <3>1
  <2> QED
    BY <2>2, <2>3
<1>4. DataTypeOK'
  BY <1>0, <1>2, <1>3 DEF DataInv, DataTypeOK, CacheEntry
<1>5. ASSUME Concerns(pair.mutation, pair.query), Invalidates(pair.mutation, pair.query), Passed'
      PROVE  CatchingUp(cache', write.version)
  <2>1. PICK i \in DOMAIN TheSteps : Touches(i) /\ (i < write.step \/ i = write.step)
    <3>1. CASE write'.pc = "settled"
      <4>1. PICK i \in DOMAIN TheSteps : Touches(i)
        BY <1>5 DEF Invalidates, Touches, TheSteps
      <4>2. i \in Nat /\ i <= Len(TheSteps) /\ write.step \in Nat /\ write.step > Len(TheSteps)
            /\ Len(TheSteps) \in Nat
        BY <1>0, <1>1, <1>3, <3>1, <4>1
      <4>3. i < write.step
        BY <4>2
      <4> QED
        BY <4>1, <4>3
    <3>2. CASE write'.pc = "settling"
      <4>1. PICK i \in DOMAIN TheSteps : Touches(i) /\ i < write.step + 1
        BY <1>0, <1>3, <1>5, <3>2 DEF Passed, TheSteps, Touches
      <4>2. i \in Nat /\ write.step \in Nat
        BY <1>0, <1>1, <4>1
      <4> QED
        BY <4>1, <4>2
    <3> QED
      BY <1>3, <3>1, <3>2
  <2>2. CASE Touches(write.step)
    BY <1>2, <2>2
  <2>3. CASE ~Touches(write.step)
    <3>1. Passed
      BY <1>0, <2>1, <2>3 DEF Passed
    <3> QED
      BY <1>0, <1>5, <2>3, <3>1 DEF DataInv
  <2> QED
    BY <2>2, <2>3
<1> QED
  BY <1>0, <1>2, <1>3, <1>4, <1>5 DEF DataInv, Concerns, Invalidates

LEMMA DataInvariant == DataSpec => []DataInv
<1>1. DataInv /\ [DataNext]_dataVars => DataInv'
  <2> SUFFICES ASSUME DataInv, [DataNext]_dataVars PROVE DataInv'
    OBVIOUS
  <2>1. CASE UNCHANGED dataVars
    <3>1. cache' \in CacheEntry
      BY <2>1 DEF dataVars, DataInv, DataTypeOK, CacheEntry
    <3> QED
      BY <2>1, <3>1, CacheInv DEF dataVars, DataInv, Caught
  <2> QED
    BY <2>1, CacheSteps, WriteSteps, InvalidateStep DEF DataNext
<1> QED
  BY <1>1, DataInitInv, PTL DEF DataSpec

-----------------------------------------------------------------------------
\* The cache's entry, the writes and the mutation's progress stay in their sets
\* for every pair of the tables and any number of writes.
THEOREM DataTypeCorrect == DataSpec => []DataTypeOK
<1>1. DataInv => DataTypeOK
  BY DEF DataInv
<1> QED
  BY <1>1, DataInvariant, PTL

\* Whichever mutation of lib/admin/use-*-queries.ts has settled, however many
\* times it was made and whatever fetches, failures and unmounts came in between:
\* a query of the data it changed that is neither polled nor left to age shows the
\* change, is marked stale, or had a fetch go on that was under way.
THEOREM OwnWriteIsSeen == DataSpec => []OwnWriteSeen
<1>1. DataInv => OwnWriteSeen
  <2>1. DataTypeOK => pair.mutation \in DOMAIN Mutations /\ pair.query \in DOMAIN Queries
    BY DEF DataTypeOK
  <2> QED
    BY <2>1, EveryReaderInvalidated DEF DataInv, OwnWriteSeen, Passed, CatchingUp
<1> QED
  BY <1>1, DataInvariant, PTL
=============================================================================
