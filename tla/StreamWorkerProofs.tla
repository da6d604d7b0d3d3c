-------------------------- MODULE StreamWorkerProofs --------------------------
(***************************************************************************)
(* Proofs about StreamWorker for every number of cameras, qualities,       *)
(* configurations and streams.  TypeOK and TrackedIsLive are together      *)
(* inductive: the map may only lose a job, or gain one that is new.        *)
(***************************************************************************)
EXTENDS StreamWorker, TLAPS

\* The records a step writes are well typed.
LEMMA NewStreamType ==
    ASSUME NEW c \in Cameras, NEW k \in Configs
    PROVE  NewStream(c, k) \in JobRecord
BY StreamAssumption DEF NewStream, JobRecord

LEMMA VacantType == Vacant \in JobRecord /\ Vacant.pc = "free"
<1>1. /\ (CHOOSE c \in Cameras : TRUE) \in Cameras
      /\ (CHOOSE k \in Configs : TRUE) \in Configs
  BY StreamAssumption
<1>2. NewStream(CHOOSE c \in Cameras : TRUE, CHOOSE k \in Configs : TRUE)
        \in JobRecord
  BY <1>1, NewStreamType
<1> QED
  BY <1>2 DEF Vacant, JobRecord

LEMMA IdleType == Idle \in CoordRecord /\ Idle.todo = {} /\ Idle.pc = "idle"
BY DEF Idle, CoordRecord

\* An UPDATE of a status keeps the rows and the budget well typed.
LEMMA SetCameraStatusType ==
    ASSUME TypeOK, NEW c \in Cameras, NEW s \in Statuses, SetCameraStatus(c, s)
    PROVE  camera' \in [Cameras -> CameraRow] /\ budget' \in BudgetRecord
<1>1. CASE camera' = [camera EXCEPT ![c].status = s] /\ UNCHANGED budget
  BY <1>1 DEF TypeOK, CameraRow
<1>2. CASE /\ budget.faults < MaxFaults
           /\ budget' = [budget EXCEPT !.faults = @ + 1] /\ UNCHANGED camera
  BY <1>2, StreamAssumption DEF TypeOK, BudgetRecord
<1> QED
  BY <1>1, <1>2 DEF SetCameraStatus

\* A record of a stream stays one when one of its fields is assigned.
LEMMA JobFieldTypes ==
    ASSUME NEW r \in JobRecord
    PROVE  /\ [r EXCEPT !.stop = "asked"] \in JobRecord
           /\ [r EXCEPT !.marked = TRUE] \in JobRecord
           /\ [r EXCEPT !.watching = FALSE] \in JobRecord
           /\ [r EXCEPT !.online = FALSE] \in JobRecord
           /\ [r EXCEPT !.last = "stale"] \in JobRecord
           /\ [r EXCEPT !.stop = "stopped"] \in JobRecord
           /\ \A pc \in {"loop", "exiting", "done"} :
                [r EXCEPT !.pc = pc] \in JobRecord
BY DEF JobRecord

LEMMA InitType == Init => TypeOK
<1> SUFFICES ASSUME Init PROVE TypeOK
  OBVIOUS
<1> USE StreamAssumption
<1>1. camera \in [Cameras -> CameraRow]
  BY DEF Init, CameraRow, Statuses
<1>2. job \in [Jobs -> JobRecord]
  BY VacantType DEF Init
<1>3. jobs \in [Cameras -> Jobs \cup {NoJob}] /\ scratch \in [Cameras -> SUBSET Qualities]
  BY DEF Init
<1>4. /\ coord \in CoordRecord /\ coord.pc = "idle"
      /\ budget \in BudgetRecord
  BY IdleType DEF Init, BudgetRecord
<1> QED
  BY <1>1, <1>2, <1>3, <1>4 DEF TypeOK

LEMMA CoordinatorType == TypeOK /\ Coordinator => TypeOK'
<1> SUFFICES ASSUME TypeOK, Coordinator PROVE TypeOK'
  OBVIOUS
<1> USE StreamAssumption
<1>1. CASE ListCameras
  BY <1>1 DEF ListCameras, TypeOK, CoordRecord, CameraRow, Listed
<1>a. {jobs[c] : c \in Cameras} \ {NoJob} \in SUBSET Jobs
  BY DEF TypeOK
<1>2. CASE ListCamerasFails
  BY <1>2, <1>a DEF ListCamerasFails, TypeOK, CoordRecord
<1>3. CASE SweepJobs
  <2>1. job' \in [Jobs -> JobRecord]
    <3>1. \A j \in Jobs : [job[j] EXCEPT !.stop = "asked"] \in JobRecord
      BY JobFieldTypes DEF TypeOK
    <3> QED
      BY <1>3, <3>1 DEF SweepJobs, TypeOK
  <2>2. coord' \in CoordRecord
    BY <1>3 DEF SweepJobs, TypeOK, CoordRecord
  <2> QED
    BY <1>3, <2>1, <2>2 DEF SweepJobs, TypeOK
<1>4. CASE SnapshotJobs
  BY <1>4, <1>a, IdleType DEF SnapshotJobs, TypeOK, CoordRecord
<1>5. ASSUME NEW c \in Cameras, NEW j \in Jobs, StartCameraStream(c, j)
      PROVE  TypeOK'
  <2>1. coord.listed[c] \in Configs
    BY <1>5 DEF StartCameraStream, TypeOK, CoordRecord
  <2>2. NewStream(c, coord.listed[c]) \in JobRecord
    BY <2>1, NewStreamType
  <2>3. coord.listed[c].quality \in Qualities
    BY <2>1
  <2> QED
    BY <1>5, <2>2, <2>3 DEF StartCameraStream, TypeOK, CoordRecord
<1>6. ASSUME NEW c \in Cameras, SkipCamera(c) PROVE TypeOK'
  BY <1>6 DEF SkipCamera, TypeOK, CoordRecord
<1>7. ASSUME NEW j \in Jobs, ReadLastUpload(j) PROVE TypeOK'
  BY <1>7 DEF ReadLastUpload, TypeOK, CoordRecord
<1>8. CASE MarkOffline
  <2>1. \A j \in Jobs : [job[j] EXCEPT !.marked = TRUE] \in JobRecord
    BY JobFieldTypes DEF TypeOK
  <2>2. job' \in [Jobs -> JobRecord]
    BY <1>8, <2>1 DEF MarkOffline, TypeOK, CoordRecord
  <2>3. coord \in CoordRecord /\ coord.pc = "mark" /\ coord.target # NoJob
    BY <1>8 DEF MarkOffline, TypeOK
  <2>4. \/ coord' = [coord EXCEPT !.pc = "check", !.target = NoJob]
        \/ coord' = [coord EXCEPT !.pc = "write"]
    BY <1>8 DEF MarkOffline
  <2>5. /\ coord' \in CoordRecord /\ coord'.pc # "start"
        /\ coord'.pc \in {"mark", "write"} => coord'.target # NoJob
    BY <2>3, <2>4 DEF CoordRecord
  <2> QED
    BY <1>8, <2>2, <2>5 DEF MarkOffline, TypeOK
<1>9. CASE MarkOfflineWrite
  <2>1. job[coord.target].camera \in Cameras
    BY <1>9 DEF MarkOfflineWrite, TypeOK, CoordRecord, JobRecord
  <2>2. camera' \in [Cameras -> CameraRow] /\ budget' \in BudgetRecord
    BY <1>9, <2>1, SetCameraStatusType DEF MarkOfflineWrite, Statuses
  <2> QED
    BY <1>9, <2>2 DEF MarkOfflineWrite, TypeOK, CoordRecord
<1>10. CASE EndPoll
  BY <1>10, IdleType DEF EndPoll, TypeOK
<1> QED
  BY <1>1, <1>2, <1>3, <1>4, <1>5, <1>6, <1>7, <1>8, <1>9, <1>10
     DEF Coordinator

LEMMA SupervisorType == \A j \in Jobs : TypeOK /\ Supervisor(j) => TypeOK'
<1> SUFFICES ASSUME TypeOK, NEW j \in Jobs, Supervisor(j) PROVE TypeOK'
  OBVIOUS
<1> USE StreamAssumption
<1>a. job[j] \in JobRecord /\ job[j].camera \in Cameras
  BY DEF TypeOK, JobRecord
<1>b. Quality(j) \in Qualities
  BY <1>a DEF Quality, JobRecord
<1>1. CASE LoopCancelled(j)
  BY <1>1, <1>a, JobFieldTypes DEF LoopCancelled, TypeOK
<1>2. CASE MaxRestartsReached(j)
  <2>1. camera' \in [Cameras -> CameraRow] /\ budget' \in BudgetRecord
    BY <1>2, <1>a, SetCameraStatusType DEF MaxRestartsReached, Statuses
  <2> QED
    BY <1>2, <1>a, <2>1, JobFieldTypes DEF MaxRestartsReached, TypeOK
<1>3. CASE RunFFmpeg(j)
  <2>1. [job[j] EXCEPT !.pc = "ffmpeg"] \in JobRecord
    BY <1>3, <1>a DEF RunFFmpeg, JobRecord
  <2> QED
    BY <1>3, <1>a, <1>b, <2>1 DEF RunFFmpeg, TypeOK
<1>4. CASE FFmpegKilled(j)
  <2>1. PICK pc \in {"exiting", "done"} : job' = [job EXCEPT ![j].pc = pc]
    BY <1>4 DEF FFmpegKilled
  <2> QED
    BY <1>4, <1>a, <2>1, JobFieldTypes DEF FFmpegKilled, TypeOK
<1>5. CASE BackoffEnds(j)
  <2>1. PICK pc \in {"loop", "exiting"} : job' = [job EXCEPT ![j].pc = pc]
    BY <1>5 DEF BackoffEnds
  <2> QED
    BY <1>5, <1>a, <2>1, JobFieldTypes DEF BackoffEnds, TypeOK
<1>6. CASE RemoveJob(j)
  BY <1>6, <1>a, JobFieldTypes DEF RemoveJob, TypeOK
<1> QED
  BY <1>1, <1>2, <1>3, <1>4, <1>5, <1>6 DEF Supervisor

\* An upload, of what an FFmpeg writes or of what one has left behind.
LEMMA UploadType == \A j \in Jobs : TypeOK /\ OnSegmentSuccess(j) => TypeOK'
<1> SUFFICES ASSUME TypeOK, NEW j \in Jobs, OnSegmentSuccess(j) PROVE TypeOK'
  OBVIOUS
<1>a. job[j] \in JobRecord
  BY DEF TypeOK
<1>1. [job[j] EXCEPT !.last = "fresh", !.marked = FALSE,
                     !.online = job[j].marked] \in JobRecord
  BY <1>a DEF JobRecord
<1> QED
  BY <1>1 DEF OnSegmentSuccess, TypeOK

LEMMA WatcherType == \A j \in Jobs : TypeOK /\ Watcher(j) => TypeOK'
<1> SUFFICES ASSUME TypeOK, NEW j \in Jobs, Watcher(j) PROVE TypeOK'
  OBVIOUS
<1> USE StreamAssumption
<1>a. job[j] \in JobRecord /\ job[j].camera \in Cameras
  BY DEF TypeOK, JobRecord
<1>1. CASE OnSegmentSuccess(j)
  BY <1>1, UploadType
<1>2. CASE OnlineWrite(j)
  <2>1. camera' \in [Cameras -> CameraRow] /\ budget' \in BudgetRecord
    BY <1>2, <1>a, SetCameraStatusType DEF OnlineWrite, Statuses
  <2> QED
    BY <1>2, <1>a, <2>1, JobFieldTypes DEF OnlineWrite, TypeOK
<1>3. CASE WatchStops(j)
  BY <1>3, <1>a, JobFieldTypes DEF WatchStops, TypeOK
<1> QED
  BY <1>1, <1>2, <1>3 DEF Watcher

LEMMA StopperType == \A j \in Jobs : TypeOK /\ Stopper(j) => TypeOK'
<1> SUFFICES ASSUME TypeOK, NEW j \in Jobs, Stopper(j) PROVE TypeOK'
  OBVIOUS
<1>a. job[j] \in JobRecord /\ job[j].camera \in Cameras
  BY DEF TypeOK, JobRecord
<1>1. CASE StopCancel(j)
  <2>1. PICK stop \in {"waiting", "stopped"} :
          job' = [job EXCEPT ![j] = [job[j] EXCEPT !.stop = stop, !.cancelled = TRUE]]
    BY <1>1 DEF StopCancel
  <2>2. [job[j] EXCEPT !.stop = stop, !.cancelled = TRUE] \in JobRecord
    BY <1>a DEF JobRecord
  <2> QED
    BY <1>1, <2>1, <2>2 DEF StopCancel, TypeOK
<1>2. CASE StopRemovesDir(j)
  BY <1>2, <1>a, JobFieldTypes DEF StopRemovesDir, TypeOK
<1> QED
  BY <1>1, <1>2 DEF Stopper

LEMMA ChangeRowType ==
    ASSUME TypeOK, NEW c \in Cameras, NEW row \in CameraRow, ChangeRow(c, row)
    PROVE  TypeOK'
BY StreamAssumption DEF ChangeRow, TypeOK, BudgetRecord

LEMMA EnvironmentType == TypeOK /\ Environment => TypeOK'
<1> SUFFICES ASSUME TypeOK, Environment PROVE TypeOK'
  OBVIOUS
<1> USE StreamAssumption
<1>1. ASSUME NEW j \in Jobs, FFmpegExits(j) PROVE TypeOK'
  <2>1. job[j] \in JobRecord
    BY DEF TypeOK
  <2>2. job[j].restarts + 1 \in 0..MaxRestarts
    <3>1. job[j].restarts \in 0..MaxRestarts /\ job[j].restarts < MaxRestarts
      BY <1>1, <2>1 DEF FFmpegExits, JobRecord
    <3> QED
      BY <3>1
  <2>3. [job[j] EXCEPT !.pc = "backoff",
                       !.restarts = job[j].restarts + 1] \in JobRecord
    BY <2>1, <2>2 DEF JobRecord
  <2> QED
    BY <1>1, <2>3 DEF FFmpegExits, TypeOK, BudgetRecord
<1>2. ASSUME NEW j \in Jobs, UploadGrowsStale(j) PROVE TypeOK'
  BY <1>2, JobFieldTypes DEF UploadGrowsStale, TypeOK
<1>3. ASSUME NEW c \in Cameras, PatchCamera(c) PROVE TypeOK'
  <2>1. camera[c] \in CameraRow
    BY DEF TypeOK
  <2>2. \A s \in Statuses, k \in Configs :
          [camera[c] EXCEPT !.status = s, !.config = k] \in CameraRow
    BY <2>1 DEF CameraRow
  <2> QED
    BY <1>3, <2>2, ChangeRowType DEF PatchCamera
<1>4. ASSUME NEW c \in Cameras, ScheduleCamera(c) PROVE TypeOK'
  <2>1. [camera[c] EXCEPT !.running = ~@] \in CameraRow
    BY DEF TypeOK, CameraRow
  <2> QED
    BY <1>4, <2>1, ChangeRowType DEF ScheduleCamera
<1>5. CASE Crash
  BY <1>5, VacantType, IdleType DEF Crash, TypeOK, BudgetRecord
<1> QED
  BY <1>1, <1>2, <1>3, <1>4, <1>5, UploadType DEF Environment, UploadsLeftOver

LEMMA NextType == TypeOK /\ [Next]_vars => TypeOK'
<1>1. TypeOK /\ UNCHANGED vars => TypeOK'
  BY DEF TypeOK, vars
<1> QED
  BY <1>1, CoordinatorType, SupervisorType, WatcherType, StopperType,
     EnvironmentType DEF Next

\* Type correctness for every instance.
THEOREM TypeCorrect == Spec => []TypeOK
BY InitType, NextType, PTL DEF Spec

-----------------------------------------------------------------------------
(* The job map holds live jobs. *)

LEMMA CoordinatorTracked ==
    TypeOK /\ TrackedIsLive /\ Coordinator => TrackedIsLive'
<1> SUFFICES ASSUME TypeOK, TrackedIsLive, Coordinator
             PROVE  TrackedIsLive'
  OBVIOUS
<1>1. CASE UNCHANGED <<job, jobs>>
  BY <1>1 DEF TrackedIsLive
<1>2. CASE SweepJobs
  <2> SUFFICES ASSUME NEW c \in Cameras, jobs'[c] # NoJob
               PROVE  /\ job'[jobs'[c]].camera = c
                      /\ job'[jobs'[c]].pc \notin {"free", "done"}
                      /\ ~job'[jobs'[c]].cancelled
                      /\ job'[jobs'[c]].stop = "no"
                      /\ job'[jobs'[c]].pc = "exiting" =>
                           job'[jobs'[c]].restarts = MaxRestarts
    BY DEF TrackedIsLive
  <2>1. jobs'[c] = jobs[c] /\ ~Outdated(c) /\ jobs[c] \in Jobs
    BY <1>2, StreamAssumption DEF SweepJobs, TypeOK
  <2>2. \A d \in Cameras : jobs[d] = jobs[c] => d = c
    BY <2>1, StreamAssumption DEF TrackedIsLive
  <2>3. job'[jobs[c]] = job[jobs[c]]
    BY <1>2, <2>1, <2>2 DEF SweepJobs
  <2> QED
    BY <2>1, <2>3, StreamAssumption DEF TrackedIsLive
<1>3. ASSUME NEW c \in Cameras, NEW j \in Jobs, StartCameraStream(c, j)
      PROVE  TrackedIsLive'
  BY <1>3 DEF StartCameraStream, TrackedIsLive, TypeOK, NewStream
<1>4. CASE MarkOffline
  <2>1. \A k \in Jobs : /\ job'[k].camera = job[k].camera
                        /\ job'[k].pc = job[k].pc
                        /\ job'[k].cancelled = job[k].cancelled
                        /\ job'[k].stop = job[k].stop
                        /\ job'[k].restarts = job[k].restarts
    BY <1>4 DEF MarkOffline, TypeOK, JobRecord
  <2> QED
    BY <1>4, <2>1, StreamAssumption DEF MarkOffline, TrackedIsLive, TypeOK
<1> QED
  BY <1>1, <1>2, <1>3, <1>4
     DEF Coordinator, ListCameras, ListCamerasFails, SnapshotJobs, SkipCamera,
         ReadLastUpload, MarkOfflineWrite, EndPoll

\* A step that changes one job, and leaves it as alive as it was, keeps the map.
LEMMA HarmlessToMap ==
    ASSUME TypeOK, TrackedIsLive, NEW j \in Jobs, NEW r,
           job' = [job EXCEPT ![j] = r], UNCHANGED jobs,
           r.camera = job[j].camera,
           r.stop = job[j].stop \/ job[j].stop # "no",
           r.cancelled = job[j].cancelled \/ job[j].stop # "no",
           r.pc = job[j].pc \/ r.pc \notin {"free", "done"} \/ job[j].cancelled,
           \/ r.pc = job[j].pc /\ r.restarts = job[j].restarts
           \/ r.pc = "exiting" => r.restarts = MaxRestarts \/ job[j].cancelled
    PROVE  TrackedIsLive'
BY StreamAssumption DEF TrackedIsLive, TypeOK

LEMMA UploadTracked ==
    \A j \in Jobs : TypeOK /\ TrackedIsLive /\ OnSegmentSuccess(j) => TrackedIsLive'
<1> SUFFICES ASSUME TypeOK, TrackedIsLive, NEW j \in Jobs, OnSegmentSuccess(j)
             PROVE  TrackedIsLive'
  OBVIOUS
<1> DEFINE r == [job[j] EXCEPT !.last = "fresh", !.marked = FALSE,
                               !.online = job[j].marked]
<1>1. /\ r.camera = job[j].camera /\ r.pc = job[j].pc
      /\ r.cancelled = job[j].cancelled /\ r.stop = job[j].stop
      /\ r.restarts = job[j].restarts
  BY DEF TypeOK, JobRecord
<1>2. job' = [job EXCEPT ![j] = r] /\ UNCHANGED jobs
  BY DEF OnSegmentSuccess
<1> QED
  BY <1>1, <1>2, HarmlessToMap

LEMMA GoroutinesTracked ==
    \A j \in Jobs : TypeOK /\ TrackedIsLive
        /\ (Supervisor(j) \/ Watcher(j) \/ Stopper(j)) => TrackedIsLive'
<1> SUFFICES ASSUME TypeOK, TrackedIsLive, NEW j \in Jobs,
                    Supervisor(j) \/ Watcher(j) \/ Stopper(j)
             PROVE  TrackedIsLive'
  OBVIOUS
<1>a. job[j] \in JobRecord
  BY DEF TypeOK
<1>1. CASE LoopCancelled(j)
  BY <1>1, <1>a, HarmlessToMap DEF LoopCancelled, JobRecord
<1>9. CASE MaxRestartsReached(j)
  <2>1. job[j].restarts = MaxRestarts
    BY <1>9, <1>a, StreamAssumption DEF MaxRestartsReached, JobRecord
  <2> QED
    BY <1>9, <1>a, <2>1, HarmlessToMap DEF MaxRestartsReached, JobRecord
<1>7. CASE FFmpegKilled(j)
  <2>1. PICK pc \in {"exiting", "done"} : job' = [job EXCEPT ![j].pc = pc]
    BY <1>7 DEF FFmpegKilled
  <2> QED
    BY <1>7, <1>a, <2>1, HarmlessToMap DEF FFmpegKilled, JobRecord
<1>2. CASE RunFFmpeg(j)
  BY <1>2, <1>a, HarmlessToMap DEF RunFFmpeg, JobRecord
<1>3. CASE BackoffEnds(j)
  <2>1. PICK pc \in {"loop", "exiting"} : job' = [job EXCEPT ![j].pc = pc]
    BY <1>3 DEF BackoffEnds
  <2> QED
    BY <1>3, <1>a, <2>1, HarmlessToMap DEF BackoffEnds, JobRecord
<1>4. CASE RemoveJob(j)
  BY <1>4, StreamAssumption DEF RemoveJob, TrackedIsLive, TypeOK, JobRecord
<1>5. CASE OnSegmentSuccess(j) \/ OnlineWrite(j) \/ WatchStops(j)
  <2>1. CASE OnSegmentSuccess(j)
    BY <2>1, UploadTracked
  <2>2. CASE OnlineWrite(j) \/ WatchStops(j)
    BY <2>2, <1>a, HarmlessToMap DEF OnlineWrite, WatchStops, JobRecord
  <2> QED
    BY <1>5, <2>1, <2>2
<1>6. CASE StopRemovesDir(j)
  BY <1>6, <1>a, HarmlessToMap DEF StopRemovesDir, JobRecord
<1>8. CASE StopCancel(j)
  <2>1. PICK stop \in {"waiting", "stopped"} :
          job' = [job EXCEPT ![j] = [job[j] EXCEPT !.stop = stop, !.cancelled = TRUE]]
    BY <1>8 DEF StopCancel
  <2> DEFINE r == [job[j] EXCEPT !.stop = stop, !.cancelled = TRUE]
  <2>2. /\ r.camera = job[j].camera /\ r.pc = job[j].pc /\ job[j].stop # "no"
        /\ r.restarts = job[j].restarts
    BY <1>a, <1>8 DEF JobRecord, StopCancel
  <2>3. job' = [job EXCEPT ![j] = r] /\ UNCHANGED jobs
    BY <1>8, <2>1 DEF StopCancel
  <2> HIDE DEF r
  <2> QED
    BY <2>2, <2>3, HarmlessToMap
<1> QED
  BY <1>1, <1>2, <1>3, <1>4, <1>5, <1>6, <1>7, <1>8, <1>9
     DEF Supervisor, Watcher, Stopper

LEMMA EnvironmentTracked ==
    TypeOK /\ TrackedIsLive /\ Environment => TrackedIsLive'
<1> SUFFICES ASSUME TypeOK, TrackedIsLive, Environment
             PROVE  TrackedIsLive'
  OBVIOUS
<1>1. ASSUME NEW j \in Jobs, FFmpegExits(j) \/ UploadGrowsStale(j)
      PROVE  TrackedIsLive'
  <2>1. job[j] \in JobRecord
    BY DEF TypeOK
  <2> QED
    <3>1. CASE FFmpegExits(j)
      <4> DEFINE r == [job[j] EXCEPT !.pc = "backoff",
                                     !.restarts = job[j].restarts + 1]
      <4>1. /\ r.camera = job[j].camera /\ r.pc = "backoff"
            /\ r.cancelled = job[j].cancelled /\ r.stop = job[j].stop
        BY <2>1 DEF JobRecord
      <4>2. job' = [job EXCEPT ![j] = r] /\ UNCHANGED jobs
        BY <3>1 DEF FFmpegExits
      <4> QED
        BY <4>1, <4>2, HarmlessToMap
    <3>2. CASE UploadGrowsStale(j)
      BY <3>2, <2>1, HarmlessToMap DEF UploadGrowsStale, JobRecord
    <3> QED
      BY <1>1, <3>1, <3>2
<1>2. ASSUME NEW c \in Cameras, PatchCamera(c) \/ ScheduleCamera(c)
      PROVE  TrackedIsLive'
  BY <1>2 DEF PatchCamera, ScheduleCamera, ChangeRow, TrackedIsLive
<1>3. CASE Crash
  BY <1>3 DEF Crash, TrackedIsLive
<1> QED
  BY <1>1, <1>2, <1>3, UploadTracked DEF Environment, UploadsLeftOver

\* A job in the map serves its camera and is not on its way out, whatever the
\* interleaving of polls, stop goroutines, supervisors and crashes.
THEOREM TrackedJobsLive == Spec => []TrackedIsLive
<1>1. Init => TrackedIsLive
  BY DEF Init, TrackedIsLive
<1>2. TypeOK /\ TrackedIsLive /\ [Next]_vars => TrackedIsLive'
  <2>1. TrackedIsLive /\ UNCHANGED vars => TrackedIsLive'
    BY DEF TrackedIsLive, vars
  <2> QED
    BY <2>1, CoordinatorTracked, GoroutinesTracked, EnvironmentTracked DEF Next
<1> QED
  BY <1>1, <1>2, TypeCorrect, PTL DEF Spec

-----------------------------------------------------------------------------
(* One live stream per camera while nobody edits a row. *)

Supervised(j) == job[j].pc \in {"loop", "ffmpeg", "backoff", "exiting"}

\* Without edits every poll lists every camera, with the configuration its job
\* has, so no sweep removes a job; and whatever is supervised is in the map.
SteadyInv ==
    budget.changes = 0 =>
        /\ \A c \in Cameras : Listed(c)
        /\ \A j \in Jobs : job[j].stop = "no"
        /\ \A c \in Cameras :
             jobs[c] # NoJob => job[jobs[c]].config = camera[c].config
        /\ coord.pc \in {"sweep", "start"} =>
             \A c \in Cameras : coord.listed[c] = camera[c].config
        /\ \A j \in Jobs : Supervised(j) => jobs[job[j].camera] = j

LEMMA SetCameraStatusListed ==
    ASSUME TypeOK, NEW d \in Cameras, NEW s \in {"ACTIVE", "OFFLINE"},
           SetCameraStatus(d, s)
    PROVE  /\ budget'.changes = budget.changes
           /\ \A c \in Cameras : /\ camera'[c].config = camera[c].config
                                 /\ Listed(c) => Listed(c)'
BY DEF SetCameraStatus, TypeOK, CameraRow, BudgetRecord, Listed

\* A step of one goroutine that neither sweeps, starts nor removes a job.
LEMMA HarmlessToSteady ==
    ASSUME TypeOK, SteadyInv, NEW j \in Jobs, NEW r,
           job' = [job EXCEPT ![j] = r], UNCHANGED <<jobs, coord>>,
           budget'.changes = budget.changes,
           \A c \in Cameras : /\ camera'[c].config = camera[c].config
                              /\ Listed(c) => Listed(c)',
           r.camera = job[j].camera, r.config = job[j].config,
           r.stop = job[j].stop \/ job[j].stop # "no",
           r.pc = job[j].pc \/ Supervised(j)
    PROVE  SteadyInv'
<1> SUFFICES ASSUME budget.changes = 0 PROVE SteadyInv'
  BY DEF SteadyInv
<1>1. /\ \A k \in Jobs : /\ job'[k].camera = job[k].camera
                         /\ job'[k].config = job[k].config
                         /\ job'[k].stop = "no"
                         /\ Supervised(k)' => Supervised(k)
  BY DEF SteadyInv, TypeOK, Supervised
<1>2. \A c \in Cameras : jobs'[c] # NoJob =>
         job'[jobs'[c]].config = camera'[c].config
  <2>1. \A c \in Cameras : jobs[c] # NoJob => jobs[c] \in Jobs
    BY DEF TypeOK
  <2>2. \A c \in Cameras :
          jobs[c] # NoJob => job[jobs[c]].config = camera[c].config
    BY DEF SteadyInv
  <2> QED
    BY <1>1, <2>1, <2>2
<1>3. \A c \in Cameras : Listed(c)'
  BY DEF SteadyInv
<1>4. \A k \in Jobs : Supervised(k)' => jobs'[job'[k].camera] = k
  BY <1>1 DEF SteadyInv
<1>5. coord'.pc \in {"sweep", "start"} =>
        \A c \in Cameras : coord'.listed[c] = camera'[c].config
  BY DEF SteadyInv
<1> QED
  BY <1>1, <1>2, <1>3, <1>4, <1>5 DEF SteadyInv

LEMMA CoordinatorSteady ==
    TypeOK /\ TrackedIsLive /\ SteadyInv /\ Coordinator => SteadyInv'
<1> SUFFICES ASSUME TypeOK, TrackedIsLive, SteadyInv, Coordinator
             PROVE  SteadyInv'
  OBVIOUS
<1>1. CASE ListCameras
  <2>1. budget.changes = 0 => \A c \in Cameras : coord'.listed[c] = camera[c].config
    BY <1>1 DEF ListCameras, SteadyInv, TypeOK, CoordRecord
  <2>2. UNCHANGED <<camera, job, jobs, budget>>
    BY <1>1 DEF ListCameras
  <2> QED
    BY <2>1, <2>2 DEF SteadyInv, Listed, Supervised
<1>2. CASE ListCamerasFails \/ SnapshotJobs \/ EndPoll
  <2>1. coord'.pc \notin {"sweep", "start"}
    <3>1. CASE ListCamerasFails \/ SnapshotJobs
      BY <3>1, IdleType DEF ListCamerasFails, SnapshotJobs, TypeOK, CoordRecord
    <3>2. CASE EndPoll
      BY <3>2, IdleType DEF EndPoll
    <3> QED
      BY <1>2, <3>1, <3>2
  <2>2. UNCHANGED <<camera, job, jobs, budget>>
    BY <1>2 DEF ListCamerasFails, SnapshotJobs, EndPoll
  <2> QED
    BY <2>1, <2>2 DEF SteadyInv, Listed, Supervised
<1>3. CASE SweepJobs
  <2>1. budget.changes = 0 => \A c \in Cameras : ~Outdated(c)
    BY <1>3 DEF SweepJobs, SteadyInv, Outdated
  <2>2. budget.changes = 0 => job' = job /\ jobs' = jobs
    BY <1>3, <2>1 DEF SweepJobs, TypeOK
  <2>3. coord.pc = "sweep" /\ coord'.listed = coord.listed
    BY <1>3 DEF SweepJobs, TypeOK, CoordRecord
  <2>4. UNCHANGED <<camera, budget>>
    BY <1>3 DEF SweepJobs
  <2>5. CASE budget.changes = 0
    BY <2>2, <2>3, <2>4, <2>5 DEF SteadyInv, Listed, Supervised
  <2> QED
    BY <2>4, <2>5 DEF SteadyInv
<1>4. ASSUME NEW c \in Cameras, NEW j \in Jobs, StartCameraStream(c, j)
      PROVE  SteadyInv'
  <2> SUFFICES ASSUME budget.changes = 0 PROVE SteadyInv'
    BY <1>4 DEF StartCameraStream, SteadyInv
  <2>1. /\ job' = [job EXCEPT ![j] = NewStream(c, camera[c].config)]
        /\ jobs' = [jobs EXCEPT ![c] = j]
        /\ jobs[c] = NoJob /\ \A d \in Cameras : jobs[d] # j
        /\ UNCHANGED <<camera, budget>>
    BY <1>4 DEF StartCameraStream, SteadyInv
  <2>2. /\ job'[j].camera = c /\ job'[j].config = camera[c].config
        /\ job'[j].stop = "no"
        /\ \A k \in Jobs \ {j} : job'[k] = job[k]
    BY <2>1 DEF NewStream, TypeOK
  <2>3. \A k \in Jobs : Supervised(k)' => jobs'[job'[k].camera] = k
    BY <2>1, <2>2, StreamAssumption DEF SteadyInv, Supervised, TypeOK
  <2>4. \A d \in Cameras : jobs'[d] # NoJob =>
          job'[jobs'[d]].config = camera'[d].config
    BY <2>1, <2>2, StreamAssumption DEF SteadyInv, TypeOK
  <2>5. coord'.pc = "start" /\ coord.pc = "start" /\ coord'.listed = coord.listed
    BY <1>4 DEF StartCameraStream, TypeOK, CoordRecord
  <2> QED
    BY <2>1, <2>2, <2>3, <2>4, <2>5 DEF SteadyInv, Listed
<1>5. ASSUME NEW c \in Cameras, SkipCamera(c) PROVE SteadyInv'
  <2>1. coord'.pc = coord.pc /\ coord'.listed = coord.listed
    BY <1>5 DEF SkipCamera, TypeOK, CoordRecord
  <2> QED
    BY <1>5, <2>1 DEF SkipCamera, SteadyInv, Listed, Supervised
<1>6. ASSUME NEW j \in Jobs, ReadLastUpload(j) PROVE SteadyInv'
  <2>1. coord'.pc \notin {"sweep", "start"}
    BY <1>6 DEF ReadLastUpload, TypeOK, CoordRecord
  <2> QED
    BY <1>6, <2>1 DEF ReadLastUpload, SteadyInv, Listed, Supervised
<1>7. CASE MarkOffline
  <2>1. \A k \in Jobs : /\ job'[k].camera = job[k].camera
                        /\ job'[k].config = job[k].config
                        /\ job'[k].pc = job[k].pc
                        /\ job'[k].stop = job[k].stop
    BY <1>7 DEF MarkOffline, TypeOK, JobRecord
  <2>2. coord'.pc \notin {"sweep", "start"}
    BY <1>7 DEF MarkOffline, TypeOK, CoordRecord
  <2>3. UNCHANGED <<camera, jobs, budget>>
    BY <1>7 DEF MarkOffline
  <2> QED
    BY <2>1, <2>2, <2>3, StreamAssumption
       DEF SteadyInv, Listed, Supervised, TypeOK
<1>8. CASE MarkOfflineWrite
  <2>1. job[coord.target].camera \in Cameras
    BY <1>8 DEF MarkOfflineWrite, TypeOK, CoordRecord, JobRecord
  <2>2. /\ budget'.changes = budget.changes
        /\ \A c \in Cameras : /\ camera'[c].config = camera[c].config
                              /\ Listed(c) => Listed(c)'
    BY <1>8, <2>1, SetCameraStatusListed DEF MarkOfflineWrite
  <2>3. coord'.pc \notin {"sweep", "start"}
    BY <1>8 DEF MarkOfflineWrite, TypeOK, CoordRecord
  <2> QED
    BY <1>8, <2>2, <2>3 DEF MarkOfflineWrite, SteadyInv, Supervised
<1> QED
  BY <1>1, <1>2, <1>3, <1>4, <1>5, <1>6, <1>7, <1>8 DEF Coordinator

LEMMA UploadSteady ==
    \A j \in Jobs : TypeOK /\ SteadyInv /\ OnSegmentSuccess(j) => SteadyInv'
<1> SUFFICES ASSUME TypeOK, SteadyInv, NEW j \in Jobs, OnSegmentSuccess(j)
             PROVE  SteadyInv'
  OBVIOUS
<1> DEFINE r == [job[j] EXCEPT !.last = "fresh", !.marked = FALSE,
                               !.online = job[j].marked]
<1>1. /\ r.camera = job[j].camera /\ r.pc = job[j].pc
      /\ r.config = job[j].config /\ r.stop = job[j].stop
  BY DEF TypeOK, JobRecord
<1>2. /\ job' = [job EXCEPT ![j] = r]
      /\ UNCHANGED <<camera, jobs, coord, budget>>
  BY DEF OnSegmentSuccess
<1>3. \A c \in Cameras : /\ camera'[c].config = camera[c].config
                         /\ Listed(c) => Listed(c)'
  BY <1>2 DEF Listed
<1> HIDE DEF r
<1> QED
  BY <1>1, <1>2, <1>3, HarmlessToSteady

LEMMA GoroutinesSteady ==
    \A j \in Jobs : TypeOK /\ SteadyInv
        /\ (Supervisor(j) \/ Watcher(j) \/ Stopper(j)) => SteadyInv'
<1> SUFFICES ASSUME TypeOK, SteadyInv, NEW j \in Jobs,
                    Supervisor(j) \/ Watcher(j) \/ Stopper(j)
             PROVE  SteadyInv'
  OBVIOUS
<1>a. job[j] \in JobRecord /\ job[j].camera \in Cameras
  BY DEF TypeOK, JobRecord
<1>b. UNCHANGED camera => \A c \in Cameras : /\ camera'[c].config = camera[c].config
                                             /\ Listed(c) => Listed(c)'
  BY DEF Listed
<1>1. CASE LoopCancelled(j) \/ FFmpegKilled(j) \/ RunFFmpeg(j)
  BY <1>1, <1>a, <1>b, HarmlessToSteady
     DEF LoopCancelled, FFmpegKilled, RunFFmpeg, JobRecord, Supervised
<1>2. CASE MaxRestartsReached(j)
  <2>1. /\ budget'.changes = budget.changes
        /\ \A c \in Cameras : /\ camera'[c].config = camera[c].config
                              /\ Listed(c) => Listed(c)'
    BY <1>2, <1>a, SetCameraStatusListed DEF MaxRestartsReached
  <2> QED
    BY <1>2, <1>a, <2>1, HarmlessToSteady
       DEF MaxRestartsReached, JobRecord, Supervised
<1>3. CASE BackoffEnds(j)
  <2>1. PICK pc \in {"loop", "exiting"} : job' = [job EXCEPT ![j].pc = pc]
    BY <1>3 DEF BackoffEnds
  <2> QED
    BY <1>3, <1>a, <1>b, <2>1, HarmlessToSteady
       DEF BackoffEnds, JobRecord, Supervised
<1>4. CASE RemoveJob(j)
  <2> SUFFICES ASSUME budget.changes = 0 PROVE SteadyInv'
    BY <1>4 DEF RemoveJob, SteadyInv
  <2>1. \A k \in Jobs : /\ job'[k].camera = job[k].camera
                        /\ job'[k].config = job[k].config
                        /\ job'[k].stop = "no"
                        /\ Supervised(k)' => Supervised(k) /\ k # j
    BY <1>4 DEF RemoveJob, SteadyInv, TypeOK, Supervised, JobRecord
  <2>2. jobs[job[j].camera] = j
    BY <1>4 DEF RemoveJob, SteadyInv, Supervised
  <2>3. \A k \in Jobs : Supervised(k)' => jobs'[job'[k].camera] = k
    BY <1>4, <2>1, <2>2, <1>a DEF RemoveJob, SteadyInv, TypeOK
  <2>4. \A c \in Cameras : jobs'[c] # NoJob => jobs'[c] = jobs[c] /\ jobs[c] \in Jobs
    BY <1>4, <1>a DEF RemoveJob, TypeOK
  <2>5. UNCHANGED <<camera, coord, budget>>
    BY <1>4 DEF RemoveJob
  <2> QED
    BY <2>1, <2>3, <2>4, <2>5 DEF SteadyInv, Listed
<1>5. CASE OnSegmentSuccess(j)
  BY <1>5, UploadSteady
<1>6. CASE OnlineWrite(j)
  <2>1. /\ budget'.changes = budget.changes
        /\ \A c \in Cameras : /\ camera'[c].config = camera[c].config
                              /\ Listed(c) => Listed(c)'
    BY <1>6, <1>a, SetCameraStatusListed DEF OnlineWrite
  <2> QED
    BY <1>6, <1>a, <2>1, HarmlessToSteady DEF OnlineWrite, JobRecord
<1>7. CASE WatchStops(j) \/ StopRemovesDir(j)
  BY <1>7, <1>a, <1>b, HarmlessToSteady DEF WatchStops, StopRemovesDir, JobRecord
<1>8. CASE StopCancel(j)
  <2>3. PICK stop \in {"waiting", "stopped"} :
          job' = [job EXCEPT ![j] = [job[j] EXCEPT !.stop = stop, !.cancelled = TRUE]]
    BY <1>8 DEF StopCancel
  <2> DEFINE r == [job[j] EXCEPT !.stop = stop, !.cancelled = TRUE]
  <2>1. /\ r.camera = job[j].camera /\ r.pc = job[j].pc
        /\ r.config = job[j].config /\ job[j].stop # "no"
    BY <1>a, <1>8 DEF JobRecord, StopCancel
  <2>2. /\ job' = [job EXCEPT ![j] = r]
        /\ UNCHANGED <<camera, jobs, coord, budget>>
    BY <1>8, <2>3 DEF StopCancel
  <2> HIDE DEF r
  <2> QED
    BY <2>1, <2>2, <1>b, HarmlessToSteady
<1> QED
  BY <1>1, <1>2, <1>3, <1>4, <1>5, <1>6, <1>7, <1>8
     DEF Supervisor, Watcher, Stopper

LEMMA EnvironmentSteady ==
    TypeOK /\ SteadyInv /\ Environment => SteadyInv'
<1> SUFFICES ASSUME TypeOK, SteadyInv, Environment
             PROVE  SteadyInv'
  OBVIOUS
<1>1. ASSUME NEW j \in Jobs, FFmpegExits(j) PROVE SteadyInv'
  <2> DEFINE r == [job[j] EXCEPT !.pc = "backoff",
                                 !.restarts = job[j].restarts + 1]
  <2>1. /\ r.camera = job[j].camera /\ Supervised(j)
        /\ r.config = job[j].config /\ r.stop = job[j].stop
    BY <1>1 DEF TypeOK, JobRecord, FFmpegExits, Supervised
  <2>2. /\ job' = [job EXCEPT ![j] = r]
        /\ UNCHANGED <<camera, jobs, coord>> /\ budget'.changes = budget.changes
    BY <1>1 DEF FFmpegExits, TypeOK, BudgetRecord
  <2>3. \A c \in Cameras : /\ camera'[c].config = camera[c].config
                           /\ Listed(c) => Listed(c)'
    BY <2>2 DEF Listed
  <2> HIDE DEF r
  <2> QED
    BY <2>1, <2>2, <2>3, HarmlessToSteady
<1>2. ASSUME NEW j \in Jobs, UploadGrowsStale(j) PROVE SteadyInv'
  BY <1>2, HarmlessToSteady DEF UploadGrowsStale, TypeOK, JobRecord, Listed
<1>3. ASSUME NEW c \in Cameras, PatchCamera(c) \/ ScheduleCamera(c)
      PROVE  SteadyInv'
  <2>1. budget'.changes # 0
    <3>1. budget' = [budget EXCEPT !.changes = @ + 1]
      BY <1>3 DEF PatchCamera, ScheduleCamera, ChangeRow
    <3> QED
      BY <3>1 DEF TypeOK, BudgetRecord
  <2> QED
    BY <2>1 DEF SteadyInv
<1>4. CASE Crash
  <2>1. \A j \in Jobs : job'[j].stop = "no" /\ job'[j].pc = "free"
    BY <1>4 DEF Crash, Vacant, NewStream
  <2>2. /\ \A c \in Cameras : jobs'[c] = NoJob
        /\ coord'.pc = "idle" /\ UNCHANGED camera
        /\ budget'.changes = budget.changes
    BY <1>4, IdleType DEF Crash, TypeOK, BudgetRecord
  <2> QED
    BY <2>1, <2>2 DEF SteadyInv, Listed, Supervised
<1> QED
  BY <1>1, <1>2, <1>3, <1>4, UploadSteady DEF Environment, UploadsLeftOver

\* Whatever FFmpeg exits, restart limits, lost status writes, failed polls and
\* crashes occur, a camera nobody edits has at most one live stream.
THEOREM SteadySingle == Spec => []SteadySingleStream
<1>1. Init => SteadyInv
  <2> SUFFICES ASSUME Init PROVE SteadyInv
    OBVIOUS
  <2>1. \A j \in Jobs : job[j].stop = "no" /\ job[j].pc = "free"
    BY DEF Init, Vacant, NewStream
  <2>2. /\ \A c \in Cameras : jobs[c] = NoJob /\ Listed(c)
        /\ coord.pc = "idle"
    BY IdleType DEF Init, Listed
  <2> QED
    BY <2>1, <2>2 DEF SteadyInv, Supervised
<1>2. TypeOK /\ TrackedIsLive /\ SteadyInv /\ [Next]_vars => SteadyInv'
  <2>1. SteadyInv /\ UNCHANGED vars => SteadyInv'
    BY DEF SteadyInv, Listed, Supervised, vars
  <2> QED
    BY <2>1, CoordinatorSteady, GoroutinesSteady, EnvironmentSteady DEF Next
<1>3. SteadyInv => SteadySingleStream
  BY DEF SteadyInv, SteadySingleStream, Supervised, Live
<1> QED
  BY <1>1, <1>2, <1>3, TypeCorrect, TrackedJobsLive, PTL DEF Spec
=============================================================================
