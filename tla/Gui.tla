-------------------------------- MODULE Gui --------------------------------
(***************************************************************************)
(* The window and its jobs: the event handlers of gui-tauri/ui/main.js,    *)
(* the job table of gui-tauri/src/main.rs and the worker processes.  A     *)
(* handler runs to its next await without interruption; while it waits for *)
(* a dialog or for the backend, other handlers run.  Replies of the        *)
(* backend and its job-exit events travel separately, so one may overtake  *)
(* the other.  The dialogs are modal: START, CANCEL and the device box are *)
(* within reach only when none is open.                                    *)
(***************************************************************************)
EXTENDS Integers, FiniteSets

CONSTANTS
  Nodes,     \* device nodes a drive may appear under
  Handlers,  \* activations of onStart and startDl that may be pending at once
  MaxJobs,   \* bound: workers started
  None       \* no device

ASSUME NoneAssumption  == None \notin Nodes
ASSUME BoundAssumption == MaxJobs \in Nat

VARIABLES
  first,    \* the first entry of devs, the list of drives
  picked,   \* selectedDevice(): the entry of devs at the index of the box
  shown,    \* the device that the text of the box names
  box,      \* open dialogs: "error", a message that waits for OK; "dl", downloads
  jobId, jobKind, dlJob,   \* the globals of main.js; 0 and "" are no job
  hnd,      \* hnd[h]: a pending handler
  overlap,  \* history: a START was confirmed while a run was on or being started
  next,     \* Jobs.next
  job,      \* job[i]: the worker and its waiter task
  kills,    \* jobs with a kill_job call that waits for the lock
  events    \* job-exit events on their way to the window

device  == <<first, picked, shown>>
backend == <<next, job, kills, events>>
vars    == <<first, picked, shown, box, jobId, jobKind, dlJob, hnd, overlap,
             next, job, kills, events>>

Ids == 1..MaxJobs

(* History: how a target and the warning before the run went together.  The *)
(* warning named it; it did not, but another dialog came before the warning *)
(* or the box named no device ("excepted"); none of these.                  *)
Consents == {"named", "excepted", "other"}

HandlerType ==
  [at    : {"idle", "ask", "wue", "warn", "invoke", "reply"},
   kind  : {"create", "download"},
   dst   : Nodes \cup {None},  \* const dst, the target of the run
   named : Nodes \cup {None},  \* the device the warning named
   asked : BOOLEAN,            \* a dialog came before the warning
   consent : Consents,
   id    : 0..MaxJobs]         \* the reply: a job, or 0 for an error

JobType ==
  [kind   : {"create", "download"},
   consent : Consents,
   state  : {"running", "failed", "succeeded"},
   wait   : {"new", "locked", "over"}]  \* the waiter task; it holds the lock
                                        \* of the Child while it is "locked"

Idle == [at |-> "idle", kind |-> "create", dst |-> None, named |-> None,
         asked |-> FALSE, consent |-> "named", id |-> 0]

Started   == DOMAIN job
Running(i) == job[i].state = "running"

(* A dialog is open. *)
Modal == box # {} \/ \E h \in Handlers : hnd[h].at \in {"ask", "wue", "warn"}

Handler(h, r) == hnd' = [hnd EXCEPT ![h] = r]

-----------------------------------------------------------------------------
(* refreshDevices, every two seconds.  jobId is looked at before the list   *)
(* is asked for; the list may come at any moment after that.  The selection *)
(* stays when its device is still listed and moves to the first of the list *)
(* when it is not.  Drives come and go as they like.                        *)
RefreshDevices ==
  /\ first' \in Nodes \cup {None}
  /\ picked' \in IF first' = None THEN {None} ELSE {first'} \cup ({picked} \ {None})
  /\ shown' = picked'
  /\ UNCHANGED <<box, jobId, jobKind, dlJob, hnd, overlap, backend>>

(* Its error path: the box holds one option, the message, and devs is left  *)
(* as it was, so that the index of that option leads to the first drive.    *)
RefreshFails ==
  /\ picked' = first
  /\ shown' = None
  /\ UNCHANGED <<first, box, jobId, jobKind, dlJob, hnd, overlap, backend>>

(* The user selects another of the drives. *)
SelectDevice ==
  /\ ~Modal /\ jobId = 0 /\ shown # None
  /\ picked' \in Nodes
  /\ shown' = picked'
  /\ UNCHANGED <<first, box, jobId, jobKind, dlJob, hnd, overlap, backend>>

-----------------------------------------------------------------------------
(* onStart. *)

(* Its first part: the target is taken from the list.  An image that can be  *)
(* written in two ways ("ask") and a Windows image ("wue") lead to a dialog *)
(* before the warning; without an image there is only a message.            *)
OnStart(h) ==
  /\ hnd[h].at = "idle" /\ ~Modal /\ jobId = 0 /\ picked # None
  /\ \/ box' = box \cup {"error"} /\ UNCHANGED hnd
     \/ /\ \E d \in {"ask", "wue", "warn"} :
             Handler(h, [Idle EXCEPT !.at = d, !.asked = (d # "warn"), !.dst = picked,
                                     !.named = IF d = "warn" THEN shown ELSE None])
        /\ UNCHANGED box
  /\ UNCHANGED <<device, jobId, jobKind, dlJob, overlap, backend>>

(* The dialog is answered; the warning names what the box shows now.  Its   *)
(* message box takes the place of one that was open.  The Windows *)
(* dialog opens again, under a message, when its user name is empty.        *)
Answer(h) ==
  /\ hnd[h].at \in {"ask", "wue"}
  /\ \/ Handler(h, Idle) /\ UNCHANGED box
     \/ /\ Handler(h, [hnd[h] EXCEPT !.at = "warn", !.named = shown])
        /\ box' = box \ {"error"}
     \/ hnd[h].at = "wue" /\ box' = box \cup {"error"} /\ UNCHANGED hnd
  /\ UNCHANGED <<device, jobId, jobKind, dlJob, overlap, backend>>

ConsentOf(r) == CASE r.dst = r.named -> "named"
                  [] r.dst # r.named /\ (r.asked \/ r.named = None) -> "excepted"
                  [] OTHER -> "other"

(* A handler that has put its target into the request to the backend. *)
Invoked(r) == [Idle EXCEPT !.at = "invoke", !.consent = ConsentOf(r)]

\* Mutant: the target is read from the box after the warning.
Confirm_rereads(h) ==
  /\ hnd[h].at = "warn"
  /\ Handler(h, Invoked([hnd[h] EXCEPT !.dst = picked]))
  /\ jobKind' = "create"
  /\ UNCHANGED <<device, box, jobId, dlJob, overlap, backend>>

(* The warning is answered; start_create is invoked. *)
Confirm(h) ==
  /\ hnd[h].at = "warn"
  /\ \/ Handler(h, Idle) /\ UNCHANGED <<jobKind, overlap>>
     \/ /\ Handler(h, Invoked(hnd[h]))
        /\ jobKind' = "create"
        /\ overlap' = (overlap \/ jobId # 0
                        \/ \E g \in Handlers : /\ hnd[g].kind = "create"
                                               /\ hnd[g].at \in {"invoke", "reply"})
  /\ UNCHANGED <<device, box, jobId, dlJob, backend>>

\* Mutant: CANCEL frees the window at once.
Cancel_frees ==
  /\ jobId # 0 /\ ~Modal
  /\ kills' = kills \cup {jobId}
  /\ jobId' = 0
  /\ UNCHANGED <<device, box, jobKind, dlJob, hnd, overlap, next, job, events>>

(* onStart with a job: CANCEL. *)
Cancel ==
  /\ jobId # 0 /\ ~Modal
  /\ kills' = kills \cup {jobId}
  /\ UNCHANGED <<device, box, jobId, jobKind, dlJob, hnd, overlap, next, job, events>>

-----------------------------------------------------------------------------
(* The download dialog, opened with the button that is locked during a run. *)
OpenDownload ==
  /\ ~Modal /\ jobId = 0
  /\ box' = box \cup {"dl"}
  /\ UNCHANGED <<device, jobId, jobKind, dlJob, hnd, overlap, backend>>

StartDl(h) ==
  /\ hnd[h].at = "idle" /\ "dl" \in box /\ dlJob = 0
  /\ Handler(h, [Idle EXCEPT !.at = "invoke", !.kind = "download"])
  /\ jobKind' = "download"
  /\ UNCHANGED <<device, box, jobId, dlJob, overlap, backend>>

(* dlLine with "ISO: ...": the image is there and the dialog closes. *)
DownloadDone ==
  /\ "dl" \in box /\ dlJob # 0 /\ jobKind = "download"
  /\ box' = box \ {"dl"}
  /\ UNCHANGED <<device, jobId, jobKind, dlJob, hnd, overlap, backend>>

(* Cancel in the dialog: it closes when kill_job has returned. *)
DlCancel ==
  /\ "dl" \in box
  /\ IF dlJob # 0 THEN kills' = kills \cup {dlJob} /\ UNCHANGED box
                  ELSE box' = box \ {"dl"} /\ UNCHANGED kills
  /\ UNCHANGED <<device, jobId, jobKind, dlJob, hnd, overlap, next, job, events>>

-----------------------------------------------------------------------------
(* The backend. *)

(* start_create and start_download: the worker is spawned, or that fails.   *)
(* (The id of a failed spawn is used up; ids are compared only.)            *)
Spawn(h) ==
  /\ hnd[h].at = "invoke"
  /\ \/ /\ Handler(h, [hnd[h] EXCEPT !.at = "reply", !.id = 0])
        /\ UNCHANGED <<next, job>>
     \/ /\ next < MaxJobs
        /\ next' = next + 1
        /\ Handler(h, [hnd[h] EXCEPT !.at = "reply", !.id = next'])
        /\ job' = [i \in Started \cup {next'} |->
                     IF i \in Started THEN job[i]
                     ELSE [kind |-> hnd[h].kind,
                           consent |-> hnd[h].consent,
                           state |-> "running", wait |-> "new"]]
  /\ UNCHANGED <<device, box, jobId, jobKind, dlJob, overlap, kills, events>>

(* The waiter task takes the lock of the Child for the time of its wait(). *)
WaiterLocks(i) ==
  /\ i \in Started /\ job[i].wait = "new"
  /\ job' = [job EXCEPT ![i].wait = "locked"]
  /\ UNCHANGED <<device, box, jobId, jobKind, dlJob, hnd, overlap, next, kills, events>>

(* The worker ends by itself. *)
WorkerEnds(i) ==
  /\ i \in Started /\ Running(i)
  /\ \E s \in {"failed", "succeeded"} : job' = [job EXCEPT ![i].state = s]
  /\ UNCHANGED <<device, box, jobId, jobKind, dlJob, hnd, overlap, next, kills, events>>

(* wait() returns: the lock is released and job-exit is sent. *)
WaiterReaps(i) ==
  /\ i \in Started /\ job[i].wait = "locked" /\ ~Running(i)
  /\ job' = [job EXCEPT ![i].wait = "over"]
  /\ events' = events \cup {i}
  /\ UNCHANGED <<device, box, jobId, jobKind, dlJob, hnd, overlap, next, kills>>

(* kill_job gets the lock.  A download is stopped by the signal; a worker   *)
(* started through pkexec belongs to root and may be out of its reach.  The *)
(* reply closes the download dialog.                                        *)
KillJob(i) ==
  /\ i \in kills /\ job[i].wait # "locked"
  /\ kills' = kills \ {i}
  /\ \/ job' = [job EXCEPT ![i].state = IF Running(i) THEN "failed" ELSE @]
     \/ job[i].kind = "create" /\ UNCHANGED job
  /\ box' = IF job[i].kind = "download" THEN box \ {"dl"} ELSE box
  /\ UNCHANGED <<device, jobId, jobKind, dlJob, hnd, overlap, next, events>>

-----------------------------------------------------------------------------
(* What arrives in the window. *)

(* A message box that opens takes the place of an open one; the handler     *)
(* that waits for an answer to that never gets it.                          *)
Abandoned == [h \in Handlers |-> IF hnd[h].at \in {"ask", "warn"} THEN Idle ELSE hnd[h]]

\* Mutant: an error is stored as if it were a job.
Reply_stores_error(h) ==
  /\ hnd[h].at = "reply"
  /\ Handler(h, Idle)
  /\ jobId' = IF hnd[h].id # 0 THEN hnd[h].id ELSE -1
  /\ UNCHANGED <<device, box, jobKind, dlJob, overlap, backend>>

(* The reply to start_create or start_download. *)
Reply(h) ==
  /\ hnd[h].at = "reply"
  /\ IF hnd[h].id # 0
       THEN /\ Handler(h, Idle)
            /\ IF hnd[h].kind = "create"
                 THEN jobId' = hnd[h].id /\ UNCHANGED dlJob
                 ELSE dlJob' = hnd[h].id /\ UNCHANGED jobId
            /\ UNCHANGED <<jobKind, box>>
       ELSE /\ jobKind' = ""
            /\ IF hnd[h].kind = "create"
                 THEN box' = box \cup {"error"} /\ hnd' = [Abandoned EXCEPT ![h] = Idle]
                 ELSE Handler(h, Idle) /\ UNCHANGED box
            /\ UNCHANGED <<jobId, dlJob>>
  /\ UNCHANGED <<device, overlap, backend>>

\* Mutant: the id in the event is not compared.
ExitOfRun_any(i) == jobId # 0 /\ jobKind = "create"

(* job-exit belongs to the run, or to the download, the window knows of. *)
ExitOfRun(i) == i = jobId /\ jobKind = "create"
ExitOfDownload(i) == i = dlJob /\ jobKind = "download"

JobExit(i) ==
  /\ i \in events
  /\ events' = events \ {i}
  /\ \/ /\ ExitOfRun(i)
        /\ jobId' = 0
        /\ IF job[i].state = "failed"
             THEN box' = box \cup {"error"} /\ hnd' = Abandoned
             ELSE UNCHANGED <<box, hnd>>
        /\ UNCHANGED <<dlJob, jobKind>>
     \/ /\ ~ExitOfRun(i) /\ ExitOfDownload(i)
        /\ dlJob' = 0 /\ jobKind' = ""
        /\ UNCHANGED <<jobId, box, hnd>>
     \/ /\ ~ExitOfRun(i) /\ ~ExitOfDownload(i)
        /\ UNCHANGED <<jobId, dlJob, jobKind, box, hnd>>
  /\ UNCHANGED <<device, overlap, next, job, kills>>

(* OK in the message box. *)
Dismiss ==
  /\ "error" \in box
  /\ box' = box \ {"error"}
  /\ UNCHANGED <<device, jobId, jobKind, dlJob, hnd, overlap, backend>>

-----------------------------------------------------------------------------
Init ==
  /\ first \in Nodes \cup {None}
  /\ picked = first /\ shown = first
  /\ box = {}
  /\ jobId = 0 /\ jobKind = "" /\ dlJob = 0
  /\ hnd = [h \in Handlers |-> Idle]
  /\ overlap = FALSE
  /\ next = 0 /\ job = [i \in {} |-> Idle]
  /\ kills = {} /\ events = {}

Backend ==
  \/ \E h \in Handlers : Spawn(h)
  \/ \E i \in Ids : WaiterLocks(i) \/ WaiterReaps(i) \/ KillJob(i)

Deliver == (\E h \in Handlers : Reply(h)) \/ (\E i \in Ids : JobExit(i))

User ==
  \/ SelectDevice \/ Cancel \/ OpenDownload \/ DlCancel \/ Dismiss
  \/ \E h \in Handlers : OnStart(h) \/ Answer(h) \/ Confirm(h) \/ StartDl(h)

Next == User \/ RefreshDevices \/ RefreshFails \/ DownloadDone \/ Backend \/ Deliver
        \/ \E i \in Ids : WorkerEnds(i)

Spec == Init /\ [][Next]_vars

(* The runtimes of the backend and of the window run what is ready.  Users  *)
(* may do nothing, and a worker may take as long as it likes.               *)
FairSpec ==
  /\ Spec
  /\ \A h \in Handlers : WF_vars(Spawn(h)) /\ WF_vars(Reply(h))
  /\ \A i \in Ids : /\ WF_vars(WaiterLocks(i)) /\ WF_vars(WaiterReaps(i))
                    /\ WF_vars(KillJob(i)) /\ WF_vars(JobExit(i))
-----------------------------------------------------------------------------
(* Job numbers, handlers and jobs are what main.js and main.rs can make     *)
(* them.                                                                    *)
TypeOK ==
  /\ first \in Nodes \cup {None} /\ picked \in Nodes \cup {None}
  /\ shown \in Nodes \cup {None} /\ box \subseteq {"error", "dl"}
  /\ jobId \in 0..MaxJobs /\ dlJob \in 0..MaxJobs
  /\ jobKind \in {"", "create", "download"}
  /\ hnd \in [Handlers -> HandlerType] /\ overlap \in BOOLEAN
  /\ next \in 0..MaxJobs /\ job \in [1..next -> JobType]
  /\ kills \subseteq Started /\ events \subseteq Started

(* The window knows every worker that writes to a drive, however START,     *)
(* CANCEL, downloads and late events interleave: jobId holds its number, or *)
(* the reply with its number is on the way.  So the window is unlocked      *)
(* (START, CLOSE, the device box) under a running worker only for the time  *)
(* that start_create takes to reply, unless a START was confirmed while     *)
(* another run was on or being started (main.js:343-357, 457-476, 509-571). *)
WorkerKnown ==
  ~overlap =>
    \A i \in Started : (job[i].kind = "create" /\ Running(i)) =>
      \/ jobId = i
      \/ \E h \in Handlers : /\ hnd[h].at = "reply" /\ hnd[h].kind = "create"
                             /\ hnd[h].id = i

(* A worker never writes to another device than the one its warning named,  *)
(* whatever happened to the list of drives while the warning was open,      *)
(* unless a dialog came before the warning or the box showed an error       *)
(* instead of a device when the warning opened (main.js:301-307, 515,       *)
(* 540-544).                                                                *)
Consented ==
  \A i \in Started : job[i].consent # "other"

(* The window returns to "ready" only when the very worker it was showing   *)
(* has ended and been waited for (main.js:457-461, main.rs:161-168).        *)
ReadyAfterExit ==
  [][(jobId # 0 /\ jobId' = 0) => (job[jobId].wait = "over" /\ ~Running(jobId))]_vars

(* Cancel stops a download ("CANCEL", main.js:510; kill_job, main.rs:336):  *)
(* the process is unprivileged, so nothing but the program is in the way.   *)
CancelStops ==
  \A i \in Ids :
    (i \in kills /\ job[i].kind = "download") ~> (i \in Started /\ ~Running(i))

(* "Worker stderr now streams into the GUI log (auth failures, refusal      *)
(* reasons) plus the worker exit code - failures are never silent"          *)
(* (CHANGELOG.md:439-440): a worker that failed does not leave the window   *)
(* showing it as running for ever.                                          *)
NeverSilent ==
  \A i \in Ids : (i \in Started /\ job[i].state = "failed") ~> (jobId # i)
=============================================================================
