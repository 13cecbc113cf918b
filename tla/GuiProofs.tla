----------------------------- MODULE GuiProofs -----------------------------
(***************************************************************************)
(* The safety properties of the window and its jobs, for every set of      *)
(* device nodes, any number of pending handlers and any number of jobs.    *)
(*                                                                         *)
(* The invariant follows a START from the dialog to the end of its worker: *)
(* a handler that waits in a dialog agrees with what the dialog showed, a  *)
(* job number in the window or in a reply is that of a started job, a job  *)
(* that was waited for has ended, and, as long as no START was confirmed   *)
(* during another one, a single place, a handler or jobId, holds the run.  *)
(***************************************************************************)
EXTENDS Gui, TLAPS

(* A create that was confirmed and is not shown by jobId yet. *)
Starting(r) == r.kind = "create" /\ r.at \in {"invoke", "reply"}

(* The warning names the target, or no device, unless a dialog came before  *)
(* it.                                                                      *)
Fair(r) ==
  /\ r.at \in {"ask", "wue"} => r.asked = TRUE
  /\ r.at = "warn" => r.asked = TRUE \/ r.named = None \/ r.dst = r.named
  /\ r.consent # "other"

(* Every job number the window holds, or will, is the number of a job. *)
Known ==
  /\ jobId \in 0..next /\ dlJob \in 0..next
  /\ \A h \in Handlers : hnd[h].id \in 0..next

(* What was waited for, and only that, is announced, and has ended. *)
Settled ==
  /\ \A i \in events : job[i].wait = "over"
  /\ \A i \in 1..next : job[i].wait = "over" => job[i].state # "running"

(* The box names the device that would be taken, or none; handlers and jobs *)
(* keep to what their warning said.                                         *)
Honest ==
  /\ shown \in {None, picked}
  /\ \A h \in Handlers : Fair(hnd[h])
  /\ \A i \in 1..next : job[i].consent # "other"

(* A worker that writes is the one the window shows, or the reply with its  *)
(* number is on its way.                                                    *)
Accounted ==
  ~overlap => \A i \in 1..next :
    job[i].kind = "create" /\ job[i].state = "running" =>
      \/ jobId = i
      \/ \E h \in Handlers : Starting(hnd[h]) /\ hnd[h].at = "reply" /\ hnd[h].id = i

(* One run at a time, until a START is confirmed during another. *)
Single ==
  ~overlap => \A g \in Handlers :
    Starting(hnd[g]) => jobId = 0 /\ \A h \in Handlers : Starting(hnd[h]) => g = h

USE DEF device

IInv == TypeOK /\ Known /\ Settled /\ Honest /\ Accounted /\ Single

-----------------------------------------------------------------------------
(* Job numbers lie between 0, which is none, and the bound. *)
LEMMA Numbers ==
  ASSUME TypeOK
  PROVE  /\ next \in Nat /\ 0 \in 0..next /\ 0..next \subseteq 0..MaxJobs
         /\ DOMAIN job = 1..next /\ kills \subseteq 1..next /\ events \subseteq 1..next
  <1>1. next \in 0..MaxJobs
    BY DEF TypeOK
  <1>2. DOMAIN job = 1..next /\ kills \subseteq 1..next /\ events \subseteq 1..next
    BY DEF TypeOK, Started
  <1>3. QED
    BY <1>1, <1>2, BoundAssumption

(* The fresh handler is one, waits for nothing and hides nothing. *)
LEMMA IdleIs ==
  /\ Idle \in HandlerType /\ ~Starting(Idle) /\ Fair(Idle) /\ Idle.id = 0
  /\ Idle.kind = "create" /\ Idle.at = "idle" /\ Idle.consent = "named"
  /\ Idle.asked = FALSE
  BY BoundAssumption DEF Idle, HandlerType, Starting, Fair, Consents

(* Handlers may come and go in dialogs and downloads, and events may be     *)
(* consumed, while the run that is on stays where it is.                    *)
LEMMA Calm ==
  ASSUME IInv,
         first' \in Nodes \cup {None}, picked' \in Nodes \cup {None},
         shown' \in {None, picked'}, box' \subseteq {"error", "dl"},
         jobKind' \in {"", "create", "download"},
         dlJob' \in 0..next, kills' \subseteq 1..next, events' \subseteq events,
         hnd' \in [Handlers -> HandlerType],
         \A g \in Handlers :
           \/ hnd'[g] = hnd[g]
           \/ /\ ~Starting(hnd[g]) /\ ~Starting(hnd'[g])
              /\ hnd'[g].id \in 0..next /\ Fair(hnd'[g]),
         UNCHANGED <<jobId, overlap, next, job>>
  PROVE  IInv'
  <1> USE DEF IInv
  <1>1. TypeOK'
    <2>1. /\ DOMAIN job' = 1..next' /\ events \subseteq 1..next
          /\ 0..next \subseteq 0..MaxJobs
      BY Numbers
    <2>2. /\ overlap' \in BOOLEAN /\ next' \in 0..MaxJobs
          /\ jobId' \in 0..MaxJobs /\ dlJob' \in 0..MaxJobs
          /\ job' \in [1..next' -> JobType]
      BY <2>1 DEF TypeOK
    <2>3. QED
      BY <2>1, <2>2 DEF TypeOK, Started
  <1>2. Known'
    BY DEF Known
  <1>3. Settled'
    BY DEF Settled
  <1>4. Honest'
    BY DEF Honest
  <1>5. Accounted'
    <2>1. SUFFICES ASSUME ~overlap, NEW i \in 1..next,
                          job[i].kind = "create", job[i].state = "running", jobId # i
                   PROVE  \E h \in Handlers : /\ Starting(hnd'[h]) /\ hnd'[h].at = "reply"
                                               /\ hnd'[h].id = i
      BY DEF Accounted
    <2>2. PICK h \in Handlers : Starting(hnd[h]) /\ hnd[h].at = "reply" /\ hnd[h].id = i
      BY <2>1 DEF Accounted
    <2>3. QED
      BY <2>2
  <1>6. Single'
    BY DEF Single
  <1>7. QED
    BY <1>1, <1>2, <1>3, <1>4, <1>5, <1>6

(* A job may be waited for and may end; what it was started for stays. *)
LEMMA Works ==
  ASSUME IInv,
         box' \subseteq {"error", "dl"}, kills' \subseteq 1..next,
         events' \subseteq 1..next, job' \in [1..next -> JobType],
         \A j \in 1..next :
           /\ job'[j].kind = job[j].kind /\ job'[j].consent = job[j].consent
           /\ job'[j].state = "running" => job[j].state = "running"
           /\ job'[j].wait = "over" => job'[j].state # "running",
         \A j \in events' : job'[j].wait = "over",
         UNCHANGED <<device, jobId, jobKind, dlJob, hnd, overlap, next>>
  PROVE  IInv'
  <1> USE DEF IInv
  <1>1. TypeOK'
    BY DEF TypeOK, Started
  <1>2. Known'
    BY DEF Known
  <1>3. Settled'
    BY DEF Settled
  <1>4. Honest'
    BY DEF Honest
  <1>5. Accounted'
    BY DEF Accounted
  <1>6. Single'
    BY DEF Single
  <1>7. QED
    BY <1>1, <1>2, <1>3, <1>4, <1>5, <1>6

-----------------------------------------------------------------------------
(* The handlers of the window that start, answer or leave a dialog. *)
LEMMA DialogSteps ==
  ASSUME IInv, NEW h \in Handlers, OnStart(h) \/ Answer(h) \/ StartDl(h)
  PROVE  IInv'
  <1> USE BoundAssumption DEF IInv
  <1>t. /\ UNCHANGED <<jobId, overlap, next, job, dlJob, kills, events, device>>
        /\ box' \subseteq {"error", "dl"} /\ jobKind' \in {"", "create", "download"}
        /\ dlJob' \in 0..next /\ kills' \subseteq 1..next
        /\ first \in Nodes \cup {None} /\ picked \in Nodes \cup {None}
        /\ shown \in {None, picked} /\ shown \in Nodes \cup {None}
    BY DEF OnStart, Answer, StartDl, TypeOK, Known, Honest, Started, backend, Handler
  <1>h. hnd \in [Handlers -> HandlerType] /\ hnd[h] \in HandlerType /\ Fair(hnd[h])
        /\ hnd[h].id \in 0..next
    BY DEF TypeOK, Honest, Known
  <1>1. \E r \in HandlerType : /\ hnd' = [hnd EXCEPT ![h] = r]
                               /\ \/ r = hnd[h]
                                  \/ /\ ~Starting(hnd[h]) /\ ~Starting(r)
                                     /\ r.id \in 0..next /\ Fair(r)
    <2>0. hnd = [hnd EXCEPT ![h] = hnd[h]]
      BY <1>h
    <2>1. CASE OnStart(h)
      <3>1. CASE UNCHANGED hnd
        BY <3>1, <2>0, <1>h
      <3>2. CASE \E d \in {"ask", "wue", "warn"} :
                   Handler(h, [Idle EXCEPT !.at = d, !.asked = (d # "warn"), !.dst = picked,
                                     !.named = IF d = "warn" THEN shown ELSE None])
        <4>1. PICK d \in {"ask", "wue", "warn"} :
                   Handler(h, [Idle EXCEPT !.at = d, !.asked = (d # "warn"), !.dst = picked,
                                     !.named = IF d = "warn" THEN shown ELSE None])
          BY <3>2
        <4> DEFINE r == [Idle EXCEPT !.at = d, !.asked = (d # "warn"), !.dst = picked,
                                     !.named = IF d = "warn" THEN shown ELSE None]
        <4>2. r \in HandlerType
          BY IdleIs DEF TypeOK, HandlerType
        <4>3. /\ r.at = d /\ r.asked = (d # "warn") /\ r.dst = picked /\ r.id = 0
              /\ r.consent = "named" /\ (d = "warn" => r.named = shown)
          BY IdleIs DEF HandlerType
        <4>4. Fair(r) /\ ~Starting(r) /\ r.id \in 0..next
          BY <4>3, <1>t, Numbers DEF Fair, Starting
        <4>5. ~Starting(hnd[h])
          BY <2>1 DEF OnStart, Starting
        <4>6. QED
          BY <4>1, <4>2, <4>4, <4>5 DEF Handler
      <3>3. QED
        BY <2>1, <3>1, <3>2 DEF OnStart
    <2>2. CASE Answer(h)
      <3>1. CASE UNCHANGED hnd
        BY <3>1, <2>0, <1>h
      <3>2. CASE Handler(h, Idle)
        BY <2>2, <3>2, IdleIs, Numbers DEF Handler, Answer, Starting
      <3>3. CASE Handler(h, [hnd[h] EXCEPT !.at = "warn", !.named = shown])
        <4> DEFINE r == [hnd[h] EXCEPT !.at = "warn", !.named = shown]
        <4>1. r \in HandlerType
          BY <1>h DEF TypeOK, HandlerType
        <4>2. r.at = "warn" /\ r.asked = TRUE /\ r.consent # "other" /\ r.id = hnd[h].id
          BY <1>h, <2>2 DEF HandlerType, Fair, Answer
        <4>3. Fair(r) /\ ~Starting(r) /\ ~Starting(hnd[h])
          BY <4>2, <2>2 DEF Fair, Starting, Answer
        <4>4. QED
          BY <3>3, <4>1, <4>2, <4>3, <1>h DEF Handler
      <3>4. QED
        BY <2>2, <3>1, <3>2, <3>3 DEF Answer
    <2>3. CASE StartDl(h)
      <3> DEFINE r == [Idle EXCEPT !.at = "invoke", !.kind = "download"]
      <3>1. r \in HandlerType /\ r.kind = "download" /\ r.at = "invoke" /\ r.id = 0
            /\ r.consent = "named"
        BY IdleIs DEF HandlerType
      <3>2. Fair(r) /\ ~Starting(r) /\ ~Starting(hnd[h]) /\ r.id \in 0..next
        BY <3>1, <2>3, Numbers DEF Fair, Starting, StartDl
      <3>3. QED
        BY <2>3, <3>1, <3>2 DEF StartDl, Handler
    <2>4. QED
      BY <2>1, <2>2, <2>3
  <1>2. PICK r \in HandlerType : /\ hnd' = [hnd EXCEPT ![h] = r]
                                 /\ \/ r = hnd[h]
                                    \/ /\ ~Starting(hnd[h]) /\ ~Starting(r)
                                       /\ r.id \in 0..next /\ Fair(r)
    BY <1>1
  <1>3. hnd' \in [Handlers -> HandlerType]
    BY <1>2, <1>h
  <1>4. \A g \in Handlers :
           \/ hnd'[g] = hnd[g]
           \/ /\ ~Starting(hnd[g]) /\ ~Starting(hnd'[g])
              /\ hnd'[g].id \in 0..next /\ Fair(hnd'[g])
    BY <1>2, <1>h
  <1>5. QED
    BY <1>3, <1>4, <1>t, Calm

(* The steps that touch neither handlers nor jobs. *)
LEMMA WindowSteps ==
  ASSUME IInv,
         \/ RefreshDevices \/ RefreshFails \/ SelectDevice
         \/ Cancel \/ OpenDownload \/ DownloadDone \/ DlCancel \/ Dismiss
  PROVE  IInv'
  <1> USE DEF IInv
  <1>t. /\ UNCHANGED <<jobId, overlap, next, job, dlJob, events, hnd, jobKind>>
        /\ box' \subseteq {"error", "dl"}
        /\ first' \in Nodes \cup {None} /\ picked' \in Nodes \cup {None}
        /\ shown' \in {None, picked'}
    BY DEF RefreshDevices, RefreshFails, SelectDevice, Honest, Cancel, OpenDownload, DownloadDone, DlCancel, Dismiss, TypeOK,
           backend
  <1>k. kills' \subseteq kills \cup ({jobId, dlJob} \ {0})
    BY DEF RefreshDevices, RefreshFails, SelectDevice, Cancel, OpenDownload, DownloadDone, DlCancel, Dismiss, backend
  <1>1. kills' \subseteq 1..next
    BY <1>k, Numbers DEF Known
  <1>2. QED
    BY <1>t, <1>1, Calm DEF TypeOK, Known

(* What happens to a job that was started. *)
LEMMA JobSteps ==
  ASSUME IInv, NEW i \in Ids,
         WaiterLocks(i) \/ WorkerEnds(i) \/ WaiterReaps(i) \/ KillJob(i)
  PROVE  IInv'
  <1> USE DEF IInv
  <1>t. /\ UNCHANGED <<device, jobId, jobKind, dlJob, hnd, overlap, next>>
        /\ i \in 1..next /\ box' \subseteq {"error", "dl"} /\ kills' \subseteq 1..next
        /\ job \in [1..next -> JobType] /\ job[i] \in JobType /\ events \subseteq 1..next
    BY DEF WaiterLocks, WorkerEnds, WaiterReaps, KillJob, TypeOK, Started
  <1>1. \E r \in JobType :
          /\ job' = [job EXCEPT ![i] = r]
          /\ r.kind = job[i].kind /\ r.consent = job[i].consent
          /\ r.state = "running" => job[i].state = "running"
          /\ r.wait = "over" => r.state # "running"
          /\ job[i].wait = "over" => r.wait = "over"
          /\ events' \subseteq events \cup {j \in {i} : r.wait = "over"}
    <2>1. CASE WaiterLocks(i)
      <3> DEFINE r == [job[i] EXCEPT !.wait = "locked"]
      <3>1. r \in JobType /\ r.kind = job[i].kind /\ r.consent = job[i].consent
            /\ r.state = job[i].state /\ r.wait = "locked"
        BY <1>t DEF JobType
      <3>2. job' = [job EXCEPT ![i] = r] /\ events' = events /\ job[i].wait # "over"
        BY <2>1 DEF WaiterLocks
      <3>3. QED
        BY <3>1, <3>2
    <2>2. CASE WorkerEnds(i)
      <3>1. PICK s \in {"failed", "succeeded"} : job' = [job EXCEPT ![i].state = s]
        BY <2>2 DEF WorkerEnds
      <3> DEFINE r == [job[i] EXCEPT !.state = s]
      <3>2. r \in JobType /\ r.kind = job[i].kind /\ r.consent = job[i].consent
            /\ r.state = s /\ r.wait = job[i].wait
        BY <1>t DEF JobType
      <3>3. job' = [job EXCEPT ![i] = r] /\ events' = events
        BY <2>2, <3>1 DEF WorkerEnds
      <3>4. QED
        BY <3>2, <3>3
    <2>3. CASE WaiterReaps(i)
      <3> DEFINE r == [job[i] EXCEPT !.wait = "over"]
      <3>1. r \in JobType /\ r.kind = job[i].kind /\ r.consent = job[i].consent
            /\ r.state = job[i].state /\ r.wait = "over"
        BY <1>t DEF JobType
      <3>2. job' = [job EXCEPT ![i] = r] /\ events' = events \cup {i} /\ r.state # "running"
        BY <2>3, <3>1 DEF WaiterReaps, Running
      <3>3. QED
        BY <3>1, <3>2
    <2>4. CASE KillJob(i)
      <3>1. CASE UNCHANGED job
        <4>1. job' = [job EXCEPT ![i] = job[i]] /\ events' = events
          BY <3>1, <1>t, <2>4 DEF KillJob
        <4>2. QED
          BY <4>1, <1>t DEF Settled
      <3>2. CASE job' = [job EXCEPT ![i].state = IF Running(i) THEN "failed" ELSE @]
        <4> DEFINE r == [job[i] EXCEPT !.state = IF Running(i) THEN "failed" ELSE @]
        <4>1. r \in JobType /\ r.kind = job[i].kind /\ r.consent = job[i].consent
              /\ r.state # "running" /\ r.wait = job[i].wait
          BY <1>t DEF JobType, Running
        <4>2. job' = [job EXCEPT ![i] = r] /\ events' = events
          BY <2>4, <3>2 DEF KillJob
        <4>3. QED
          BY <4>1, <4>2
      <3>3. QED
        BY <2>4, <3>1, <3>2 DEF KillJob
    <2>5. QED
      BY <2>1, <2>2, <2>3, <2>4
  <1>2. PICK r \in JobType :
          /\ job' = [job EXCEPT ![i] = r]
          /\ r.kind = job[i].kind /\ r.consent = job[i].consent
          /\ r.state = "running" => job[i].state = "running"
          /\ r.wait = "over" => r.state # "running"
          /\ job[i].wait = "over" => r.wait = "over"
          /\ events' \subseteq events \cup {j \in {i} : r.wait = "over"}
    BY <1>1
  <1>3. job' \in [1..next -> JobType] /\ events' \subseteq 1..next
    BY <1>2, <1>t
  <1>4. /\ \A j \in 1..next :
             /\ job'[j].kind = job[j].kind /\ job'[j].consent = job[j].consent
             /\ job'[j].state = "running" => job[j].state = "running"
             /\ job'[j].wait = "over" => job'[j].state # "running"
        /\ \A j \in events' : job'[j].wait = "over"
    BY <1>2, <1>t DEF Settled
  <1>5. QED
    BY <1>t, <1>3, <1>4, Works

(* The warning is answered. *)
LEMMA ConfirmStep ==
  ASSUME IInv, NEW h \in Handlers, Confirm(h)
  PROVE  IInv'
  <1> USE DEF IInv
  <1>t. /\ UNCHANGED <<device, box, jobId, dlJob, next, job, kills, events>>
        /\ hnd \in [Handlers -> HandlerType] /\ hnd[h] \in HandlerType
        /\ hnd[h].at = "warn" /\ Fair(hnd[h]) /\ ~Starting(hnd[h])
    BY DEF Confirm, TypeOK, Honest, backend, Starting
  <1>1. CASE Handler(h, Idle) /\ UNCHANGED <<jobKind, overlap>>
    <2>1. \A g \in Handlers : hnd'[g] = hnd[g] \/ (hnd'[g] = Idle /\ ~Starting(hnd[g]))
      BY <1>1, <1>t DEF Handler
    <2>2. hnd' \in [Handlers -> HandlerType]
      BY <1>1, <1>t, IdleIs DEF Handler
    <2>3. QED
      BY <1>1, <1>t, <2>1, <2>2, IdleIs, Numbers, Calm DEF TypeOK, Known, Honest
  <1>2. CASE /\ Handler(h, Invoked(hnd[h]))
             /\ jobKind' = "create"
             /\ overlap' = (overlap \/ jobId # 0
                             \/ \E g \in Handlers : /\ hnd[g].kind = "create"
                                                    /\ hnd[g].at \in {"invoke", "reply"})
    <2> DEFINE r == Invoked(hnd[h])
    <2>1. /\ r \in HandlerType /\ r.kind = "create" /\ r.at = "invoke" /\ r.id = 0
          /\ r.consent \in {"named", "excepted"}
      BY <1>t, IdleIs DEF Invoked, ConsentOf, Fair, HandlerType, Consents
    <2>2. Fair(r)
      BY <2>1, <1>t DEF Fair
    <2>3. hnd' = [hnd EXCEPT ![h] = r]
      BY <1>2 DEF Handler
    <2>o. /\ overlap' \in BOOLEAN
          /\ ~overlap' => ~overlap /\ jobId = 0 /\ \A g \in Handlers : ~Starting(hnd[g])
      BY <1>2 DEF Starting
    <2> HIDE DEF r
    <2>4. TypeOK'
      <3>1. hnd' \in [Handlers -> HandlerType]
        BY <2>1, <2>3, <1>t
      <3>2. QED
        BY <3>1, <2>o, <1>2, <1>t DEF TypeOK, Started
    <2>5. Known'
      BY <2>1, <2>3, <1>t, Numbers DEF Known
    <2>6. Settled'
      BY <1>t DEF Settled
    <2>7. Honest'
      BY <2>2, <2>3, <1>t DEF Honest
    <2>8. Accounted'
      BY <2>3, <2>o, <1>t DEF Accounted
    <2>9. Single'
      <3>1. SUFFICES ASSUME ~overlap' PROVE \A g \in Handlers : Starting(hnd'[g]) => g = h
        BY <2>o, <1>t DEF Single
      <3>2. QED
        BY <3>1, <2>3, <2>o, <1>t
    <2>10. QED
      BY <2>4, <2>5, <2>6, <2>7, <2>8, <2>9
  <1>3. QED
    BY <1>1, <1>2 DEF Confirm

(* The backend starts the worker, or fails to. *)
LEMMA SpawnStep ==
  ASSUME IInv, NEW h \in Handlers, Spawn(h)
  PROVE  IInv'
  <1> USE DEF IInv
  <1>t. /\ UNCHANGED <<device, box, jobId, jobKind, dlJob, overlap, kills, events>>
        /\ hnd \in [Handlers -> HandlerType] /\ hnd[h] \in HandlerType
        /\ hnd[h].at = "invoke" /\ Fair(hnd[h]) /\ hnd[h].consent # "other"
        /\ next \in Nat /\ 0 \in 0..next /\ 0..next \subseteq 0..MaxJobs
        /\ DOMAIN job = 1..next
        /\ kills \subseteq 1..next /\ events \subseteq 1..next
        /\ job \in [1..next -> JobType]
    BY Numbers DEF Spawn, TypeOK, Honest, Fair
  <1>1. CASE /\ Handler(h, [hnd[h] EXCEPT !.at = "reply", !.id = 0])
             /\ UNCHANGED <<next, job>>
    <2> DEFINE r == [hnd[h] EXCEPT !.at = "reply", !.id = 0]
    <2>1. /\ r \in HandlerType /\ r.kind = hnd[h].kind /\ r.at = "reply" /\ r.id = 0
          /\ r.consent # "other"
      BY <1>t, BoundAssumption DEF HandlerType
    <2>2. Fair(r) /\ (Starting(r) <=> Starting(hnd[h]))
      BY <2>1, <1>t DEF Fair, Starting
    <2>3. hnd' = [hnd EXCEPT ![h] = r]
      BY <1>1 DEF Handler
    <2> HIDE DEF r
    <2>4. TypeOK'
      <3>1. hnd' \in [Handlers -> HandlerType]
        BY <2>1, <2>3, <1>t
      <3>2. QED
        BY <3>1, <1>1, <1>t DEF TypeOK, Started
    <2>5. Known'
      BY <2>1, <2>3, <1>1, <1>t DEF Known
    <2>6. Settled'
      BY <1>1, <1>t DEF Settled
    <2>7. Honest'
      BY <2>2, <2>3, <1>1, <1>t DEF Honest
    <2>8. Accounted'
      <3>1. SUFFICES ASSUME ~overlap, NEW i \in 1..next, jobId # i,
                            job[i].kind = "create", job[i].state = "running"
                     PROVE  \E g \in Handlers : /\ Starting(hnd'[g])
                                                /\ hnd'[g].at = "reply" /\ hnd'[g].id = i
        BY <1>1, <1>t DEF Accounted
      <3>2. PICK g \in Handlers : Starting(hnd[g]) /\ hnd[g].at = "reply" /\ hnd[g].id = i
        BY <3>1 DEF Accounted
      <3>3. g # h /\ hnd'[g] = hnd[g]
        BY <3>2, <2>3, <1>t
      <3>4. QED
        BY <3>2, <3>3
    <2>9. Single'
      BY <2>2, <2>3, <1>1, <1>t DEF Single
    <2>10. QED
      BY <2>4, <2>5, <2>6, <2>7, <2>8, <2>9
  <1>2. CASE /\ next < MaxJobs
             /\ next' = next + 1
             /\ Handler(h, [hnd[h] EXCEPT !.at = "reply", !.id = next'])
             /\ job' = [i \in Started \cup {next'} |->
                          IF i \in Started THEN job[i]
                          ELSE [kind |-> hnd[h].kind, consent |-> hnd[h].consent,
                                state |-> "running", wait |-> "new"]]
    <2> DEFINE r == [hnd[h] EXCEPT !.at = "reply", !.id = next']
               j == [kind |-> hnd[h].kind, consent |-> hnd[h].consent,
                     state |-> "running", wait |-> "new"]
    <2>n. /\ next' \in 0..MaxJobs /\ next' \in 1..next' /\ 1..next' = 1..next \cup {next'}
          /\ next' \notin 1..next /\ 0..next \subseteq 0..next'
      BY <1>2, <1>t, BoundAssumption
    <2>1. /\ r \in HandlerType /\ r.kind = hnd[h].kind /\ r.at = "reply" /\ r.id = next'
          /\ r.consent # "other"
      BY <1>t, <2>n DEF HandlerType
    <2>2. Fair(r) /\ (Starting(r) <=> Starting(hnd[h]))
      BY <2>1, <1>t DEF Fair, Starting
    <2>3. hnd' = [hnd EXCEPT ![h] = r]
      BY <1>2 DEF Handler
    <2>j. /\ j \in JobType /\ j.kind = hnd[h].kind /\ j.consent # "other"
          /\ j.state = "running" /\ j.wait = "new"
      BY <1>t DEF JobType, HandlerType
    <2> HIDE DEF r, j
    <2>k. /\ job' \in [1..next' -> JobType] /\ job'[next'] = j
          /\ \A i \in 1..next : job'[i] = job[i]
      BY <1>2, <1>t, <2>n, <2>j DEF Started, j
    <2>4. TypeOK'
      <3>1. hnd' \in [Handlers -> HandlerType]
        BY <2>1, <2>3, <1>t
      <3>2. kills' \subseteq DOMAIN job' /\ events' \subseteq DOMAIN job'
        BY <2>k, <2>n, <1>t
      <3>3. QED
        BY <3>1, <3>2, <2>n, <2>k, <1>t DEF TypeOK, Started
    <2>5. Known'
      BY <2>1, <2>3, <2>n, <1>t DEF Known
    <2>6. Settled'
      BY <2>k, <2>j, <2>n, <1>t DEF Settled
    <2>7. Honest'
      BY <2>2, <2>3, <2>k, <2>j, <2>n, <1>t DEF Honest
    <2>8. Accounted'
      <3>1. SUFFICES ASSUME ~overlap, NEW i \in 1..next', jobId # i,
                            job'[i].kind = "create", job'[i].state = "running"
                     PROVE  \E g \in Handlers : /\ Starting(hnd'[g])
                                                /\ hnd'[g].at = "reply" /\ hnd'[g].id = i
        BY <1>t DEF Accounted
      <3>2. CASE i \in 1..next
        <4>1. PICK g \in Handlers : Starting(hnd[g]) /\ hnd[g].at = "reply" /\ hnd[g].id = i
          BY <3>1, <3>2, <2>k DEF Accounted
        <4>2. g # h /\ hnd'[g] = hnd[g]
          BY <4>1, <2>3, <1>t
        <4>3. QED
          BY <4>1, <4>2
      <3>3. CASE i = next'
        <4>1. hnd'[h] = r /\ Starting(r)
          BY <3>1, <3>3, <2>1, <2>3, <2>k, <2>j, <1>t DEF Starting
        <4>2. QED
          BY <4>1, <3>3, <2>1
      <3>4. QED
        BY <3>2, <3>3, <2>n
    <2>9. Single'
      BY <2>2, <2>3, <1>t DEF Single
    <2>10. QED
      BY <2>4, <2>5, <2>6, <2>7, <2>8, <2>9
  <1>3. QED
    BY <1>1, <1>2 DEF Spawn

(* A message box replaces what other handlers wait for, not what they have  *)
(* confirmed.                                                               *)
LEMMA AbandonedIs ==
  ASSUME IInv
  PROVE  /\ Abandoned \in [Handlers -> HandlerType]
         /\ \A g \in Handlers : \/ Abandoned[g] = hnd[g]
                                \/ Abandoned[g] = Idle /\ ~Starting(hnd[g])
  BY IdleIs DEF Abandoned, IInv, TypeOK, Starting

(* The run the window shows is over: no other one is being started. *)
LEMMA RunEnds ==
  ASSUME IInv, jobId \in events, jobId' = 0,
         box' \subseteq {"error", "dl"}, events' \subseteq events,
         hnd' \in [Handlers -> HandlerType],
         \A g \in Handlers : \/ hnd'[g] = hnd[g]
                             \/ hnd'[g] = Idle /\ ~Starting(hnd[g]),
         UNCHANGED <<device, dlJob, jobKind, overlap, next, job, kills>>
  PROVE  IInv'
  <1> USE DEF IInv
  <1>1. TypeOK'
    BY Numbers DEF TypeOK, Started
  <1>2. Known'
    BY Numbers, IdleIs DEF Known
  <1>3. Settled'
    BY DEF Settled
  <1>4. Honest'
    BY IdleIs DEF Honest
  <1>5. Accounted'
    <2>1. SUFFICES ASSUME ~overlap, NEW i \in 1..next,
                          job[i].kind = "create", job[i].state = "running"
                   PROVE  \E h \in Handlers : /\ Starting(hnd'[h]) /\ hnd'[h].at = "reply"
                                              /\ hnd'[h].id = i
      BY DEF Accounted
    <2>2. i # jobId
      BY <2>1 DEF Settled
    <2>3. PICK h \in Handlers : Starting(hnd[h]) /\ hnd[h].at = "reply" /\ hnd[h].id = i
      BY <2>1, <2>2 DEF Accounted
    <2>4. QED
      BY <2>3
  <1>6. Single'
    BY IdleIs DEF Single
  <1>7. QED
    BY <1>1, <1>2, <1>3, <1>4, <1>5, <1>6

(* job-exit arrives. *)
LEMMA ExitStep ==
  ASSUME IInv, NEW i \in Ids, JobExit(i)
  PROVE  IInv'
  <1> USE DEF IInv
  <1>t. /\ UNCHANGED <<device, overlap, next, job, kills>>
        /\ i \in events /\ events' \subseteq events
        /\ first \in Nodes \cup {None} /\ picked \in Nodes \cup {None}
        /\ shown \in {None, picked} /\ box \subseteq {"error", "dl"}
        /\ jobKind \in {"", "create", "download"} /\ kills \subseteq 1..next
        /\ hnd \in [Handlers -> HandlerType] /\ dlJob \in 0..next /\ 0 \in 0..next
    BY Numbers DEF JobExit, TypeOK, Known, Honest
  <1>1. CASE ExitOfRun(i) /\ jobId' = 0
    <2>1. /\ jobId = i /\ UNCHANGED <<dlJob, jobKind>>
          /\ box' \subseteq {"error", "dl"} /\ (hnd' = hnd \/ hnd' = Abandoned)
      BY <1>1, <1>t DEF JobExit, ExitOfRun
    <2>2. /\ hnd' \in [Handlers -> HandlerType]
          /\ \A g \in Handlers : \/ hnd'[g] = hnd[g]
                                 \/ hnd'[g] = Idle /\ ~Starting(hnd[g])
      BY <2>1, <1>t, AbandonedIs
    <2>3. QED
      BY <1>1, <1>t, <2>1, <2>2, RunEnds
  <1>2. CASE UNCHANGED <<jobId, box, hnd>> /\ dlJob' \in {0, dlJob} /\ jobKind' \in {"", jobKind}
    BY <1>2, <1>t, Calm
  <1>3. QED
    BY <1>1, <1>2 DEF JobExit

(* The reply of the backend arrives. *)
LEMMA ReplyStep ==
  ASSUME IInv, NEW h \in Handlers, Reply(h)
  PROVE  IInv'
  <1> USE DEF IInv
  <1>t. /\ UNCHANGED <<device, overlap, next, job, kills, events>>
        /\ first \in Nodes \cup {None} /\ picked \in Nodes \cup {None}
        /\ shown \in {None, picked} /\ box \subseteq {"error", "dl"}
        /\ jobKind \in {"", "create", "download"} /\ kills \subseteq 1..next
        /\ hnd \in [Handlers -> HandlerType] /\ dlJob \in 0..next /\ 0 \in 0..next
        /\ hnd[h].id \in 0..next /\ hnd[h] \in HandlerType /\ hnd[h].at = "reply"
    BY Numbers DEF Reply, TypeOK, Known, Honest, backend
  <1>1. CASE hnd[h].kind # "create"
    <2>1. /\ hnd' = [hnd EXCEPT ![h] = Idle] /\ UNCHANGED <<jobId, box>>
          /\ dlJob' \in 0..next /\ jobKind' \in {"", "create", "download"}
      BY <1>1, <1>t DEF Reply, Handler
    <2>2. ~Starting(hnd[h])
      BY <1>1 DEF Starting
    <2>3. hnd' \in [Handlers -> HandlerType]
      BY <1>t, <2>1, IdleIs
    <2>4. \A g \in Handlers :
           \/ hnd'[g] = hnd[g]
           \/ /\ ~Starting(hnd[g]) /\ ~Starting(hnd'[g])
              /\ hnd'[g].id \in 0..next /\ Fair(hnd'[g])
      BY <1>t, <2>1, <2>2, IdleIs
    <2>5. QED
      BY <1>t, <2>1, <2>3, <2>4, Calm
  <1>2. CASE hnd[h].kind = "create"
    <2>s. Starting(hnd[h])
      BY <1>t, <1>2 DEF Starting
    <2>1. /\ box' \subseteq {"error", "dl"} /\ jobKind' \in {"", "create", "download"}
          /\ dlJob' = dlJob
          /\ jobId' = IF hnd[h].id # 0 THEN hnd[h].id ELSE jobId
          /\ hnd' = [hnd EXCEPT ![h] = Idle] \/ hnd' = [Abandoned EXCEPT ![h] = Idle]
      BY <1>2, <1>t DEF Reply, Handler
    <2>2. /\ hnd' \in [Handlers -> HandlerType] /\ hnd'[h] = Idle
          /\ \A g \in Handlers : \/ hnd'[g] = hnd[g]
                                 \/ hnd'[g] = Idle /\ (g = h \/ ~Starting(hnd[g]))
      BY <2>1, <1>t, AbandonedIs, IdleIs
    <2>j. jobId' \in 0..next
      BY <2>1, <1>t DEF Known
    <2>3. TypeOK'
      BY <2>1, <2>2, <2>j, <1>t, Numbers DEF TypeOK, Started
    <2>4. Known'
      BY <2>1, <2>2, <2>j, <1>t, IdleIs DEF Known
    <2>5. Settled'
      BY <1>t DEF Settled
    <2>6. Honest'
      BY <2>2, <1>t, IdleIs DEF Honest
    <2>7. Accounted'
      <3>1. SUFFICES ASSUME ~overlap, NEW i \in 1..next, jobId' # i,
                            job[i].kind = "create", job[i].state = "running"
                     PROVE  FALSE
        BY <1>t DEF Accounted
      <3>0. i # 0
        OBVIOUS
      <3>2. jobId = 0
        BY <3>1, <2>s DEF Single
      <3>3. PICK g \in Handlers : Starting(hnd[g]) /\ hnd[g].at = "reply" /\ hnd[g].id = i
        BY <3>1, <3>2 DEF Accounted
      <3>4. g = h
        BY <3>1, <3>3, <2>s DEF Single
      <3>5. QED
        BY <3>1, <3>3, <3>4, <2>1, <3>0
    <2>8. Single'
      <3>1. SUFFICES ASSUME ~overlap, NEW g \in Handlers PROVE ~Starting(hnd'[g])
        BY <1>t DEF Single
      <3>2. QED
        BY <3>1, <2>s, <2>2, IdleIs DEF Single
    <2>9. QED
      BY <2>3, <2>4, <2>5, <2>6, <2>7, <2>8
  <1>3. QED
    BY <1>1, <1>2

-----------------------------------------------------------------------------
(* The invariant holds at first and every step keeps it. *)
LEMMA Inductive ==
  /\ Init => IInv
  /\ IInv /\ [Next]_vars => IInv'
  <1>1. ASSUME Init PROVE IInv
    <2>i. next = 0
      BY <1>1 DEF Init
    <2>0. next = 0 /\ 1..next = {} /\ 0 \in 0..next /\ 0 \in 0..MaxJobs
      BY <2>i, BoundAssumption
    <2>1. /\ hnd \in [Handlers -> HandlerType] /\ \A h \in Handlers : hnd[h] = Idle
          /\ job \in [1..next -> JobType] /\ events = {} /\ kills = {}
      BY <1>1, <2>0, IdleIs DEF Init
    <2>2. TypeOK
      BY <1>1, <2>0, <2>1 DEF Init, TypeOK
    <2>3. Known /\ Settled /\ Honest /\ Accounted /\ Single
      BY <1>1, <2>0, <2>1, IdleIs DEF Init, Known, Settled, Honest, Accounted, Single
    <2>4. QED
      BY <2>2, <2>3 DEF IInv
  <1>2. ASSUME IInv, [Next]_vars PROVE IInv'
    <2>1. CASE UNCHANGED vars
      BY <1>2, <2>1, Numbers, Calm DEF vars, IInv, TypeOK, Known, Honest
    <2>2. CASE Next
      BY <1>2, <2>2, DialogSteps, WindowSteps, JobSteps, ConfirmStep, SpawnStep, ExitStep,
         ReplyStep DEF Next, User, Backend, Deliver
    <2>3. QED
      BY <1>2, <2>1, <2>2
  <1>3. QED
    BY <1>1, <1>2

(* The inductive invariant, for any number of nodes, handlers and jobs. *)
THEOREM Invariance == Spec => []IInv
  BY Inductive, PTL DEF Spec

(* Job numbers, handlers and jobs keep their types, whatever arrives when   *)
(* (main.js:343-571, main.rs:120-170).                                      *)
THEOREM TypeCorrect == Spec => []TypeOK
  <1>1. IInv => TypeOK
    BY DEF IInv
  <1>2. QED
    BY <1>1, Invariance, PTL

(* The window shows every worker that writes, or is about to hear of it,    *)
(* however many handlers were pending (main.js:343-357, 457-476, 509-571).  *)
THEOREM WorkerKnownAlways == Spec => []WorkerKnown
  <1>1. IInv => WorkerKnown
    BY Numbers DEF IInv, WorkerKnown, Accounted, Starting, Started, Running
  <1>2. QED
    BY <1>1, Invariance, PTL

(* No worker writes to a device other than the one its warning named, but   *)
(* after a dialog before the warning or an error in the box (main.js:301,   *)
(* 515, 540-544).                                                           *)
THEOREM ConsentedAlways == Spec => []Consented
  <1>1. IInv => Consented
    BY Numbers DEF IInv, Honest, Consented, Started
  <1>2. QED
    BY <1>1, Invariance, PTL

(* The window leaves a run only when its very worker was waited for         *)
(* (main.js:457-461, main.rs:161-168).                                      *)
THEOREM ReadyOnlyAfterExit == Spec => ReadyAfterExit
  <1>1. ASSUME IInv, Next, jobId # 0, jobId' = 0
        PROVE  job[jobId].wait = "over" /\ ~Running(jobId)
    <2>1. jobId \in events
      BY <1>1 DEF Next, User, Backend, Deliver, RefreshDevices, RefreshFails, SelectDevice, OnStart, Answer, Confirm,
         Cancel, OpenDownload, StartDl, DownloadDone, DlCancel, Dismiss, Spawn, WaiterLocks,
         WorkerEnds, WaiterReaps, KillJob, Reply, JobExit, ExitOfRun
    <2>2. QED
      BY <1>1, <2>1, Numbers DEF IInv, Settled, Running
  <1>2. IInv /\ [Next]_vars =>
          [(jobId # 0 /\ jobId' = 0) => (job[jobId].wait = "over" /\ ~Running(jobId))]_vars
    BY <1>1 DEF vars
  <1>3. QED
    BY <1>2, Invariance, PTL DEF Spec, ReadyAfterExit
=============================================================================
