-------------------------------- MODULE Mount --------------------------------
(* The life of a mounted volume of the macOS port: "rufux mount" and "rufux  *)
(* umount" (macos/src/mount.c) as processes that run beside each other, the  *)
(* rufux-mountd daemons they start and end (main of macos/src/mountd_nfs.c), *)
(* the exclusive lock on the device, the kernel's NFS mounts and the state   *)
(* files by which a later command finds an earlier one's daemon.             *)
(*                                                                           *)
(* All commands are about one NTFS or ext volume.  A mount directory stands  *)
(* for itself and for the state file named after it.  Left out: volumes that *)
(* macOS mounts itself (diskutil, hdiutil), the pid files (nothing reads     *)
(* them), the reuse of a pid by another program.                             *)
EXTENDS Naturals, FiniteSets

CONSTANTS
    MaxClients,     \* bound: commands that run at the same time
    MaxPid,         \* bound: daemons started, each with a pid of its own
    MaxSuffix,      \* last suffix make_unique_mount_dir tries: 999
    IsDev,          \* TRUE: a device, whose launch is tried twice; FALSE: an image
    MaxCommands,    \* bound: commands run
    MaxEvents       \* bound: ejects, crashes, killed commands, failed state files

ASSUME MountAssumption ==
    /\ MaxClients \in Nat /\ MaxPid \in Nat /\ MaxSuffix \in Nat
    /\ IsDev \in BOOLEAN
    /\ MaxCommands \in Nat /\ MaxEvents \in Nat

Clients == 1 .. MaxClients
Daemons == 1 .. MaxPid
None == 0
Dirs == 1 .. MaxSuffix + 1      \* the directory of suffix n is n + 1

VARIABLES
    client,     \* [Clients -> ClientType], see below
    daemon,     \* [Daemons -> [phase, stop]]; stop: SIGTERM was received (g_stop)
    lock,       \* the daemon that holds the device lock, or None
    mount,      \* [Dirs -> Daemons \cup {None}]: the daemon behind the NFS mount
    dirs,       \* the mount directories that exist
    state,      \* [Dirs -> Daemons \cup {None}]: the pid in the state file
    dirty,      \* daemons with changes that are not on the device
    unclean,    \* history: daemons that SIGKILL, a crash or a failed flush ended
    stray,      \* history: a command died, or could not write a state file
    overlap,    \* history: two commands ran at the same time
    commands,   \* commands started
    events      \* events so far

vars == <<client, daemon, lock, mount, dirs, state, dirty, unclean, stray,
          overlap, commands, events>>

world == <<daemon, lock, mount, dirs, state, dirty, unclean, stray>>
bounds == <<overlap, commands, events>>

Steps == {"idle", "look", "exist", "force", "term", "wait", "killed", "rmdir",
          "unstate", "mkdir", "fork", "ready", "stderr", "nfs", "write", "ulook",
          "unmount"}

\* What a command remembers: MountState and the locals of rufux_mount.
ClientType ==
    [pc : Steps, cmd : {"mount", "umount"}, res : {"none", "ok", "err", "died"},
     dir : Dirs \cup {None}, pid : Daemons \cup {None}, tries : 0 .. 2]

Phases == {"none", "start", "open", "opened", "serve", "dying", "gone"}

Init ==
    /\ client = [c \in Clients |-> [pc |-> "idle", cmd |-> "mount", res |-> "none",
                                    dir |-> None, pid |-> None, tries |-> 0]]
    /\ daemon = [d \in Daemons |-> [phase |-> "none", stop |-> FALSE]]
    /\ lock = None
    /\ mount = [m \in Dirs |-> None]
    /\ dirs = {}
    /\ state = [m \in Dirs |-> None]
    /\ dirty = {} /\ unclean = {}
    /\ stray = FALSE /\ overlap = FALSE
    /\ commands = 0 /\ events = 0

-----------------------------------------------------------------------------
(* Helpers *)

\* pid_is_alive
Alive(d) == d # None /\ daemon[d].phase \notin {"none", "gone"}

Go(c, pc) == client' = [client EXCEPT ![c].pc = pc]

Return(c, r) ==
    client' = [client EXCEPT ![c].pc = "idle", ![c].res = r,
                             ![c].dir = None, ![c].tries = 0]

\* The process ends: its descriptors are closed, its lock goes.
Ends(d) ==
    /\ daemon' = [daemon EXCEPT ![d].phase = "gone"]
    /\ lock' = IF lock = d THEN None ELSE lock

AfterEnd_retries(c) == IF client[c].tries >= 1 /\ IsDev THEN "fork" ELSE "rmdir"

\* Where a command goes on once it is through with a daemon: to the files of
\* the state it cleans up, or after a failed launch to the second launch of a
\* device, or to the removal of the directory it made.
AfterEnd(c) == IF client[c].tries = 1 /\ IsDev THEN "fork" ELSE "rmdir"

-----------------------------------------------------------------------------
(* rufux-mountd *)

\* The first lock, before the volume is opened.
Lock(d) ==
    /\ daemon[d].phase = "start"
    /\ IF lock = None
       THEN /\ lock' = d
            /\ daemon' = [daemon EXCEPT ![d].phase = "open"]
       ELSE Ends(d)
    /\ UNCHANGED <<client, mount, dirs, state, dirty, unclean, stray, bounds>>

\* ntfs_mount or ext2fs_open.  The lock belongs to the process and the file:
\* an attempt that fails and closes its descriptor gives it up.
OpenVolume(d) ==
    /\ daemon[d].phase = "open"
    /\ \/ /\ lock' \in {d, None}
          /\ daemon' = [daemon EXCEPT ![d].phase = "opened"]
       \/ Ends(d)
    /\ UNCHANGED <<client, mount, dirs, state, dirty, unclean, stray, bounds>>

Relock_never(d) ==
    /\ daemon[d].phase = "opened"
    /\ daemon' = [daemon EXCEPT ![d].phase = "serve"]
    /\ UNCHANGED <<client, lock, mount, dirs, state, dirty, unclean, stray, bounds>>

\* The second lock: "lost exclusive lock" when another daemon has it now.
\* Then bind, write the pid file, report the port.
Relock(d) ==
    /\ daemon[d].phase = "opened"
    /\ \/ /\ lock \in {None, d}
          /\ lock' = d
          /\ daemon' = [daemon EXCEPT ![d].phase = "serve"]
       \/ Ends(d)
    /\ UNCHANGED <<client, mount, dirs, state, dirty, unclean, stray, bounds>>

\* A request that changes the volume; it is answered before it is on the device.
Serve(d) ==
    /\ daemon[d].phase = "serve" /\ ~daemon[d].stop /\ d \notin dirty
    /\ \E m \in Dirs : mount[m] = d
    /\ dirty' = dirty \cup {d}
    /\ UNCHANGED <<client, daemon, lock, mount, dirs, state, unclean, stray, bounds>>

\* The loop sees g_stop: write everything, close the volume, exit.  A write
\* that fails shows in the exit status only, which nobody reads.
Stop(d) ==
    /\ daemon[d].phase = "serve" /\ daemon[d].stop
    /\ Ends(d)
    /\ \/ dirty' = dirty \ {d} /\ UNCHANGED unclean
       \/ d \in dirty /\ unclean' = unclean \cup {d} /\ UNCHANGED dirty
    /\ UNCHANGED <<client, mount, dirs, state, stray, bounds>>

\* A process that was sent SIGKILL ends when the kernel gets to it.
Die(d) ==
    /\ daemon[d].phase = "dying"
    /\ Ends(d)
    /\ UNCHANGED <<client, mount, dirs, state, dirty, unclean, stray, bounds>>

-----------------------------------------------------------------------------
(* Both commands: how they begin, and how they end a daemon *)

\* Commands are alike, so a new one takes the first free number.
Begin(c, cmd, pc) ==
    /\ client[c].pc = "idle" /\ commands < MaxCommands
    /\ \A k \in Clients : client[k].pc = "idle" => c <= k
    /\ client' = [client EXCEPT ![c] = [pc |-> pc, cmd |-> cmd, res |-> "none",
                                        dir |-> None, pid |-> None, tries |-> 0]]
    /\ commands' = commands + 1
    /\ overlap' = (overlap \/ \E o \in Clients \ {c} : client[o].pc # "idle")
    /\ UNCHANGED <<world, events>>

BeginMount(c) == Begin(c, "mount", "look")

BeginUmount(c) == Begin(c, "umount", "ulook")

\* terminate_and_wait_pid: SIGTERM, unless the process is gone.
Terminate(c) ==
    /\ client[c].pc = "term"
    /\ IF Alive(client[c].pid)
       THEN /\ daemon' = [daemon EXCEPT ![client[c].pid].stop = TRUE]
            /\ Go(c, "wait")
       ELSE Go(c, AfterEnd(c)) /\ UNCHANGED daemon
    /\ UNCHANGED <<lock, mount, dirs, state, dirty, unclean, stray, bounds>>

Ended(c) ==
    /\ client[c].pc = "wait" /\ ~Alive(client[c].pid)
    /\ Go(c, AfterEnd(c))
    /\ UNCHANGED <<world, bounds>>

Timeout_no_kill(c) ==
    /\ client[c].pc = "wait" /\ Alive(client[c].pid)
    /\ Go(c, AfterEnd(c))
    /\ UNCHANGED <<world, bounds>>

Timeout_waits(c) ==
    /\ client[c].pc = "wait" /\ Alive(client[c].pid)
    /\ UNCHANGED vars

\* The time is up: SIGKILL, and 20 ms for it to work.
Timeout(c) ==
    /\ client[c].pc = "wait" /\ Alive(client[c].pid)
    /\ daemon' = [daemon EXCEPT ![client[c].pid].phase = "dying"]
    /\ unclean' = unclean \cup {client[c].pid}
    /\ Go(c, "killed")
    /\ UNCHANGED <<lock, mount, dirs, state, dirty, stray, bounds>>

\* The daemon of a state file must be gone now; a launch that failed does
\* not look.
AfterKill(c) ==
    /\ client[c].pc = "killed"
    /\ IF Alive(client[c].pid) /\ client[c].tries = 0
       THEN Return(c, "err")
       ELSE Go(c, AfterEnd(c))
    /\ UNCHANGED <<world, bounds>>

\* rmdir_with_retry: a directory in use stays.  It ends a launch that failed.
RmDir(c) ==
    /\ client[c].pc = "rmdir"
    /\ dirs' = IF mount[client[c].dir] = None THEN dirs \ {client[c].dir} ELSE dirs
    /\ IF client[c].tries = 0 THEN Go(c, "unstate") ELSE Return(c, "err")
    /\ UNCHANGED <<daemon, lock, mount, state, dirty, unclean, stray, bounds>>

\* Unlink the state file, by its name.  rufux_mount looks for the next one,
\* or goes on when the file was gone already.
UnlinkState(c) ==
    /\ client[c].pc = "unstate"
    /\ state' = [state EXCEPT ![client[c].dir] = None]
    /\ IF client[c].cmd = "umount" THEN Return(c, "ok")
       ELSE Go(c, IF state[client[c].dir] # None THEN "look" ELSE "mkdir")
    /\ UNCHANGED <<daemon, lock, mount, dirs, dirty, unclean, stray, bounds>>

-----------------------------------------------------------------------------
(* rufux mount *)

\* find_matching_state
Look(c) ==
    /\ client[c].pc = "look"
    /\ IF \A m \in Dirs : state[m] = None
       THEN Go(c, "mkdir")
       ELSE \E m \in Dirs :
              /\ state[m] # None
              /\ client' = [client EXCEPT ![c].pc = "exist", ![c].dir = m,
                                          ![c].pid = state[m]]
    /\ UNCHANGED <<world, bounds>>

\* A volume that is mounted and served is the answer; a mount without its
\* daemon is forced off; a daemon without its mount is ended.
Exist(c) ==
    LET mounted == mount[client[c].dir] # None
    IN  /\ client[c].pc = "exist"
        /\ IF mounted /\ Alive(client[c].pid) THEN Return(c, "ok")
           ELSE Go(c, IF mounted THEN "force" ELSE "term")
        /\ UNCHANGED <<world, bounds>>

\* umount -f, and is_mountpoint_active again.
ForceOff(c) ==
    /\ client[c].pc = "force"
    /\ \/ /\ mount' = [mount EXCEPT ![client[c].dir] = None]
          /\ Go(c, "term")
       \/ /\ mount[client[c].dir] # None
          /\ Return(c, "err") /\ UNCHANGED mount
    /\ UNCHANGED <<daemon, lock, dirs, state, dirty, unclean, stray, bounds>>

\* make_unique_mount_dir: mkdir of the first name that does not exist yet.
MkDir(c) ==
    /\ client[c].pc = "mkdir"
    /\ IF dirs = Dirs THEN Return(c, "err") /\ UNCHANGED dirs
       ELSE \E m \in Dirs \ dirs :
              /\ \A k \in Dirs \ dirs : m <= k
              /\ dirs' = dirs \cup {m}
              /\ client' = [client EXCEPT ![c].pc = "fork", ![c].dir = m]
    /\ UNCHANGED <<daemon, lock, mount, state, dirty, unclean, stray, bounds>>

\* launch_mountd_and_mount_nfs: start a daemon in a session of its own.
Fork(c) ==
    /\ client[c].pc = "fork"
    /\ \/ \E d \in Daemons :
            /\ daemon[d].phase = "none"
            /\ \A k \in Daemons : daemon[k].phase = "none" => d <= k
            /\ daemon' = [daemon EXCEPT ![d].phase = "start"]
            /\ client' = [client EXCEPT ![c].pc = "ready", ![c].pid = d,
                                        ![c].tries = @ + 1]
       \/ /\ client' = [client EXCEPT
                ![c].pc = IF client[c].tries = 0 /\ IsDev THEN "fork" ELSE "rmdir",
                ![c].tries = @ + 1]
          /\ UNCHANGED daemon
    /\ UNCHANGED <<lock, mount, dirs, state, dirty, unclean, stray, bounds>>

Ready_no_terminate(c) ==
    /\ client[c].pc = "ready"
    /\ Go(c, IF daemon[client[c].pid].phase = "serve" THEN "nfs" ELSE AfterEnd(c))
    /\ UNCHANGED <<world, bounds>>

\* The port arrives, or the pipe is closed, or ten seconds pass.
Ready(c) ==
    /\ client[c].pc = "ready"
    /\ Go(c, IF daemon[client[c].pid].phase = "serve" THEN "nfs" ELSE "stderr")
    /\ UNCHANGED <<world, bounds>>

\* Without a port, what the daemon wrote to stderr is read before it is
\* signalled.  The read has no time limit: it returns when the daemon has
\* written something, or has ended.
ReadErr(c) ==
    /\ client[c].pc = "stderr"
    /\ Go(c, "term")
    /\ UNCHANGED <<world, bounds>>

\* mount_nfs, tried with two sets of options.
MountNfs(c) ==
    /\ client[c].pc = "nfs"
    /\ \/ /\ daemon[client[c].pid].phase = "serve"
          /\ mount' = [mount EXCEPT ![client[c].dir] = client[c].pid]
          /\ Go(c, "write")
       \/ Go(c, "term") /\ UNCHANGED mount
    /\ UNCHANGED <<daemon, lock, dirs, state, dirty, unclean, stray, bounds>>

\* write_mount_state.  A file that cannot be written is not noticed: the
\* volume stays mounted and no command will find its daemon.
WriteState(c) ==
    /\ client[c].pc = "write"
    /\ \/ /\ state' = [state EXCEPT ![client[c].dir] = client[c].pid]
          /\ UNCHANGED <<stray, events>>
       \/ /\ events < MaxEvents /\ events' = events + 1
          /\ stray' = TRUE /\ UNCHANGED state
    /\ Return(c, "ok")
    /\ UNCHANGED <<daemon, lock, mount, dirs, dirty, unclean, overlap, commands>>

-----------------------------------------------------------------------------
(* rufux umount *)

\* find_matching_state; a volume without a state file is unmounted all the
\* same, but its daemon is not known.
LookUmount(c) ==
    /\ client[c].pc = "ulook"
    /\ \/ \E m \in Dirs :
            /\ state[m] # None
            /\ client' = [client EXCEPT ![c].pc = "unmount", ![c].dir = m,
                                        ![c].pid = state[m]]
            /\ UNCHANGED mount
       \/ /\ \A m \in Dirs : state[m] = None
          /\ \/ \E m \in Dirs :
                  /\ mount[m] # None
                  /\ mount' = [mount EXCEPT ![m] = None]
                  /\ Return(c, "ok")
             \/ Return(c, "err") /\ UNCHANGED mount
    /\ UNCHANGED <<daemon, lock, dirs, state, dirty, unclean, stray, bounds>>

Unmount_goes_on(c) ==
    /\ client[c].pc = "unmount"
    /\ \/ mount' = [mount EXCEPT ![client[c].dir] = None]
       \/ UNCHANGED mount
    /\ Go(c, "term")
    /\ UNCHANGED <<daemon, lock, dirs, state, dirty, unclean, stray, bounds>>

\* umount, diskutil unmount, umount -f.  While the mount is active the daemon
\* and the state file are left alone.
Unmount(c) ==
    /\ client[c].pc = "unmount"
    /\ \/ /\ mount' = [mount EXCEPT ![client[c].dir] = None]
          /\ Go(c, "term")
       \/ /\ mount[client[c].dir] # None
          /\ Return(c, "err") /\ UNCHANGED mount
    /\ UNCHANGED <<daemon, lock, dirs, state, dirty, unclean, stray, bounds>>

-----------------------------------------------------------------------------
(* The surroundings *)

Happens == events < MaxEvents /\ events' = events + 1

\* The user ejects the volume in the Finder, or with umount.
Eject(m) ==
    /\ Happens /\ mount[m] # None
    /\ mount' = [mount EXCEPT ![m] = None]
    /\ UNCHANGED <<client, daemon, lock, dirs, state, dirty, unclean, stray,
                   overlap, commands>>

Crash(d) ==
    /\ Happens /\ Alive(d)
    /\ Ends(d)
    /\ unclean' = unclean \cup {d}
    /\ UNCHANGED <<client, mount, dirs, state, dirty, stray, overlap, commands>>

\* A command is killed; a daemon it has started lives on.
Killed(c) ==
    /\ Happens /\ client[c].pc # "idle"
    /\ Return(c, "died")
    /\ stray' = TRUE
    /\ UNCHANGED <<daemon, lock, mount, dirs, state, dirty, unclean, overlap, commands>>

-----------------------------------------------------------------------------
ClientStep(c) ==
    \/ Terminate(c) \/ Ended(c) \/ Timeout(c) \/ AfterKill(c)
    \/ RmDir(c) \/ UnlinkState(c)
    \/ Look(c) \/ Exist(c) \/ ForceOff(c) \/ MkDir(c)
    \/ Fork(c) \/ Ready(c) \/ ReadErr(c) \/ MountNfs(c) \/ WriteState(c)
    \/ LookUmount(c) \/ Unmount(c)

DaemonStep(d) ==
    \/ Lock(d) \/ OpenVolume(d) \/ Relock(d)
    \/ Serve(d) \/ Stop(d) \/ Die(d)

\* Nobody calls rufux any more.
Quiet ==
    /\ commands = MaxCommands /\ \A c \in Clients : client[c].pc = "idle"
    /\ UNCHANGED vars

Next ==
    \/ \E c \in Clients :
         BeginMount(c) \/ BeginUmount(c) \/ ClientStep(c) \/ Killed(c)
    \/ \E d \in Daemons : DaemonStep(d) \/ Crash(d)
    \/ \E m \in Dirs : Eject(m)
    \/ Quiet

Spec == Init /\ [][Next]_vars

\* A command runs on by itself: what it waits for has a time limit (poll of
\* ten seconds, terminate_and_wait_pid), but for the read of the daemon's
\* stderr, which is sure to return only when the daemon has ended.  Nothing
\* is assumed of the daemons.
FairSpec ==
    Spec /\ \A c \in Clients :
              WF_vars(ClientStep(c) /\ (client[c].pc = "stderr" => ~Alive(client[c].pid)))

-----------------------------------------------------------------------------
(* Properties *)

\* Commands, daemons, mounts and state files are what the code can make them.
TypeOK ==
    /\ client \in [Clients -> ClientType]
    /\ daemon \in [Daemons -> [phase : Phases, stop : BOOLEAN]]
    /\ lock \in Daemons \cup {None}
    /\ mount \in [Dirs -> Daemons \cup {None}]
    /\ dirs \subseteq Dirs
    /\ state \in [Dirs -> Daemons \cup {None}]
    /\ dirty \subseteq Daemons /\ unclean \subseteq Daemons
    /\ stray \in BOOLEAN /\ overlap \in BOOLEAN
    /\ commands \in 0 .. MaxCommands /\ events \in 0 .. MaxEvents

\* acquire_exclusive_dev_lock: however many commands run, and although the
\* lock can be lost while the volume is opened, two daemons never serve the
\* same volume, and none that serves is without the lock.
OneServer ==
    \A d \in Daemons : daemon[d].phase = "serve" => lock = d

\* tests/test_mount_rw.sh: an unmount that fails must "keep rufux-mountd
\* alive".  No command, whatever others do meanwhile, sends a signal to the
\* daemon behind an active mount.
MountedNotStopped ==
    [][\A d \in Daemons :
          (daemon'[d].stop # daemon[d].stop
               \/ (daemon'[d].phase = "dying" /\ daemon[d].phase # "dying"))
          => \A m \in Dirs : mount[m] # d]_vars

\* When rufux umount reports success for a volume it knows, the daemon is
\* gone and everything it had accepted is on the device, unless it had to be
\* killed, crashed or could not write.
UmountIsDurable ==
    \A c \in Clients :
        (client[c].pc = "idle" /\ client[c].cmd = "umount" /\ client[c].res = "ok"
             /\ client[c].pid # None)
        => /\ ~Alive(client[c].pid)
           /\ client[c].pid \in dirty => client[c].pid \in unclean

\* Commands one after the other lose no daemon, through ejects, crashes,
\* failed launches, failed mounts and failed unmounts: between two commands
\* every daemon that lives is in a state file, where the next command finds
\* it.  The exceptions are a command that dies or cannot write its file.
Tracked ==
    (~overlap /\ ~stray /\ \A c \in Clients : client[c].pc = "idle") =>
        \A d \in Daemons :
            (Alive(d) /\ daemon[d].phase # "dying") => \E m \in Dirs : state[m] = d

\* Every command ends, although its daemon may never end: each wait for it is
\* cut short (mount.c:563, terminate_and_wait_pid).  The one exception is a
\* daemon that reports no port, writes nothing to stderr and does not end: the
\* command stays in the read at mount.c:577 for ever.
Termination ==
    \A c \in Clients :
        \/ client[c].pc # "idle" ~> client[c].pc = "idle"
        \/ <>[](client[c].pc = "stderr" /\ Alive(client[c].pid))
=============================================================================
