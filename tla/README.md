# A TLA+ verification project for Rufux

Rufux writes bootable USB drives on Linux. It is a port of Rufus: a command-line
worker in C (`src/linux/*.c`), which runs as root, and a Tauri window
(`gui-tauri/`), which starts workers and listens to them. Its mistakes are
expensive: a wrong step erases the wrong drive or produces one that fails on
another machine. Most of what can go wrong depends on others (the kernel that
has not read the new partition table yet, the desktop that mounts the drive
again, a second process, an event that overtakes a reply), which tests do not
reach. These modules model that.

Paths below are relative to the root of the repository.

## 1. Inventory

| Component | Code | State it keeps | Operations | Interacts with |
|---|---|---|---|---|
| Image writer | `src/linux/writer.c` | offsets of the copy and of the verification, the flock | copy, sync, verify, dry run | the drive, other processes |
| VHD probe, virtual disks | `vhd.c`, `vdisk.c` | none | payload length, `qemu-img` conversion | called by `flow_dd` |
| Partitioner | `partition.c` | the table on the drive | `sfdisk` script per layout | the kernel's view of the drive |
| Formatter | `mkfs_task.c` | the volume | wait for a settled size, `mkfs.*` | sysfs, the partition node |
| Orchestration | `create.c` with `mount.c`, `device.c`, `boot.c`, `dosboot.c`, `badblocks.c`, `smart.c`, `persist.c` | the drive as a whole, our mount | five flows: dd, extract, format, dos, windows | all of the above, udisks |
| Windows media | `wininstall.c`, `extract.c`, `biosboot.c` | files on the volume, a scratch directory | UEFI:NTFS image, extraction with split, answer files, GRUB | `wimlib`, `7z`, GRUB |
| Window and jobs | `gui-tauri/ui/main.js`, `gui-tauri/src/main.rs` | `jobId`, `jobKind`, `dlJob`, pending handlers; the job table | START, CANCEL, warnings, downloads, job events | workers over pipes and events |
| Download client | `msdl.c`, `mjson.c`, `main.c` | two sessions, a `.part` file | session, SKU list, links, resumable fetch | Microsoft's servers |
| Boot file checks | `bootcheck.c`, `secureboot.c` | none | advisory checks of EFI files | called by flows |
| Helpers | `exec.c`, `priv.c`, `checksum.c`, `iso_probe.c`, `update.c`, `main.c` | none | subprocesses, hashes, options | everywhere |
| macOS mount lifecycle | `macos/src/mount.c` | state files, mount directories | `rufux mount`, `rufux umount` | daemons, the kernel's NFS mounts, other commands |
| macOS mount daemon | `macos/src/mountd_nfs.c` | the volume and its caches, the device lock | NFS requests on ext and NTFS volumes | the NFS client, `libext2fs`, `libntfs-3g` |
| macOS port, the rest | `macos/` | as above | the same flows on other tools | - |
| Upstream Rufus | `src/*.c` | - | reference sources, not compiled on Linux (`PORTING.md`) | - |

What is hard here, and what makes each part correct:

* **Writer.** Short writes, read errors that look like the end of the file, a
  payload that ends inside a chunk, two processes on one drive, and a
  verification that is worth something only if nobody writes meanwhile, and that
  the page cache may answer.
  Correct: success means that the whole payload was written to the drive, and nothing
  else.
* **Partitioner and formatter.** Partition nodes follow the table the kernel
  read last. Between `sfdisk` and the re-read they name the old partitions.
  Correct: tables fit the drive, and volume and boot image are where the new
  table says.
* **Orchestration.** A dozen stages, each of which may fail, in five flows that
  differ in small ways; an automounter and a user at work at the same time, also
  between the check of a target and the write to it.
  Correct: success means a complete drive; nothing is written without consent;
  our mount is taken down; the run ends.
* **Window.** Handlers that wait for dialogs and replies interleave; events and
  replies travel separately; the list of drives changes under both. Correct: the
  window knows every worker that writes, a worker writes to the device its warning named, cancel cancels, failures are shown.
* **Windows media.** A chain of foreign tools that may fail, or succeed with half
  of the work done, with a second way to do most things. Correct: what is reported
  finished can install, with the options asked for, and nothing is left behind.
* **Download client.** A session protocol with two sessions at once, and a file
  that outlives the process and is continued by the next one. Correct: links
  belong to their session, the final name stands for one whole image, an
  interrupted download can be resumed.
* **Mount daemon.** Requests that change several records of a file system, any of
  which may fail. Correct: counts, names and `..` agree; nothing is cut off.
* **Mount lifecycle.** Commands and daemons are separate processes that know of
  each other by files, signals and a lock that can be lost. Correct: one server
  per volume, no data lost by an unmount that succeeded, no daemon forgotten.

The hazards found in the code are listed, with the line where each bites and the
property that watches it, under `hazards` in `PROJECT.json`.

## 2. Modules

| Module | Content |
|---|---|
| `Writer` | `rufux_write_image`, any number of processes on one target |
| `WriterProofs` | its theorems |
| `Partition` | `rufux_partition`, the raw writes that follow it, `rufux_format`, in sectors |
| `PartitionProofs` | its theorems |
| `Create` | `rufux_create` and its flows, stage by stage |
| `Outcome` | what a run promises about the drive: the abstract specification `Create` implements |
| `CreateProofs` | its theorems, and that `Create` implements `Outcome` |
| `Gui` | the handlers of the window, the job table, the workers |
| `GuiProofs` | its theorems |
| `WinMedia` | what `flow_windows` puts on the volume: extraction, split, customisation |
| `WinMediaProofs` | its theorems |
| `Download` | `download-windows`: sessions, links, the resumable fetch |
| `DownloadProofs` | its theorems |
| `ExtTree` | the requests of the ext back end of `rufux-mountd` that change the tree |
| `ExtTreeProofs` | its theorems |
| `Mount` | `rufux mount`, `rufux umount` and the daemons between them |
| `MountProofs` | its theorems |
| `MCWriter`, `MCPartition`, `MCCreate`, `MCGui`, `MCWinMedia`, `MCDownload`, `MCExtTree`, `MCMount` | instances for TLC |

`Create` treats the writer and the partitioner as single stages. `Writer` shows
what the stage `dd` may leave behind (all of it, or a failure), and `Partition`
what the stages from `partition` to `format` leave behind; `WinMedia` opens the
stages `uefi`, `content` and `verify` of the Windows flow. `ExtTree` is what a
daemon of `Mount` does while it serves.

### Writer

One label per blocking operation: `start` (arguments, target check, same file),
`dry`, `open` (open and `flock`), `capacity`, `read`, `write`, `sync`, `verify`.
`dst` is the content of the target in units (one unit stands for a block), `Image`
the sources, `SrcLen` the payload length `vhd.c` found (0: the whole file). `ReadChunk` ends
the copy on end of file and on an error alike, as `fread` does; `ferr` is the
flag `ferror` reads. `WriteSome` writes any part of the rest of the chunk.
`CheckCapacity` may find the size of the device unknown (the `ioctl` fails), and
then leaves it to `write` to meet the end. `Killed` closes the descriptors, which
releases the lock, and another program may shorten a source (`SourceShrinks`).

The medium may store a unit wrong (`bad`, at most `MaxFaults` of them), which is
what `--verify` is for. But the verification opens the target again with plain
`O_RDONLY`, so that a unit may still be in the page cache (`cached`), and then
what is compared is what was written and not what was stored. After the `fsync` pages
are clean and the kernel may drop them at any time, or never; what is not `cached` is
read from the medium.
A regular file as target takes no lock; the properties about exclusion are for
block devices (`~reg`).

### Partition

All sizes are sectors. `Plan` is the table `sfdisk` writes for a request and a
drive, with `main_mib` computed from whole MiB as in the code. `kernel` tells
which table the nodes follow: `old` right after `sfdisk`, `gone` between, `new`
after the re-read, which `KernelRereads` may do at any moment or never.
`WaitNode`, `WriteUefi`, `ZeroHead`, `WipeEdges`, `Format`, `ReadSize`,
`ReadStart` and `Mkfs` go through the nodes and so through that view; `ReadSize`
and `ReadStart` are two steps because `settled_part_sectors` reads two files.
`stale` remembers that some access went through the old table.

### Create

The flows are one line of stages, and `Applies(r, l)` tells whether the flow of
request `r` has stage `l`; `Skip` passes over the others. This follows the order
of the calls in all five flows. `medium` is what the stages leave on the drive:
table, boot code, file system, partition boot record, UEFI:NTFS image, files.
Every stage that calls a tool may fail before or after it has written.
`TargetCheck` is `rufux_check_target`, a step of its own in the stages that call it
(`CheckedStages`), with their own arguments; what the stage writes is a later step.
`check` is `passed` after it and `late` once the automounter has come in between. A tool
that extracts may end well with most of the image only (`most` in `medium.files`
instead of `image`), which the byte count accepts; in the Windows flow the stage
`verify` follows, in the others none. `mnt` tells who has mounted the drive; `Automount` and
`UserUnmounts` may come between any two stages, and `Killed` at any moment.
`excused` remembers the three cases in which a mount of ours may stay.

### Gui

Handlers run to their next `await`; `hnd` holds what is pending: the choice of the writing method
("ask"), the Windows options ("wue"), the warning ("warn"), and the call of the
backend on its way there ("invoke") and back ("reply"). `Modal` is the overlay that covers START and the
device box. A new message box replaces the open one, whose handler never
continues (`Abandoned`). In the backend a job's waiter task holds the lock of
the `Child` from `WaiterLocks` to `WaiterReaps`, and `KillJob` needs it.
`first` is the head of the list of drives (`devs[0]`), `picked` the drive that
`selectedDevice` returns and `shown` the one whose name the box shows.
`RefreshDevices` may change them at any moment, as `jobId` is looked at only before the
list is asked for; `RefreshFails` is its error path, which replaces the options by one message
and leaves `devs` alone, so that the drive taken is `first` and the box shows none.
`SelectDevice` is the user's choice. `consent` records of a worker whether its warning named
its device (`named`), another one after a dialog or an error (`excepted`), or another one
without such an excuse (`other`).

### WinMedia

One run of the content stages of `flow_windows`, or a plain extraction (`~env.win`).
`env` holds what the machine, the image and the request are: tools installed,
UDF or not, the sizes of `install.wim` and `install.esd` against 4 GiB, FAT32 or
NTFS, the `--wue` items. `tree` is the volume: how many of the image's `T` units
are there, whether the files `verify_windows_tree` insists on are, which install
image (or a torn one), the hive in `boot.wim`, the answer file. A tool may fail,
or succeed with part of its work done; `Incomplete` is the test for three
quarters of the image. `Tried` is the set of scratch candidates the loop in
`scratch_dir` gets to. Another run may download into the shared cache between
the test of the UEFI:NTFS image's size and its use (`OtherDownload`).

### Download

`Start` to `AskLinks` are the requests, one action per request or reply that
matters; a request that fails leads to `GiveUp`. A server's answer is any of those
the code tells apart. `refs` are the SKU references of the chosen language, two
at most, each with the session it came from. A reply brings up to `PerReply` links, and
no more than `MaxLinks` (4 in the code) are kept. `Check` to `Rename` are
`rufux_msdl_fetch`, with `curl` as a process of its own (`CurlBegin` to
`CurlExit`): it opens the `.part` file, asks for the rest, retries, and dies with
its parent only once `prctl` has run (`Arm`). Files are inodes with content, so
that two commands on one `.part` file, and a file renamed under a writing `curl`,
come out as they do on a real file system. `mixed` remembers overlapping
downloads and a `.part` file of another image, which nothing in the code detects.

### ExtTree

`fs` is the file system as `e2fsck` sees it: kind and link count of each inode,
where `..` points, and the directory entries. One action per request; its guards
are the checks before the first change, and its alternatives are the failures
of `libext2fs` calls behind it (at most `MaxFaults`). `damaged` remembers a
failure the code ignores or only reports (an inode that could not be written, an
unlink that failed in the middle of a rename), a link count that wrapped around
or was not raised at `DirMax`, and a second entry of one name; the model stops there.
`looped` remembers a directory that was moved below itself. The NFS client and
the order of its requests are free. The daemon is single-threaded, so a request
is one step.

### Mount

`client` are the commands, one label per system call another process could come
before or after; `daemon` the `rufux-mountd` processes with their phase and
`g_stop`; `lock` the POSIX record lock on the device; `mount` the kernel's NFS
mounts; `state` the state files, named after their directory; `dirty` the
daemons with data not yet on the device. `Terminate`, `Ended`, `Timeout` and
`AfterKill` are `terminate_and_wait_pid` and what its callers do next. When no port
arrives in ten seconds the command first reads the daemon's `stderr` (`ReadErr`),
without a time limit, and only then sends it a signal.
`OpenVolume` may lose the lock, which is why the code locks twice. Ejects,
crashes, killed commands and state files that cannot be written are events, at
most `MaxEvents` of them. `stray` and `overlap` remember what `Tracked` excepts.

## 3. Runs

| Run | Property | Result |
|---|---|---|
| `writer` | `OneWriter`, `WrittenPrefix`, `SuccessIsComplete`, `VerifiedCopy`, `OnlyPayloadWritten`, `Termination` | hold |
| `partition` | `TableFits`, `SoundWhenFresh`, `UefiSurvives` | hold |
| `create` | `SuccessIsComplete`, `OnlyPermittedWrites`, `MountReleased`, `Reverified`, `ImplementsOutcome`, `Termination` | hold |
| `gui` | `WorkerKnown`, `Consented`, `ReadyAfterExit` | hold |
| `windows_media` | `Installable`, `BypassInEffect`, `NothingLeft` | hold |
| `download` | `SessionMatches`, `FetchedIsImage`, `ExistingKept`, `Resumable`, `Termination` | hold |
| `ext_tree` | `Consistent`, `Connected` | hold |
| `mount` | `OneServer`, `UmountIsDurable`, `Tracked`, `MountedNotStopped`, `Termination` | hold |
| `ntfs_stale` | `VolumeInPartition` | violated |
| `gui_cancel` | `CancelStops` | violated |
| `gui_silent` | `NeverSilent` | violated |
| `scratch` | `ScratchFound` | violated |

Each passing run also checks the type invariant of its module (in `ext_tree` as a
part of `Consistent`).

The four violations are places where the code does not do what a comment, the
changelog or its own name for the thing says:

* `ntfs_stale`: "so the volume can never outgrow its partition"
  (`mkfs_task.c:158`). `settled_part_sectors` accepts the old partition's size if
  that fits on the drive, which it always did.
* `gui_cancel`: `kill_job` waits for a lock that is free only when the process
  has ended.
* `gui_silent`: "failures are never silent" (`CHANGELOG.md:440`). An exit event
  that arrives before its job's id is dropped.
* `scratch`: "RUFUX_TMPDIR, TMPDIR, the directory the image itself lives in ...,
  /var/tmp, /tmp" (`extract.c:188`). The loop ends at the first variable that is
  not set, so with `RUFUX_TMPDIR` unset it tries nothing.

Several passing properties name an exception for what the code is known to do;
without the exception they do not hold:

* `SuccessIsComplete` of `Writer`: a source that shrinks. `VerifiedCopy`: a read
  error of the source during verification, or a source that shrank, ends the
  comparison early; and a unit the medium stored wrong passes if the page cache
  answered for it. So what `--verify` shows of the medium is only what the kernel
  had dropped from the cache by then.
* `SuccessIsComplete` of `Create` and `ImplementsOutcome`: of an image in extract mode there is
  what the byte count lets pass, not every file. The comment at `extract.c:106-107` says
  "fall through to 7z instead of declaring success on a partial tree", but three quarters
  of the bytes, or any part of an image of up to 50 MiB, are enough.
* `OnlyPermittedWrites`: the bad-blocks check passes `allow_fixed = 1`
  (`badblocks.c:50`) and the zeroing before a full dd format checks nothing
  (`create.c:793-798`), so both reach a fixed disk without `--allow-fixed`, where
  `PORTING.md:34` says "never touch a non-removable device unless ...".
* `Reverified`: a mount that came between a stage's own check and its write, and
  the stages in `Unchecked`, which write without `rufux_check_target`, where
  `create.c:762-763` says "the per-operation checks below re-verify it afterwards". What
  remains is that no stage relies on the unmount at the start or on the check of an
  earlier stage.
* `WorkerKnown`: a START confirmed while another run is on or being started, where
  `CHANGELOG.md:450-451` says "START/CLOSE lock while the worker runs (no double burns, no
  closing mid-write)". While a worker's number is on its way in the reply of
  `start_create`, the worker runs and the window is still unlocked; the property says
  that this is the only such time.
* `Consented`: a dialog before the warning (the target is taken before it, the text of
  the warning after it), or a box that showed an error when the warning opened (the
  warning names no device, and the first of the old list is written). `create.c:762` says
  "consent was the START warning".
* `FetchedIsImage`, `ExistingKept`, `Resumable`: overlapping downloads, and for the
  first a `.part` file of another image with the same name.
* `Consistent`, `Connected`: the damage listed under ExtTree; a directory moved
  below itself, which `ext_op_rename` does not refuse.
* `UmountIsDurable`: a daemon that was killed, crashed or failed to write.
  `Tracked`: commands that overlap, that are killed or cannot write their state file.
  `Termination` of `Mount`: a daemon that reports no port, writes nothing and does not end
  keeps its command in the read of `stderr` for ever (`mount.c:577`).

Other remarks made while modelling, not the subject of a run: a label that is too
long is found after partitioning (`mkfs_task.c:84` and `CHANGELOG.md:296` say
before); when the read-back of `boot.wim` fails after the update, both it and
the answer file carry the bypass, where `wininstall.c:617` says "never left
half-modified"; the completeness test measures how much the directory grew, so
files extracted over existing ones do not count (`extract.c:43`); in an edition
with two products the second product's SKU list may be empty and is accepted,
because `nlangs` counts both (`msdl.c:243`).

### Bounds

* `writer`: two processes, one with four units and a payload of three in chunks
  of two, so that the payload ends inside a chunk, on a target of four units; one with an
  image of five, which is refused or, if the size of the target is not known, meets its
  end; one fault. Only the source of the first process shrinks (the constraint `SecondStays`). Exclusion, interference with a verification
  and a chunk boundary all occur.
* `partition`: drives of 0, 16, 63 and 64 MiB, one sector more than 64 MiB, and
  one above the FAT16 limit with a partial last MiB; blank, with one old partition over the
  whole drive, or with two. `WaitTries` and `SettleTries` are 2 instead of 100
  and 25: a poll differs from the next only in what the kernel did in between.
* `create`: every mode, scheme (with the alias `mbr`) and file system on a
  removable drive, quick and full, with and without optional content; then
  consent, dry run, SMART and bad blocks on the plainest request of each mode;
  fixed disks, files and directories. `passes` is 0 or 1: more passes repeat the stage.
* `gui`: two device nodes, two pending handlers, two jobs, but a second device is in
  sight only while at most one handler is pending and one job started (the constraint
  `TwoOfEither`). Two handlers are enough for a START during a START and for a download
  during a START, and there it plays no part which device is meant; two devices are
  needed for `Consented`, which speaks of one handler and its worker. The proofs have
  neither bound. The liveness runs need one of each. Handlers and nodes are symmetric in the
  safety run.
* `windows_media`: the setups in `MCWinMedia`, which together take every branch of
  routing and every tool present or missing; the images have four units, the
  least number in which three quarters is a whole number.
* `scratch`: the same setups, with `RUFUX_TMPDIR` and `TMPDIR` unset and room beside
  the image and in `/var/tmp`.
* `download`: two commands on one directory, an edition with two products, two
  images of one name and different architecture, files of two units, an old
  `.part` file or none, two places for links instead of four and up to two links in a reply,
  so that there may be more than fit, two queries instead of three and one retry of
  `curl` instead of three. Two commands suffice for every overlap; a third would
  repeat one.
* `ext_tree`: four inodes, three names, one fault, and a link count that wraps at
  6 instead of 65536 with the limit of `RENAME` at 4 instead of 65000, so that both are reached. Inodes
  other than the root and names are symmetric.
* `mount`: two commands at a time, three in all, two daemons, two directories, one
  event. This is enough for a second launch, a umount beside a mount and a
  remount after a crash. Image files (`IsDev = FALSE`, three daemons) were checked the same way.

### Fairness

Weak fairness is assumed of each process's own steps (`Writer`, `Create`,
`Download` with its `curl`, the commands of `Mount`): the kernel schedules it and system calls and tools return. In `Gui`
it is assumed of the two runtimes: tasks that can run do run, replies and events
that were sent arrive. Nothing is assumed of the user, the kernel's re-read, the
automounter, the page cache, faults, how long a worker takes, or the mount daemons, which
may hang. The waits of a `Mount` command have a time limit, so it goes on by itself, except in the
read of a daemon's `stderr`, where fairness is assumed only once the daemon has ended. `Download` assumes that a
transfer that was begun goes on or fails: `curl` is given no limit for one that stalls. The violations of liveness
(`gui_cancel`, `gui_silent`) are found under this fairness.

Deadlock is checked in all runs; a finished run stutters by an explicit action.

## 4. Proofs

Each of the eight modules `*Proofs` proves, for every value of the constants that
satisfies the named assumptions, the type invariant and every other invariant and
action property that the module's passing run checks; `CreateProofs` also proves
the refinement `Create` => `Outcome`. So the exceptions the properties name (section 3)
are the only ones, whatever the number of processes, jobs, inodes or units.

All follow one scheme. The properties are seldom inductive, so each module
defines a stronger `IInv` (in `MountProofs` a second one, `Traced`), which TLC
checked on the module's run before it was proved. Lemmas about the helpers of the
model and about what a kind of step leaves alone come first; then one lemma per
action, or group of alike actions, shows that it preserves `IInv`; the theorems
combine them.

*Writer.* None of the invariants is inductive alone. `IInv` says for each worker
what its counters mean at its label (`WorkerInv`: the offset is within the
chunk, chunk and copied part within the payload, the payload within the source,
consent from `open` on, a finished copy is whole), that the lock and the labels
agree (`OneWriter`), that what was sent out is the beginning of the image
(`WrittenPrefix`) and that what was compared is equal, and stored well or answered for by
the cache (`VerifiedSoFar`). The
step of another worker cannot disturb the last two because of `OneWriter`: at
most one worker is past `open`. `VerifiedCopy` and `OnlyPayloadWritten` are
action properties that follow from `IInv` in the state before the step.
Assumed: the number of units, the chunk size and the payload lengths are natural
numbers, images are finite sequences, `None` is no worker.

*Partition.* `IInv` says that after a successful `sfdisk` the table is `Plan` of
an accepted request, and `Agrees`: as long as no stale node was used, the image,
the start and the size read so far agree with the new table. The arithmetic of
the layouts (`TableFits`) is a set of lemmas about `Plan` for drives of every size.
Assumed: old partitions lie on the drive; at least one round of each poll.

*Create.* `Progress` says what the drive holds already at each stage of each flow
(`Built`): this is what makes `SuccessIsComplete` inductive, as a stage only
adds to it or restarts what a later stage completes. `FailingOut` says that a
failed run is over or on its way through `release`, `Consent` what the checks
before each stage have established, `Ours` at which stages the mount may be ours,
`Looked` what a check has seen that is still to be written after: unless it is `late`,
nobody has mounted the drive since, which gives `Reverified`.
For the refinement, an action never turns a changed drive back into the old one, and
it ends the run only as a failure or at `report`, where the drive stays as it is
(`Moves`); a drive that `Complete` holds of is not the old one (`CompleteIsNew`). So each
action is a step of `Outcome` or a stutter (`AbstractStep`). Assumed: requests are records of `RufuxCreateOpts`.

*Gui.* `Known` ties `jobId` and `dlJob` to jobs the backend has started, `Settled` an event
in flight to a job that has ended, `Honest` the box to the device that would be taken, or
to none, and a pending handler to the device its warning names (`Fair`), `Accounted` each
worker that writes to the window's global or to the handler whose reply is under way, and `Single` allows one START at a time
unless `overlap`. Handlers, nodes and jobs are arbitrary. Assumed: `None` is no
device; the bound on jobs is a natural number.

*WinMedia.* The parts of `IInv` follow one thing each through the stages: the
UEFI:NTFS image (`Flashed`), the install image (`Unbroken`, `Fits`), the files
`verify_windows_tree` looks for (`Checked`), the bypass (`Bypassed`: from the point where
the hive was read back or given up, one of the two places has it or will get it),
and what has to be removed (`Temporary`). Assumed: setups and scratch
candidates have their type, and an image has at least one unit.

*Download.* `IInv` has two halves. `Registered` is about the sessions: references
are of sessions that were registered, with a SKU of that session's product, two
at most, and links were asked for only with references. `Unmixed` is about the files,
as long as `mixed` is false: no two downloads are under way, and none when there is an
image (`Alone`), the descriptor of a writing
`curl` is the `.part` file (`Writing`), a run that is past the transfer has
the whole image (`Complete`), and the `.part` file is a beginning of one image,
as long as `curl` believes it is (`PartIs`). The two action properties follow from
what a step can touch at all. Assumed: lengths and bounds are natural numbers, and
the two special inodes are not named like a run; there are one to four places for links.

*ExtTree.* `Sound` says of the tree: finitely many entries, the root is a directory
without a name, names are unique, entries lead to inodes in use (`Leads`), counts are
the numbers of names or subdirectories (`Counted`), every other directory has one name
and its `..` points there (`Hung`). A request adds or removes an entry or two, so
the counts rest on lemmas about sets with one element more or less. `Connected`
is proved without induction along paths: `Joined` says that every set of inodes
that contains the root and is closed under entries contains everything in use.
After a move, a closed set together with the moved subtree is closed in the old
tree, and because the new parent is not inside the subtree (else `looped`) it
is in the set, which therefore contains the subtree. Assumed: finitely many
inodes, one of them the root, and 2 < `DirMax` < `Word` (65000 and 65536 in the code).

*Mount.* `OneServer` is not inductive: while a daemon opens the volume it may
give up the lock, and the proof must know that the lock it gives up is its own.
`Holding` adds this (a daemon that opens or serves has the lock), and only
`Lock`, `OpenVolume`, `Relock` and the end of a process touch it. The type
invariant needs `AllCounted`: before the first launch the count of launches is
0 and at `fork` at most 1, so a third launch is never begun.
The other three properties follow from `Traced`. For each command it says what
the command knows at its label (`Informed`: at `ready`, `stderr`, `nfs`, `term`, `wait` and `killed` its
daemon has no mount; a successful umount saw its daemon gone), what holds of
the state files if commands do not overlap (`Undisturbed`), and how it got there (`OnItsWay`).
For the daemons it says that one not yet started is nowhere mounted or recorded
(`Placed`), who may have unwritten data (`Dirt`), and that one that lives is in
a state file or has its launcher (`Found`); `Exclusive` and `Solo` keep commands
apart. Assumed: the bounds are natural numbers.

Model-checked only: `Termination` and the other liveness properties, as the proof
system handles neither fairness nor `ENABLED`. The expected violations are TLC's by nature.

## 5. Not modelled, and why

* Data: progress and log lines, messages, the parsing of options, tool output,
  JSON, PE files and VHD footers, the text of answer files and `sfdisk` scripts
  beyond the numbers in them, RPC and XDR encoding.
* Names of devices, so that the prefix comparison in `dev_is_mounted` is out of sight.
* The flock that `qemu-img`, `badblocks` and `zero_head` do not take: two whole
  runs of `Create` side by side.
* The NTFS back end of `rufux-mountd` and the reading requests: the tree operations
  are those of `libntfs-3g`, called one per request. File data and attributes,
  handles kept by the client over a reuse of the inode, and `READDIR` cookies.
* The rest of the macOS port: a second implementation of the same flows with
  `diskutil` and `hdiutil`; volumes macOS mounts itself.
* The upstream Rufus sources (`src/*.c`), `wimlib`, `bled`, `libcdio`, `syslinux`,
  `ext2fs`, `ms-sys` and the other libraries under `src/`. They make up most of the repository's
  lines (more than four fifths of some 224,000), are not written by this project and not
  compiled into the Linux worker (`PORTING.md`), which calls installed tools
  instead; so the share of all lines that the modules stand for is small, while
  most of the state-changing code of the worker is covered (for instance four
  fifths of `create.c`, nine tenths of `writer.c`, three quarters of `extract.c`
  and `mkfs_task.c`).

## 6. Plan

Done: the writer, the partition and format flow, the orchestration with its
abstract specification, the window, the Windows content, the download client,
and of the macOS port the mount lifecycle and the ext tree.

The proofs now cover all safety and action properties of the passing runs. Left:

1. Properties for the hazards that have none yet (two whole runs of `Create` side by
   side, NFS handles over a reuse of the inode),
   each with its extension of a proof.
2. Stronger forms of the properties that name an exception for overlapping
   runs (`WorkerKnown`, `Tracked`, `Resumable`): what still holds when they overlap.
3. The links between modules that are prose so far: that the stage `dd` of `Create`
   is what `Writer` leaves, and the content stages what `WinMedia` leaves.
