------------------------------- MODULE Create -------------------------------
(***************************************************************************)
(* rufux_create (src/linux/create.c): the run that turns a drive into      *)
(* installation media, in its five modes.  The flows share one straight    *)
(* line of stages; a flow passes over the stages it does not have.  Every  *)
(* stage that calls a tool may fail.  The desktop's automounter and the    *)
(* user act at any moment in between, and the run may be killed.           *)
(***************************************************************************)
EXTENDS Integers, FiniteSets

CONSTANT Requests     \* the option records a run may be started with

Devices     == {"removable", "fixed", "file", "dir"}
FileSystems == {"vfat", "fat16", "ntfs", "exfat", "ext4"}

RequestType ==
  [mode : {"dd", "extract", "format", "dos", "windows"},
   scheme : {"gpt", "dos", "mbr"}, fs : FileSystems, dev : Devices,
   dry_run : BOOLEAN, yes : BOOLEAN, allow_fixed : BOOLEAN, allow_file : BOOLEAN,
   quick : BOOLEAN, passes : {0, 1}, ignore_smart : BOOLEAN,
   label_ok : BOOLEAN,  \* the label fits the file system
   autorun : BOOLEAN, persist : BOOLEAN, custom : BOOLEAN]

ASSUME RequestsAssumption == Requests \subseteq RequestType

VARIABLES
  req,      \* RufuxCreateOpts
  failing,  \* the drive's SMART verdict is "failed"
  medium,   \* what the target holds
  mnt,      \* who mounted a partition of the target: "none", "auto", "ours"
  excused,  \* history: an unmount failed, mount output was not understood, or a kill
  check,    \* rufux_check_target of the stage at hand: "none" (not yet called),
            \* "passed", or "late" (passed, and the drive was mounted after that)
  pc, rc

vars == <<req, failing, medium, mnt, excused, check, pc, rc>>

MediumType ==
  [table : {"old", "none", "gpt", "dos", "image"},
   code  : {"old", "none", "mbr", "gptmbr", "dosmbr", "grub"},
   fs    : {"old", "none"} \cup FileSystems,
   pbr   : {"none", "syslinux", "freedos"},
   uefi  : BOOLEAN,
   \* of the image: all files, as much as passes for all, what a failure left
   files : SUBSET {"image", "most", "part", "autorun", "persist", "custom"}]

OldMedium   == [table |-> "old", code |-> "old", fs |-> "old", pbr |-> "none",
                uefi |-> FALSE, files |-> {}]
WipedMedium == [OldMedium EXCEPT !.table = "none", !.code = "none", !.fs = "none"]

Stages == {"unmount", "smart", "badblocks", "zero", "plan", "dd", "partition", "node",
           "uefi", "zero1", "wipe", "format", "syslinux", "mount", "image",
           "autorun", "persist", "custom", "verify", "bios", "release", "mbr",
           "records"}
Labels == Stages \cup {"start", "mount2", "report", "end"}

(* The stage after l. *)
Succ(l) ==
  CASE l = "unmount"   -> "smart"     [] l = "smart"    -> "badblocks"
    [] l = "badblocks" -> "zero"      [] l = "zero"     -> "plan"
    [] l = "plan"      -> "dd"        [] l = "dd"       -> "partition"
    [] l = "partition" -> "node"      [] l = "node"     -> "uefi"
    [] l = "uefi"      -> "zero1"     [] l = "zero1"    -> "wipe"
    [] l = "wipe"      -> "format"    [] l = "format"   -> "syslinux"
    [] l = "syslinux"  -> "mount"     [] l = "mount"    -> "image"
    [] l = "image"     -> "autorun"   [] l = "autorun"  -> "persist"
    [] l = "persist"   -> "custom"    [] l = "custom"   -> "verify"
    [] l = "verify"    -> "bios"      [] l = "bios"     -> "release"
    [] l = "release"   -> "mbr"       [] l = "mbr"      -> "records"
    [] l = "records"   -> "report"

-----------------------------------------------------------------------------
(* What the options amount to. *)
Block(r) == r.dev \in {"removable", "fixed"}

(* rufux_create settles the alias "mbr" once for all flows. *)
Scheme(r) == IF r.scheme = "mbr" THEN "dos" ELSE r.scheme

\* Mutant: rufux_partition is handed the scheme as it was given.
PartTable_raw(r) == IF r.mode = "dos" THEN "dos" ELSE r.scheme

(* The table each flow asks rufux_partition for; that knows the alias too. *)
PartTable(r) ==
  CASE r.mode = "dos"     -> "dos"
    [] r.mode = "windows" -> IF Scheme(r) # "dos" THEN "gpt" ELSE "dos"
    [] OTHER              -> IF Scheme(r) = "mbr" THEN "dos" ELSE Scheme(r)

(* The file system each flow makes. *)
Fs(r) == CASE r.mode = "dos" -> "vfat"
           [] r.mode = "windows" -> IF r.fs = "vfat" THEN "vfat" ELSE "ntfs"
           [] OTHER -> r.fs

(* The flow partitions a disk: all but dd, a directory, and a plain file. *)
OnDisk(r) == \/ r.mode = "extract" /\ r.dev # "dir"
             \/ r.mode = "format" /\ Block(r)
             \/ r.mode \in {"dos", "windows"}

Mounts(r) == OnDisk(r) /\ r.mode # "format"

Applies(r, l) ==
  CASE l \in {"unmount", "smart"} -> Block(r)
    [] l = "badblocks" -> r.passes > 0
    [] l = "zero"      -> ~r.quick /\ Block(r) /\ r.mode = "dd"
    [] l = "plan"      -> TRUE
    [] l = "dd"        -> r.mode = "dd"
    [] l \in {"partition", "node"} -> OnDisk(r)
    [] l = "uefi"      -> r.mode = "windows" /\ Fs(r) = "ntfs"
    [] l = "zero1"     -> OnDisk(r) /\ ~r.quick /\ r.mode # "dos"
    [] l = "wipe"      -> r.mode = "windows"
    [] l = "format"    -> OnDisk(r) \/ r.mode = "format"
    [] l = "syslinux"  -> /\ OnDisk(r) /\ r.mode \in {"extract", "format"}
                          /\ Scheme(r) = "dos" /\ r.fs \in {"vfat", "fat16", "ext4"}
    [] l = "mount"     -> Mounts(r)
    [] l = "image"     -> r.mode \in {"extract", "dos", "windows"}
    [] l = "autorun"   -> r.mode = "extract" /\ r.autorun
    [] l = "persist"   -> r.mode = "extract" /\ r.persist
    [] l = "custom"    -> r.mode = "windows" /\ r.custom
    [] l \in {"verify", "bios"} -> r.mode = "windows"
    [] l = "release"   -> Mounts(r)
    [] l = "mbr"       -> OnDisk(r) /\ r.mode \in {"extract", "format"}
    [] l = "records"   -> r.mode = "dos"

\* Mutant: a mounted partition is not looked for.
CheckTarget_no_mount(fixed, file) ==
  /\ req.dev # "dir"
  /\ req.dev = "file" => file
  /\ req.dev = "fixed" => fixed

(* rufux_check_target: nothing of the disk is mounted, a fixed disk needs   *)
(* --allow-fixed, a plain file --allow-file.                                *)
CheckTarget(fixed, file) ==
  /\ req.dev # "dir"
  /\ req.dev = "file" => file
  /\ req.dev = "fixed" => fixed
  /\ Block(req) => mnt = "none"

-----------------------------------------------------------------------------
(* The stages that call rufux_check_target before they write, and what they *)
(* tell it to allow: run_badblocks passes --allow-fixed on its own account, *)
(* and formatting a plain file is what a format of one asks for.            *)
CheckedStages == {"badblocks", "dd", "partition", "format", "mbr"}
AllowFixed(l) == l = "badblocks" \/ req.allow_fixed
AllowFile(l)  == \/ l \in {"badblocks", "dd"} /\ req.allow_file
                 \/ l = "format" /\ req.mode = "format" /\ ~Block(req)

At(l)   == pc = l /\ Applies(req, l)
Goto(l) == pc' = l /\ check' = "none" /\ UNCHANGED rc
Pass(l) == Goto(Succ(l))
Fail    == pc' = "end" /\ check' = "none" /\ rc' = -1
Holds(m) == medium' = m

(* The check comes first in these stages; what they write follows after     *)
(* more calls (looking for a tool, opening the device, asking its size).    *)
TargetCheck ==
  /\ pc \in CheckedStages /\ At(pc) /\ check = "none"
  /\ IF CheckTarget(AllowFixed(pc), AllowFile(pc))
       THEN check' = "passed" /\ UNCHANGED <<pc, rc>>
       ELSE Fail
  /\ UNCHANGED <<req, failing, medium, mnt, excused>>

Checked(l) == At(l) /\ check # "none"

(* The consent check, and the whole of a dry run: it only prints the plan.  *)
(* A real run on a disk may fail here for want of root.                     *)
Start ==
  /\ pc = "start"
  /\ \/ ~req.dry_run /\ (~req.yes \/ Block(req)) /\ Fail
     \/ req.dry_run /\ Goto("report")
     \/ ~req.dry_run /\ req.yes /\ Goto("unmount")
  /\ UNCHANGED <<req, failing, medium, mnt, excused>>

(* A stage this flow does not have. *)
Skip ==
  /\ pc \in Stages /\ ~Applies(req, pc)
  /\ Pass(pc)
  /\ UNCHANGED <<req, failing, medium, mnt, excused>>

(* unmount_disk: /proc/mounts is read once, and the first 32 partitions it  *)
(* lists are unmounted; a 33rd stays mounted without an error, and so does  *)
(* everything when the list cannot be opened.                               *)
UnmountDisk ==
  /\ At("unmount")
  /\ \/ Pass("unmount") /\ mnt' = "none"
     \/ Pass("unmount") /\ mnt = "auto" /\ UNCHANGED mnt
     \/ mnt = "auto" /\ Fail /\ UNCHANGED mnt
  /\ UNCHANGED <<req, failing, medium, excused>>

\* Mutant: the verdict is logged only.
SmartCheck_logs_only ==
  /\ At("smart")
  /\ Pass("smart")
  /\ UNCHANGED <<req, failing, medium, mnt, excused>>

SmartCheck ==
  /\ At("smart")
  /\ IF failing /\ ~req.ignore_smart THEN Fail ELSE Pass("smart")
  /\ UNCHANGED <<req, failing, medium, mnt, excused>>

(* run_badblocks overwrites all of the target. *)
BadBlocks ==
  /\ Checked("badblocks")
  /\ \/ Fail /\ UNCHANGED medium
     \/ Holds(WipedMedium) /\ (Fail \/ Pass("badblocks"))
  /\ UNCHANGED <<req, failing, mnt, excused>>

(* zero_head of the disk before a dd run: it checks nothing. *)
ZeroDisk ==
  /\ At("zero")
  /\ \/ Fail /\ UNCHANGED medium
     \/ Holds(WipedMedium) /\ (Fail \/ Pass("zero"))
  /\ UNCHANGED <<req, failing, mnt, excused>>

(* What a flow refuses before it touches the disk: too large an image for   *)
(* FAT, no FreeDOS files, options of Windows that do not parse, and file    *)
(* systems Windows media cannot have.                                       *)
Plan ==
  /\ At("plan")
  /\ \/ Fail
     \/ /\ req.mode = "windows" => req.fs \in {"vfat", "ntfs"}
        /\ req.mode = "dos" => Block(req)
        /\ Pass("plan")
  /\ UNCHANGED <<req, failing, medium, mnt, excused>>

(* flow_dd: the image replaces whatever was there (see Writer). *)
WriteImage ==
  /\ Checked("dd")
  /\ \/ Fail /\ UNCHANGED medium
     \/ Fail /\ Holds(WipedMedium)
     \/ Pass("dd") /\ Holds([WipedMedium EXCEPT !.table = "image", !.code = "none"])
  /\ UNCHANGED <<req, failing, mnt, excused>>

(* rufux_partition wipes the old signatures, writes the table and, on a dos *)
(* table, the syslinux boot code if the host has it (see Partition).  sfdisk *)
(* may stop after the wiping.  Whether a tool looks for mounts of its own    *)
(* accord is left open, here and in Format.                                  *)
MakeTable ==
  /\ Checked("partition")
  /\ \/ Fail /\ UNCHANGED medium
     \/ Fail /\ Holds(WipedMedium)
     \/ /\ \E c \in (IF PartTable(req) = "dos" THEN {"mbr", "none"} ELSE {"none"}) :
             Holds([WipedMedium EXCEPT !.table = PartTable(req), !.code = c])
        /\ Fail \/ Pass("partition")
  /\ UNCHANGED <<req, failing, mnt, excused>>

(* rescan_disk and wait_node. *)
WaitNode ==
  /\ At("node")
  /\ Fail \/ Pass("node")
  /\ UNCHANGED <<req, failing, medium, mnt, excused>>

WriteUefi ==
  /\ At("uefi")
  /\ \/ Fail /\ UNCHANGED medium
     \/ Pass("uefi") /\ Holds([medium EXCEPT !.uefi = TRUE])
  /\ UNCHANGED <<req, failing, mnt, excused>>

(* zero_head of partition 1, and wipe_part_edges. *)
ClearPartition(l) ==
  /\ At(l)
  /\ Holds([medium EXCEPT !.fs = "none", !.pbr = "none", !.files = {}])
  /\ Fail \/ Pass(l)
  /\ UNCHANGED <<req, failing, mnt, excused>>

(* rufux_format: the label is checked here, and here first. *)
Format ==
  /\ Checked("format")
  /\ \/ Fail /\ UNCHANGED medium
     \/ /\ req.label_ok
        /\ Holds([medium EXCEPT !.fs = Fs(req), !.pbr = "none", !.files = {}])
        /\ Fail \/ Pass("format")
  /\ UNCHANGED <<req, failing, mnt, excused>>

(* syslinux_best_effort: nothing is written where syslinux is missing. *)
Syslinux ==
  /\ At("syslinux")
  /\ \/ UNCHANGED medium /\ (Fail \/ Pass("syslinux"))
     \/ Holds([medium EXCEPT !.pbr = "syslinux"]) /\ (Fail \/ Pass("syslinux"))
  /\ UNCHANGED <<req, failing, mnt, excused>>

\* Mutant: the mount is retried for as long as it fails.
Mount_retries(l) ==
  /\ pc = l /\ Applies(req, "mount")
  /\ \/ mnt = "none" /\ mnt' = "ours" /\ Pass("mount")
     \/ UNCHANGED <<mnt, check, pc, rc>>
  /\ UNCHANGED <<req, failing, medium, excused>>

(* rufux_mount: it fails when the automounter was first, and it loses the   *)
(* mount when it cannot read the path.  The Windows flow tries twice.       *)
Mount(l) ==
  /\ pc = l /\ Applies(req, "mount")
  /\ \/ mnt = "none" /\ mnt' = "ours" /\ Pass("mount") /\ UNCHANGED excused
     \/ /\ \/ UNCHANGED <<mnt, excused>>
           \/ mnt = "none" /\ mnt' = "ours" /\ excused' = TRUE
        /\ IF l = "mount" /\ req.mode = "windows"
             THEN Goto("mount2")
             ELSE Fail
  /\ UNCHANGED <<req, failing, medium>>

(* A failure with the partition mounted leads to the unmount, not out. *)
ContentFails ==
  IF Mounts(req) THEN pc' = "release" /\ check' = "none" /\ rc' = -1 ELSE Fail

\* Mutant: a failed step returns at once.
Content_returns(l, added) ==
  /\ At(l)
  /\ \/ Fail /\ UNCHANGED medium
     \/ Pass(l) /\ Holds([medium EXCEPT !.files = @ \cup {added}])
  /\ UNCHANGED <<req, failing, mnt, excused>>

(* A step that adds files: extraction or the FreeDOS copy, autorun.inf, the *)
(* persistence file, the Windows customisation.                             *)
Content(l, added) ==
  /\ At(l)
  /\ \/ ContentFails /\ UNCHANGED medium
     \/ Pass(l) /\ Holds([medium EXCEPT !.files = @ \cup {added}])
     \/ ContentFails /\ Holds([medium EXCEPT !.files = @ \cup {"part"}])
  /\ UNCHANGED <<req, failing, mnt, excused>>

\* Mutant: what bsdtar extracted is not counted.
ExtractPart_uncounted ==
  /\ At("image") /\ req.mode \in {"extract", "windows"}
  /\ Pass("image") /\ Holds([medium EXCEPT !.files = @ \cup {"part"}])
  /\ UNCHANGED <<req, failing, mnt, excused>>

(* rufux_extract_iso_progress takes a tool's word for it when the bytes on  *)
(* the drive are three quarters of the image, or the image is 50 MiB or     *)
(* less: the extraction then succeeds without all of the files.             *)
ExtractPart ==
  /\ At("image") /\ req.mode \in {"extract", "windows"}
  /\ Pass("image") /\ Holds([medium EXCEPT !.files = @ \cup {"most"}])
  /\ UNCHANGED <<req, failing, mnt, excused>>

\* Mutant: missing files are reported, not refused.
VerifyTree_advisory ==
  /\ At("verify")
  /\ Pass("verify")
  /\ UNCHANGED <<req, failing, medium, mnt, excused>>

(* verify_windows_tree, in whose mode "image" stands for the files it looks *)
(* for.                                                                     *)
VerifyTree ==
  /\ At("verify")
  /\ IF "image" \in medium.files THEN Pass("verify") ELSE ContentFails
  /\ UNCHANGED <<req, failing, medium, mnt, excused>>

(* rufux_windows_bios_install: GRUB's boot code; a failure is a warning. *)
BiosInstall ==
  /\ At("bios")
  /\ \E c \in {medium.code, "grub"} : Holds([medium EXCEPT !.code = c])
  /\ Pass("bios")
  /\ UNCHANGED <<req, failing, mnt, excused>>

(* The unmount at the end, whether or not the steps before it succeeded.    *)
(* (ntfsfix, which follows it on Windows media, clears a flag of the volume *)
(* that the model does not have, and its failure is only logged.)           *)
Release ==
  /\ At("release")
  /\ \/ /\ mnt' = "none" /\ UNCHANGED excused
        /\ IF rc = 0 THEN Pass("release") ELSE Fail
     \/ UNCHANGED mnt /\ excused' = TRUE /\ Fail
  /\ UNCHANGED <<req, failing, medium>>

(* rufux_install_mbr. *)
InstallMbr ==
  /\ Checked("mbr")
  /\ \/ Fail /\ UNCHANGED medium
     \/ /\ Holds([medium EXCEPT !.code = IF Scheme(req) = "gpt" THEN "gptmbr" ELSE "mbr"])
        /\ Fail \/ Pass("mbr")
  /\ UNCHANGED <<req, failing, mnt, excused>>

(* rufux_dos_pbr_fd32, then rufux_dos_mbr. *)
DosRecords ==
  /\ At("records")
  /\ \/ Fail /\ UNCHANGED medium
     \/ Fail /\ Holds([medium EXCEPT !.pbr = "freedos"])
     \/ Pass("records") /\ Holds([medium EXCEPT !.pbr = "freedos", !.code = "dosmbr"])
  /\ UNCHANGED <<req, failing, mnt, excused>>

(* "Done." or "Plan OK"; a dry run may also end in an error. *)
Report ==
  /\ pc = "report"
  /\ \/ Goto("end")
     \/ req.dry_run /\ Fail
  /\ UNCHANGED <<req, failing, medium, mnt, excused>>

-----------------------------------------------------------------------------
(* The desktop mounts a file system it finds on the drive. *)
Automount ==
  /\ pc # "end" /\ Block(req)
  /\ mnt = "none" /\ (medium.fs # "none" \/ medium.table = "image")
  /\ mnt' = "auto"
  /\ check' = IF check = "passed" THEN "late" ELSE check
  /\ UNCHANGED <<req, failing, medium, excused, pc, rc>>

(* The user unmounts it. *)
UserUnmounts ==
  /\ pc # "end" /\ mnt = "auto"
  /\ mnt' = "none"
  /\ UNCHANGED <<req, failing, medium, excused, check, pc, rc>>

Killed ==
  /\ pc # "end" /\ Fail
  /\ excused' = (excused \/ mnt = "ours")
  /\ UNCHANGED <<req, failing, medium, mnt>>

Init ==
  /\ req \in Requests
  /\ failing \in BOOLEAN
  /\ medium = OldMedium
  /\ mnt \in IF Block(req) THEN {"none", "auto"} ELSE {"none"}
  /\ excused = FALSE
  /\ check = "none" /\ pc = "start" /\ rc = 0

Program ==
  \/ Start \/ Skip \/ TargetCheck \/ UnmountDisk \/ SmartCheck \/ BadBlocks \/ ZeroDisk \/ Plan
  \/ WriteImage \/ MakeTable \/ WaitNode \/ WriteUefi
  \/ ClearPartition("zero1") \/ ClearPartition("wipe") \/ Format \/ Syslinux
  \/ Mount("mount") \/ Mount("mount2")
  \/ Content("image", "image") \/ ExtractPart \/ Content("autorun", "autorun")
  \/ Content("persist", "persist") \/ Content("custom", "custom")
  \/ VerifyTree \/ BiosInstall \/ Release \/ InstallMbr \/ DosRecords \/ Report

Finished == pc = "end" /\ UNCHANGED vars

Next == Program \/ Automount \/ UserUnmounts \/ Killed \/ Finished

Spec == Init /\ [][Next]_vars

(* The process runs on: each stage is a bounded computation or a tool that  *)
(* returns.  Nothing is assumed of the desktop or the user.                 *)
FairSpec == Spec /\ WF_vars(Program)
-----------------------------------------------------------------------------
(* A run is at one of the stages, and the drive holds what a stage can      *)
(* leave there.                                                             *)
TypeOK ==
  /\ req \in RequestType /\ failing \in BOOLEAN
  /\ medium \in MediumType
  /\ mnt \in {"none", "auto", "ours"} /\ excused \in BOOLEAN
  /\ check \in {"none", "passed", "late"}
  /\ pc \in Labels /\ rc \in {0, -1}

Wanted(r) ==
  (IF r.mode \in {"dos", "windows"} THEN {"image"} ELSE {})
  \cup (IF r.mode = "extract" /\ r.autorun THEN {"autorun"} ELSE {})
  \cup (IF r.mode = "extract" /\ r.persist THEN {"persist"} ELSE {})
  \cup (IF r.mode = "windows" /\ r.custom THEN {"custom"} ELSE {})

AskedTable(r) == IF r.mode = "dos" \/ r.scheme # "gpt" THEN "dos" ELSE "gpt"

(* What the user asked for is on the target: the table of the scheme, boot  *)
(* code that belongs to that table, the file system, the files, and for     *)
(* Windows on NTFS the UEFI:NTFS image.  Of a Windows image the files that  *)
(* verify_windows_tree looks for are all there; of any other, as much as    *)
(* rufux_extract_iso_progress takes for all of it.                          *)
Complete(r, m) ==
  IF r.mode = "dd" THEN m.table = "image"
  ELSE /\ Wanted(r) \subseteq m.files
       /\ r.mode = "extract" => m.files \cap {"image", "most"} # {}
       /\ (OnDisk(r) \/ r.mode = "format") => m.fs = Fs(r)
       /\ OnDisk(r) =>
            /\ m.table = AskedTable(r)
            /\ r.mode = "windows" => m.uefi = (Fs(r) = "ntfs")
            /\ r.mode = "dos" => m.code = "dosmbr" /\ m.pbr = "freedos"
            /\ r.mode \in {"extract", "format"} =>
                 m.code = (IF AskedTable(r) = "gpt" THEN "gptmbr" ELSE "mbr")

(* When a real run reports success, the target is what was asked for: a     *)
(* table and boot code that fit each other whatever name the scheme was     *)
(* given, every file that was added, and nothing written early that a later *)
(* stage undid.  Of the image itself there is what Complete says: in extract *)
(* mode not every file, but what the count of its bytes lets pass           *)
(* (create.c:740-822, extract.c:104-134).                                   *)
SuccessIsComplete ==
  (pc = "end" /\ rc = 0 /\ ~req.dry_run) => Complete(req, medium)

(* The drive changes only with consent: not in a dry run or without --yes,  *)
(* not when SMART says it is failing unless that is overridden, and, as     *)
(* long as neither the bad-blocks check nor a full dd format is asked for,  *)
(* not when it is a fixed disk and --allow-fixed is missing                 *)
(* (create.c:756-803, device.c:185-251).                                    *)
OnlyPermittedWrites ==
  medium # OldMedium =>
    /\ req.yes /\ ~req.dry_run
    /\ (Block(req) /\ failing) => req.ignore_smart
    /\ (req.dev = "fixed" /\ req.passes = 0 /\ (req.quick \/ req.mode # "dd")) =>
         req.allow_fixed

(* The program takes its mount down however the run goes; it stays behind   *)
(* only when unmounting failed, when udisksctl's answer was not understood, *)
(* or when the run was killed, and never after success (create.c:387-391).  *)
MountReleased == (pc = "end" /\ mnt = "ours") => (excused /\ rc = -1)

(* The stages that write with tools or descriptors of their own and do not  *)
(* call rufux_check_target.                                                 *)
Unchecked == {"zero", "uefi", "zero1", "wipe", "syslinux", "records"}

(* What unmount_disk passed over, or what the desktop mounted since, is     *)
(* found by the stage that is about to write: a stage that calls            *)
(* rufux_check_target writes below another's mount only if that was made    *)
(* between its own check and its write, never because an earlier check or   *)
(* the unmount at the start is relied on; and the stages that fill the      *)
(* partition write through the program's own mount (create.c:760-767,       *)
(* device.c:185-251).                                                       *)
Reverified ==
  [][(medium' # medium /\ mnt = "auto") => pc \in Unchecked \/ check = "late"]_vars

(* The run ends, whatever the automounter does (create.c:83-88, 665-671).   *)
Termination == <>(pc = "end")

(* The outcome of the run, abstracted: see module Outcome. *)
Stage == IF medium = OldMedium THEN "old"
         ELSE IF Complete(req, medium) THEN "complete" ELSE "partial"
Result == IF pc # "end" THEN "none"
          ELSE IF rc # 0 THEN "failure"
          ELSE IF req.dry_run THEN "planned" ELSE "success"

Abstract == INSTANCE Outcome WITH stage <- Stage, result <- Result

(* The run implements the abstract specification of what a media creator    *)
(* may do to a drive (create.c:740-822).                                    *)
ImplementsOutcome == Abstract!Spec
=============================================================================
