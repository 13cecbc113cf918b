------------------------------ MODULE WinMedia ------------------------------
(***************************************************************************)
(* The content of Windows installation media: the stages "uefi", "image",  *)
(* "custom" and "verify" of Create in detail (src/linux/wininstall.c,      *)
(* extract.c, create.c).  The UEFI:NTFS image comes from a download cache, *)
(* the files from bsdtar or 7z, an install.wim too large for FAT32 is      *)
(* split with wimlib, from a loop mount or from a scratch copy, and the    *)
(* requirement bypass goes into boot.wim or, failing that, into an answer  *)
(* file.  Every tool may fail, and the run may be killed at any moment.    *)
(***************************************************************************)
EXTENDS Integers

CONSTANTS
  T,        \* the size of the image's tree, in units
  Setups,   \* the machines, images and options a run may meet
  Rooms     \* what may become of the five candidates for a scratch directory

SetupType ==
  [win : BOOLEAN,          \* Windows media, or the extraction of any image to a directory
   bsdtar : BOOLEAN, sevenz : BOOLEAN, wimlib : BOOLEAN, hivex : BOOLEAN,
   udf : BOOLEAN,          \* rufux_iso_is_udf
   large : BOOLEAN,        \* the image is over 50 MiB
   wim : {"none", "small", "big"}, esd : {"none", "small", "big"},
   fat : BOOLEAN,          \* the volume is FAT32
   force : BOOLEAN,        \* --split-wim
   bypass : BOOLEAN, other : BOOLEAN]   \* --wue items: the bypass, and any of the rest

(* RUFUX_TMPDIR, TMPDIR, the directory of the image, /var/tmp, /tmp: a null *)
(* pointer, an empty string, a directory with too little room, or one with  *)
(* enough.  The last two are always directories.                            *)
RoomType == {r \in [1..5 -> {"unset", "empty", "small", "room"}] :
               {r[4], r[5]} \subseteq {"small", "room"}}

ASSUME WinMediaAssumption ==
  /\ T \in Nat \ {0}
  /\ Setups \subseteq SetupType /\ Rooms \subseteq RoomType

VARIABLES
  env,      \* the setup
  room,     \* the scratch candidates
  local,    \* a copy of the UEFI:NTFS image is installed
  cache,    \* ~/.cache: "none", "short" (a download that was cut off), "whole"
  part2,    \* the UEFI:NTFS partition: "old", "torn", "whole"
  tree,     \* what the volume holds
  isomnt,   \* the image is loop-mounted
  scratch,  \* the copy's directory exists
  hive,     \* the directory of the registry hive exists
  fallback, \* the answer file has to carry the bypass
  pc, rc,   \* rc is "none" while the run lasts, then "ok" or what it failed of
  excused   \* history: umount or rm failed, or the run was killed

machine == <<env, room, local>>
vars == <<machine, cache, part2, tree, isomnt, scratch, hive, fallback, pc, rc, excused>>

TreeType ==
  [n : 0..T,                                \* units of the image that are there
   core : BOOLEAN,                          \* all files verify_windows_tree insists on
   inst : {"none", "wim", "esd", "swm", "torn"},  \* sources/install.*
   boot : {"orig", "patched"},              \* the hive in boot.wim
   answer : {"none", "root", "panther"}]    \* where the answer file is

Results == {"none", "ok", "download", "uefi", "tools", "esd", "wim", "tool", "incomplete",
            "scratch", "mkdtemp", "split", "answer", "verify", "killed"}
Labels  == {"uefi", "flash", "route", "bsdtar", "7z", "phaseA", "loop", "split", "umount",
            "scratch", "copy", "split2", "rm", "custom", "edit", "update", "readback",
            "rmhive", "answer", "verify", "end"}

-----------------------------------------------------------------------------
Go(l)  == pc' = l /\ UNCHANGED rc
End(r) == pc' = "end" /\ rc' = r

(* Where an extraction that succeeded leads. *)
ExtractDone == IF env.win THEN Go("custom") ELSE End("ok")

(* The install image of the source. *)
Image == IF env.wim # "none" THEN "wim" ELSE IF env.esd # "none" THEN "esd" ELSE "none"

(* uefi_img_path: a local copy, the cache if it is long enough, or a        *)
(* download straight into the cache, whose size is checked afterwards.      *)
UefiImage ==
  /\ pc = "uefi"
  /\ IF ~env.win \/ env.fat THEN Go("route") /\ UNCHANGED cache
     ELSE IF local \/ cache = "whole" THEN Go("flash") /\ UNCHANGED cache
     ELSE \/ cache' = "whole" /\ Go("flash")
          \/ cache' \in {cache, "short"} /\ End("download")
  /\ UNCHANGED <<machine, part2, tree, isomnt, scratch, hive, fallback, excused>>

(* Another run downloads into the same cache file. *)
OtherDownload ==
  /\ pc = "flash" /\ ~local
  /\ cache' \in {"short", "whole"}
  /\ UNCHANGED <<machine, part2, tree, isomnt, scratch, hive, fallback, pc, rc, excused>>

\* Mutant: whatever could be read is written.
WriteUefi_any_length ==
  /\ pc = "flash"
  /\ part2' = (IF local THEN "whole" ELSE cache) /\ Go("route")
  /\ UNCHANGED <<machine, cache, tree, isomnt, scratch, hive, fallback, excused>>

(* rufux_write_uefi_ntfs: the file is read now and must have its full       *)
(* length; what was written is read back and compared.                      *)
WriteUefi ==
  /\ pc = "flash"
  /\ \/ End("uefi") /\ part2' \in {"old", "torn"}
     \/ (local \/ cache = "whole") /\ part2' = "whole" /\ Go("route")
  /\ UNCHANGED <<machine, cache, tree, isomnt, scratch, hive, fallback, excused>>

-----------------------------------------------------------------------------
(* rufux_extract_iso_progress: UDF images go to 7z. *)
Plain ==
  IF env.bsdtar /\ ~env.udf THEN Go("bsdtar")
  ELSE IF env.sevenz THEN Go("7z") ELSE End("tools")

(* rufux_extract_windows_split, for FAT32 and --split-wim, up to phase A.   *)
(* "7z l" tells the sizes; if it fails they are taken for 0.                *)
Route ==
  /\ pc = "route"
  /\ IF ~env.win \/ ~(env.fat \/ env.force) THEN Plain
     ELSE IF ~env.sevenz THEN End("tools")
     ELSE \E wim \in {env.wim, "none"}, esd \in {env.esd, "none"} :
            IF esd = "big" THEN End("esd")
            ELSE IF ~env.force /\ wim # "big" THEN Plain
            ELSE IF wim = "none" THEN End("wim")
            ELSE IF ~env.wimlib THEN End("tools")
            ELSE Go("phaseA")
  /\ UNCHANGED <<machine, cache, part2, tree, isomnt, scratch, hive, fallback, excused>>

(* Less than three quarters of the image were added. *)
Incomplete(got) == env.large /\ got * 4 < T * 3

(* Files are only added; the install image may become what inst names. *)
Grown(t, inst) ==
  /\ t.n >= tree.n /\ t.core \in {tree.core, TRUE} /\ t.inst \in {tree.inst} \cup inst
  /\ t.boot = tree.boot /\ t.answer = tree.answer

(* What a tool may leave of an image when it ends without an error: all of  *)
(* it, or less.  FAT32 has no room for a file of 4 GiB.                     *)
Extracted(t) ==
  LET fits == ~(env.fat /\ "big" \in {env.wim, env.esd})
  IN /\ Grown(t, IF fits THEN {Image} ELSE {})
     /\ t.n = T => (fits /\ t.core /\ t.inst = Image)

(* A tool that failed leaves some of it, the install image perhaps cut off. *)
Broken(t) == Grown(t, {"torn"})

(* bsdtar.  Its own failure is final; too little content sends the image to *)
(* 7z if there is one.                                                      *)
Bsdtar ==
  /\ pc = "bsdtar"
  /\ \E t \in TreeType :
       /\ tree' = t
       /\ \/ Broken(t) /\ End("tool")
          \/ /\ Extracted(t)
             /\ IF ~Incomplete(t.n - tree.n) THEN ExtractDone
                ELSE IF env.sevenz THEN Go("7z") ELSE End("incomplete")
  /\ UNCHANGED <<machine, cache, part2, isomnt, scratch, hive, fallback, excused>>

(* 7z.  What it adds is measured from what is there when it starts. *)
SevenZip ==
  /\ pc = "7z"
  /\ \E t \in TreeType :
       /\ tree' = t
       /\ \/ Broken(t) /\ End("tool")
          \/ Extracted(t) /\ IF Incomplete(t.n - tree.n) THEN End("incomplete") ELSE ExtractDone
  /\ UNCHANGED <<machine, cache, part2, isomnt, scratch, hive, fallback, excused>>

-----------------------------------------------------------------------------
(* Phase A: everything but install.wim; how much came is not looked at. *)
PhaseA ==
  /\ pc = "phaseA"
  /\ \E t \in TreeType :
       /\ tree' = t /\ Grown(t, {})
       /\ End("tool") \/ ((t.n = T => t.core) /\ Go("loop"))
  /\ UNCHANGED <<machine, cache, part2, isomnt, scratch, hive, fallback, excused>>

(* iso_mount_ro. *)
LoopMount ==
  /\ pc = "loop"
  /\ \/ isomnt' = TRUE /\ Go("split")
     \/ UNCHANGED isomnt /\ Go("scratch")
  /\ UNCHANGED <<machine, cache, part2, tree, scratch, hive, fallback, excused>>

(* wimlib-imagex split, from the mount or from the copy, and resolve_ci     *)
(* before it: all parts, none, or some.                                     *)
Split(at, next) ==
  /\ pc = at
  /\ tree' \in {[tree EXCEPT !.inst = "swm"], tree, [tree EXCEPT !.inst = "torn"]}
  /\ Go(next)
  /\ UNCHANGED <<machine, cache, part2, isomnt, scratch, hive, fallback, excused>>

\* Mutant: after a failed split the image stays mounted.
IsoUmount_on_success ==
  /\ pc = "umount"
  /\ isomnt' = (tree.inst # "swm") /\ UNCHANGED excused
  /\ Go(IF tree.inst = "swm" THEN "custom" ELSE "scratch")
  /\ UNCHANGED <<machine, cache, part2, tree, scratch, hive, fallback>>

(* iso_umount; its failure is not noticed. *)
IsoUmount ==
  /\ pc = "umount"
  /\ \/ isomnt' = FALSE /\ UNCHANGED excused
     \/ UNCHANGED isomnt /\ excused' = TRUE
  /\ Go(IF tree.inst = "swm" THEN "custom" ELSE "scratch")
  /\ UNCHANGED <<machine, cache, part2, tree, scratch, hive, fallback>>

(* scratch_dir: the loop over the candidates ends at the first null pointer.*)
Tried == {i \in 1..5 : \A j \in 1..i : room[j] # "unset"}

ScratchDir ==
  /\ pc = "scratch"
  /\ IF \E i \in Tried : room[i] = "room"
       THEN \/ scratch' = TRUE /\ Go("copy")
            \/ UNCHANGED scratch /\ End("mkdtemp")
       ELSE UNCHANGED scratch /\ End("scratch")
  /\ UNCHANGED <<machine, cache, part2, tree, isomnt, hive, fallback, excused>>

(* 7z e install.wim into the scratch directory. *)
CopyWim ==
  /\ pc = "copy"
  /\ Go("split2") \/ Go("rm")
  /\ UNCHANGED <<machine, cache, part2, tree, isomnt, scratch, hive, fallback, excused>>

\* Mutant: the result of the second split is not looked at.
RmScratch_ignores_split ==
  /\ pc = "rm"
  /\ scratch' = FALSE /\ UNCHANGED excused
  /\ ExtractDone
  /\ UNCHANGED <<machine, cache, part2, tree, isomnt, hive, fallback>>

(* rm -rf scratch, then the result. *)
RmScratch ==
  /\ pc = "rm"
  /\ \/ scratch' = FALSE /\ UNCHANGED excused
     \/ UNCHANGED scratch /\ excused' = TRUE
  /\ IF tree.inst = "swm" THEN ExtractDone ELSE End("split")
  /\ UNCHANGED <<machine, cache, part2, tree, isomnt, hive, fallback>>

-----------------------------------------------------------------------------
(* rufux_windows_customize, up to the edit of boot.wim, which needs the     *)
(* tools, boot.wim and a directory.                                         *)
Customize ==
  /\ pc = "custom"
  /\ \/ ~env.bypass /\ Go("answer") /\ UNCHANGED <<hive, fallback>>
     \/ env.bypass /\ fallback' = TRUE /\ Go("answer") /\ UNCHANGED hive
     \/ /\ env.bypass /\ env.wimlib /\ env.hivex
        /\ hive' = TRUE /\ Go("edit") /\ UNCHANGED fallback
  /\ UNCHANGED <<machine, cache, part2, tree, isomnt, scratch, excused>>

(* wimlib-imagex extract, then hivexsh -w. *)
EditHive ==
  /\ pc = "edit"
  /\ \/ Go("update") /\ UNCHANGED fallback
     \/ Go("rmhive") /\ fallback' = TRUE
  /\ UNCHANGED <<machine, cache, part2, tree, isomnt, scratch, hive, excused>>

(* wimlib-imagex update replaces the archive in one step; the hive it adds  *)
(* need not hold the values.                                                *)
UpdateWim ==
  /\ pc = "update"
  /\ \/ /\ tree' \in {tree, [tree EXCEPT !.boot = "patched"]}
        /\ Go("readback") /\ UNCHANGED fallback
     \/ UNCHANGED tree /\ Go("rmhive") /\ fallback' = TRUE
  /\ UNCHANGED <<machine, cache, part2, isomnt, scratch, hive, excused>>

\* Mutant: the values are not looked for in the hive that was read back.
ReadBack_unverified ==
  /\ pc = "readback" /\ Go("rmhive") /\ UNCHANGED fallback
  /\ UNCHANGED <<machine, cache, part2, tree, isomnt, scratch, hive, excused>>

ReadBack ==
  /\ pc = "readback" /\ Go("rmhive")
  /\ \/ tree.boot = "patched" /\ UNCHANGED fallback
     \/ fallback' = TRUE
  /\ UNCHANGED <<machine, cache, part2, tree, isomnt, scratch, hive, excused>>

RmHive ==
  /\ pc = "rmhive" /\ Go("answer")
  /\ \/ hive' = FALSE /\ UNCHANGED excused
     \/ UNCHANGED hive /\ excused' = TRUE
  /\ UNCHANGED <<machine, cache, part2, tree, isomnt, scratch, fallback>>

(* The answer file, with the bypass at the root, without it in Panther. *)
AnswerFile ==
  /\ pc = "answer"
  /\ IF ~fallback /\ ~env.other THEN Go("verify") /\ UNCHANGED tree
     ELSE \/ End("answer") /\ UNCHANGED tree
          \/ /\ Go("verify")
             /\ tree' = [tree EXCEPT !.answer = IF fallback THEN "root" ELSE "panther"]
  /\ UNCHANGED <<machine, cache, part2, isomnt, scratch, hive, fallback, excused>>

(* verify_windows_tree looks for names, and sizes above 0. *)
VerifyTree ==
  /\ pc = "verify"
  /\ End(IF tree.core /\ tree.inst # "none" THEN "ok" ELSE "verify")
  /\ UNCHANGED <<machine, cache, part2, tree, isomnt, scratch, hive, fallback, excused>>

Killed ==
  /\ pc # "end" /\ End("killed") /\ excused' = TRUE
  /\ UNCHANGED <<machine, cache, part2, tree, isomnt, scratch, hive, fallback>>

-----------------------------------------------------------------------------
EmptyTree == [n |-> 0, core |-> FALSE, inst |-> "none", boot |-> "orig", answer |-> "none"]

(* The volume is new; a directory may hold what an earlier extraction left. *)
Init ==
  /\ env \in Setups /\ room \in Rooms /\ local \in BOOLEAN
  /\ cache \in {"none", "short", "whole"} /\ part2 = "old"
  /\ \E n \in 0..T : (env.win => n = 0) /\ tree = [EmptyTree EXCEPT !.n = n]
  /\ isomnt = FALSE /\ scratch = FALSE /\ hive = FALSE /\ fallback = FALSE
  /\ pc = "uefi" /\ rc = "none" /\ excused = FALSE

Program ==
  \/ UefiImage \/ WriteUefi \/ Route \/ Bsdtar \/ SevenZip
  \/ PhaseA \/ LoopMount \/ Split("split", "umount") \/ IsoUmount
  \/ ScratchDir \/ CopyWim \/ Split("split2", "rm") \/ RmScratch
  \/ Customize \/ EditHive \/ UpdateWim \/ ReadBack \/ RmHive \/ AnswerFile \/ VerifyTree

Finished == pc = "end" /\ UNCHANGED vars

Next == Program \/ OtherDownload \/ Killed \/ Finished

Spec == Init /\ [][Next]_vars
-----------------------------------------------------------------------------
(* The partition of UEFI:NTFS holds all of the image or is known to be      *)
(* torn, and the tree holds what the tools can leave there.                 *)
TypeOK ==
  /\ env \in SetupType /\ room \in RoomType /\ local \in BOOLEAN
  /\ cache \in {"none", "short", "whole"} /\ part2 \in {"old", "torn", "whole"}
  /\ tree \in TreeType
  /\ isomnt \in BOOLEAN /\ scratch \in BOOLEAN /\ hive \in BOOLEAN
  /\ fallback \in BOOLEAN /\ excused \in BOOLEAN
  /\ pc \in Labels /\ rc \in Results

(* Windows media that are reported finished can install: the boot files are *)
(* there, the install image is whole, as one file or as the parts of one    *)
(* split that went through, and FAT32 holds none of 4 GiB; on NTFS the      *)
(* UEFI:NTFS partition is whole, although another run may download into the *)
(* same cache (wininstall.c:152-282, extract.c:252-347, create.c:557-594).  *)
Installable ==
  (rc = "ok" /\ env.win) =>
    /\ tree.core /\ tree.inst \in {"wim", "esd", "swm"}
    /\ (env.fat /\ tree.inst = "wim") => env.wim = "small"
    /\ (env.fat /\ tree.inst = "esd") => env.esd = "small"
    /\ ~env.fat => part2 = "whole"

(* If the requirement bypass was asked for, it is in effect on finished     *)
(* media, in boot.wim, where it was read back, or in the answer file at the *)
(* root (wininstall.c:614-705).                                             *)
BypassInEffect ==
  (rc = "ok" /\ env.win /\ env.bypass) => (tree.boot = "patched" \/ tree.answer = "root")

(* Loop mount, scratch copy and hive directory are gone when the run ends,  *)
(* on every path, unless umount or rm failed or the run was killed          *)
(* (extract.c:320-344, wininstall.c:678).                                   *)
NothingLeft == (pc = "end" /\ ~excused) => ~(isomnt \/ scratch \/ hive)

(* "A directory with room for `need` bytes: RUFUX_TMPDIR, TMPDIR, the       *)
(* directory the image itself lives in (usually a roomy disk), /var/tmp,    *)
(* /tmp." (extract.c:188-189): the split fails for want of scratch space    *)
(* only if none of the five has room.                                       *)
ScratchFound == rc = "scratch" => \A i \in 1..5 : room[i] # "room"
=============================================================================
