---------------------------- MODULE CreateProofs ----------------------------
(***************************************************************************)
(* Proofs about Create, for every set of requests.  The properties speak   *)
(* of the end of a run; IInv says for each stage what the stages before it *)
(* have left on the drive, who has it mounted, and what must have been     *)
(* consented to.  The refinement of Outcome follows from the same          *)
(* invariant.                                                              *)
(***************************************************************************)
EXTENDS Create, TLAPS

(* The labels a run reaches when it is through with a stage. *)
PastMbr       == {"records", "report"}
PastVerify    == {"bios", "release", "mbr"} \cup PastMbr
PastCustom    == {"verify"} \cup PastVerify
PastPersist   == {"custom"} \cup PastCustom
PastAutorun   == {"persist"} \cup PastPersist
PastImage     == {"autorun"} \cup PastAutorun
PastFormat    == {"syslinux", "mount", "mount2", "image"} \cup PastImage
PastUefi      == {"zero1", "wipe", "format"} \cup PastFormat
PastPartition == {"node", "uefi"} \cup PastUefi
PastDd        == {"partition"} \cup PastPartition

(* The stages between mount and unmount. *)
Mounted == {"image", "autorun", "persist", "custom", "verify", "bios", "release"}

(* What the stages before l have put on the medium for good. *)
Built(r, m, l) ==
  /\ (r.mode = "dd" /\ l \in PastDd) => m.table = "image"
  /\ (OnDisk(r) /\ l \in PastPartition) => m.table = AskedTable(r)
  /\ (r.mode = "windows" /\ l \in PastUefi) => m.uefi = (Fs(r) = "ntfs")
  /\ ((OnDisk(r) \/ r.mode = "format") /\ l \in PastFormat) => m.fs = Fs(r)
  /\ (r.mode = "extract" /\ l \in PastImage) => m.files \cap {"image", "most"} # {}
  /\ (r.mode = "dos" /\ l \in PastImage) => "image" \in m.files
  /\ (r.mode = "windows" /\ l \in PastVerify) => "image" \in m.files
  /\ (r.mode = "extract" /\ r.autorun /\ l \in PastAutorun) => "autorun" \in m.files
  /\ (r.mode = "extract" /\ r.persist /\ l \in PastPersist) => "persist" \in m.files
  /\ (r.mode = "windows" /\ r.custom /\ l \in PastCustom) => "custom" \in m.files
  /\ (OnDisk(r) /\ r.mode \in {"extract", "format"} /\ l \in PastMbr) =>
        m.code = (IF AskedTable(r) = "gpt" THEN "gptmbr" ELSE "mbr")
  /\ (r.mode = "dos" /\ l = "report") => m.code = "dosmbr" /\ m.pbr = "freedos"

(* As long as nothing has failed, a real run has built all it went past,    *)
(* and all that was asked for when it ends.                                 *)
Progress ==
  (rc = 0 /\ ~req.dry_run) =>
    IF pc = "end" THEN Complete(req, medium) ELSE Built(req, medium, pc)

(* Only Windows media on NTFS get the UEFI:NTFS image. *)
UefiAsked == medium.uefi => req.mode = "windows" /\ Fs(req) = "ntfs"

(* After a failure a run goes to the unmount and out. *)
FailingOut == rc = -1 => pc = "end" \/ (pc = "release" /\ Mounts(req))

(* How far a run gets without consent. *)
DryRun == req.dry_run => medium = OldMedium /\ pc \in {"start", "report", "end"}
Agreed == (~req.dry_run /\ pc \notin {"start", "end"}) => req.yes
Untouched ==
  (~req.yes \/ (Block(req) /\ failing /\ ~req.ignore_smart)) => medium = OldMedium
Healthy ==
  (Block(req) /\ failing /\ ~req.ignore_smart /\ ~req.dry_run) =>
     pc \in {"start", "unmount", "smart", "end"}
FixedKept ==
  (req.dev = "fixed" /\ ~req.allow_fixed /\ ~req.dry_run) =>
    /\ pc \notin PastPartition /\ (req.mode = "dd" => pc # "partition")
    /\ (req.passes = 0 /\ (req.quick \/ req.mode # "dd")) => medium = OldMedium

(* Who has the drive mounted. *)
Ours ==
  /\ mnt = "auto" => Block(req)
  /\ mnt = "ours" => /\ Mounts(req)
                     /\ \/ pc \in Mounted
                        \/ excused /\ pc = "mount2"
                        \/ excused /\ pc = "end" /\ rc = -1
  /\ (pc \in Mounted /\ Mounts(req)) => mnt = "ours"
  /\ pc = "mount2" => Mounts(req)

Consent == DryRun /\ Agreed /\ Untouched /\ Healthy /\ FixedKept

(* What a stage may go by once its check has passed: the device is one it   *)
(* may write to, and nobody has it mounted unless that came later.          *)
Looked ==
  /\ check # "none" => /\ pc \in CheckedStages
                       /\ req.dev = "fixed" => AllowFixed(pc)
  /\ check = "passed" => mnt # "auto"

(* The inductive invariant. *)
IInv == /\ TypeOK /\ Progress /\ UefiAsked /\ FailingOut /\ Consent /\ Ours
        /\ Looked

(* Facts about the stages, so that a step need not open the tables of       *)
(* Create: the successor of each stage, and which requests have it.         *)
LEMMA SuccIs ==
  /\ Succ("unmount") = "smart"
  /\ Succ("smart") = "badblocks"
  /\ Succ("badblocks") = "zero"
  /\ Succ("zero") = "plan"
  /\ Succ("plan") = "dd"
  /\ Succ("dd") = "partition"
  /\ Succ("partition") = "node"
  /\ Succ("node") = "uefi"
  /\ Succ("uefi") = "zero1"
  /\ Succ("zero1") = "wipe"
  /\ Succ("wipe") = "format"
  /\ Succ("format") = "syslinux"
  /\ Succ("syslinux") = "mount"
  /\ Succ("mount") = "image"
  /\ Succ("image") = "autorun"
  /\ Succ("autorun") = "persist"
  /\ Succ("persist") = "custom"
  /\ Succ("custom") = "verify"
  /\ Succ("verify") = "bios"
  /\ Succ("bios") = "release"
  /\ Succ("release") = "mbr"
  /\ Succ("mbr") = "records"
  /\ Succ("records") = "report"
  BY DEF Succ

LEMMA AppliesIs ==
  ASSUME NEW r
  PROVE
    /\ Applies(r, "unmount") <=> Block(r)
    /\ Applies(r, "smart") <=> Block(r)
    /\ Applies(r, "badblocks") <=> (r.passes > 0)
    /\ Applies(r, "zero") <=> (~r.quick /\ Block(r) /\ r.mode = "dd")
    /\ Applies(r, "plan") <=> TRUE
    /\ Applies(r, "dd") <=> (r.mode = "dd")
    /\ Applies(r, "partition") <=> OnDisk(r)
    /\ Applies(r, "node") <=> OnDisk(r)
    /\ Applies(r, "uefi") <=> (r.mode = "windows" /\ Fs(r) = "ntfs")
    /\ Applies(r, "zero1") <=> (OnDisk(r) /\ ~r.quick /\ r.mode # "dos")
    /\ Applies(r, "wipe") <=> (r.mode = "windows")
    /\ Applies(r, "format") <=> (OnDisk(r) \/ r.mode = "format")
    /\ Applies(r, "syslinux") <=> (OnDisk(r) /\ r.mode \in {"extract", "format"} /\ Scheme(r) = "dos" /\ r.fs \in {"vfat", "fat16", "ext4"})
    /\ Applies(r, "mount") <=> Mounts(r)
    /\ Applies(r, "image") <=> (r.mode \in {"extract", "dos", "windows"})
    /\ Applies(r, "autorun") <=> (r.mode = "extract" /\ r.autorun)
    /\ Applies(r, "persist") <=> (r.mode = "extract" /\ r.persist)
    /\ Applies(r, "custom") <=> (r.mode = "windows" /\ r.custom)
    /\ Applies(r, "verify") <=> (r.mode = "windows")
    /\ Applies(r, "bios") <=> (r.mode = "windows")
    /\ Applies(r, "release") <=> Mounts(r)
    /\ Applies(r, "mbr") <=> (OnDisk(r) /\ r.mode \in {"extract", "format"})
    /\ Applies(r, "records") <=> (r.mode = "dos")
  BY DEF Applies

(* The media the stages make are media. *)
LEMMA MediaTyped ==
  /\ OldMedium \in MediumType /\ WipedMedium \in MediumType
  /\ WipedMedium.table = "none" /\ WipedMedium.uefi = FALSE
  BY DEF OldMedium, WipedMedium, MediumType

(* The table and the file system a flow asks for are ones it can have, and  *)
(* whatever name the scheme was given the table is the one it means.        *)
LEMMA RequestFacts ==
  ASSUME TypeOK
  PROVE  /\ Scheme(req) \in {"gpt", "dos"} /\ PartTable(req) \in {"gpt", "dos"}
         /\ OnDisk(req) => PartTable(req) = AskedTable(req)
         /\ Scheme(req) = "gpt" <=> req.scheme = "gpt"
         /\ Fs(req) \in FileSystems
         /\ req.mode = "dd" => ~OnDisk(req)
  <1>1. /\ req.scheme \in {"gpt", "dos", "mbr"} /\ req.fs \in FileSystems
        /\ req.mode \in {"dd", "extract", "format", "dos", "windows"}
    BY DEF TypeOK, RequestType
  <1>2. QED
    BY <1>1 DEF Scheme, PartTable, AskedTable, Fs, FileSystems, OnDisk

(* What is to be shown of a step's type, piece by piece. *)
LEMMA TypeParts ==
  ASSUME TypeOK, medium' \in MediumType, mnt' \in {"none", "auto", "ours"},
         excused' \in BOOLEAN, check' \in {"none", "passed", "late"},
         pc' \in Labels, rc' \in {0, -1}, UNCHANGED <<req, failing>>
  PROVE  TypeOK'
  BY DEF TypeOK

(* A check speaks for its own stage: whatever leaves the stage forgets it.  *)
LEMMA LookedStep == IInv /\ [Next]_vars => Looked'
  <1> SUFFICES ASSUME IInv, [Next]_vars PROVE Looked'
    OBVIOUS
  <1>0. Looked /\ Ours
    BY DEF IInv
  <1>1. CASE TargetCheck
    <2>1. CASE Fail
      BY <2>1 DEF Fail, Looked
    <2>2. CASE /\ CheckTarget(AllowFixed(pc), AllowFile(pc)) /\ check' = "passed"
               /\ UNCHANGED <<req, mnt, pc>>
      <3>1. mnt # "auto"
        BY <1>0, <2>2 DEF CheckTarget, Ours
      <3>2. pc \in CheckedStages /\ (req.dev = "fixed" => AllowFixed(pc))
        BY <1>1, <2>2 DEF TargetCheck, CheckTarget
      <3>3. QED
        BY <2>2, <3>1, <3>2 DEF Looked, AllowFixed
    <2>3. QED
      BY <1>1, <2>1, <2>2 DEF TargetCheck
  <1>2. CASE Program /\ ~TargetCheck
    <2>1. check' = "none"
      BY <1>2 DEF Program, Start, Skip, UnmountDisk, SmartCheck, BadBlocks, ZeroDisk,
         Plan, WriteImage, MakeTable, WaitNode, WriteUefi, ClearPartition, Format,
         Syslinux, Mount, Content, ContentFails, ExtractPart, VerifyTree, BiosInstall,
         Release, InstallMbr, DosRecords, Report, Goto, Pass, Fail
    <2>2. QED
      BY <2>1 DEF Looked
  <1>3. CASE Automount \/ UserUnmounts \/ Killed \/ Finished \/ UNCHANGED vars
    BY <1>0, <1>3 DEF Automount, UserUnmounts, Killed, Fail, Finished, vars, Looked,
       AllowFixed
  <1>4. QED
    BY <1>1, <1>2, <1>3 DEF Next

(* The options a run has are never changed by it, and each stage keeps the  *)
(* invariant.                                                               *)
LEMMA Step == IInv /\ [Next]_vars => IInv'
  <1> SUFFICES ASSUME IInv, [Next]_vars PROVE IInv'
    OBVIOUS
  <1> USE DEF PastMbr, PastVerify, PastCustom, PastPersist, PastAutorun, PastImage,
              PastFormat, PastUefi, PastPartition, PastDd, Goto, Checked
  <1>0. TypeOK /\ Progress /\ UefiAsked /\ FailingOut /\ Consent /\ Ours /\ Looked
    BY DEF IInv
  <1>a. Looked'
    BY LookedStep
  <1>1. CASE Start
    <2>1. TypeOK'
      BY <1>0, <1>1, SuccIs, AppliesIs DEF Start, Fail, TypeOK, Labels, Stages,
         MediumType
    <2>4. Progress'
      BY <1>0, <1>1, SuccIs, AppliesIs DEF Start, Fail, TypeOK, MediumType, FailingOut,
         Progress, UefiAsked, Built, AskedTable, OnDisk, Fs, Consent, Agreed, DryRun
    <2>5. UefiAsked' /\ FailingOut'
      BY <1>0, <1>1, SuccIs, AppliesIs DEF Start, Fail, TypeOK, MediumType, UefiAsked,
         FailingOut, Consent, Agreed, DryRun
    <2>6. Consent'
      BY <1>0, <1>1, SuccIs, AppliesIs DEF Start, Fail, TypeOK, FailingOut, Consent,
         DryRun, Agreed, Untouched, Healthy, FixedKept, OnDisk, Block, RequestType
    <2>7. Ours'
      BY <1>0, <1>1, SuccIs, AppliesIs DEF Start, Fail, TypeOK, FailingOut, Ours,
         Mounted, Mounts, OnDisk, Block
    <2>8. QED
      BY <2>1, <2>4, <2>5, <2>6, <2>7, <1>a DEF IInv
  <1>2. CASE Skip
    <2>1. /\ pc \in Stages /\ ~Applies(req, pc) /\ pc' = Succ(pc)
          /\ UNCHANGED <<req, failing, medium, mnt, excused, rc>>
      BY <1>2 DEF Skip, Pass
    <2>2. TypeOK'
      <3>1. pc' \in Labels
        BY <2>1, SuccIs DEF Stages, Labels
      <3>2. QED
        BY <1>0, <1>2, <2>1, <3>1 DEF TypeOK, Skip, Pass
    <2>3. Progress'
      BY <1>0, <2>1, SuccIs, AppliesIs, RequestFacts DEF Stages, Progress, UefiAsked,
         TypeOK, MediumType, Built
    <2>4. UefiAsked' /\ FailingOut'
      BY <1>0, <2>1, SuccIs, AppliesIs DEF Stages, UefiAsked, FailingOut
    <2>5. Consent'
      BY <1>0, <2>1, SuccIs, AppliesIs DEF Stages, Consent, DryRun, Agreed, Untouched,
         Healthy, FixedKept, OnDisk, Block, TypeOK, RequestType
    <2>6. Ours'
      BY <1>0, <2>1, SuccIs, AppliesIs DEF Stages, Ours, Mounted, FailingOut
    <2>7. QED
      BY <2>2, <2>3, <2>4, <2>5, <2>6, <1>a DEF IInv
  <1>3. CASE UnmountDisk
    <2>1. TypeOK'
      BY <1>0, <1>3, SuccIs, AppliesIs DEF UnmountDisk, At, Pass, Fail, TypeOK, Labels,
         Stages, MediumType
    <2>4. Progress'
      BY <1>0, <1>3, SuccIs, AppliesIs DEF UnmountDisk, At, Pass, Fail, TypeOK,
         MediumType, FailingOut, Progress, UefiAsked, Built, AskedTable, OnDisk, Fs,
         Consent, Agreed, DryRun
    <2>5. UefiAsked' /\ FailingOut'
      BY <1>0, <1>3, SuccIs, AppliesIs DEF UnmountDisk, At, Pass, Fail, TypeOK,
         MediumType, UefiAsked, FailingOut, Consent, Agreed, DryRun
    <2>6. Consent'
      BY <1>0, <1>3, SuccIs, AppliesIs DEF UnmountDisk, At, Pass, Fail, TypeOK,
         FailingOut, Consent, DryRun, Agreed, Untouched, Healthy, FixedKept, OnDisk,
         Block, RequestType
    <2>7. Ours'
      BY <1>0, <1>3, SuccIs, AppliesIs DEF UnmountDisk, At, Pass, Fail, TypeOK,
         FailingOut, Ours, Mounted, Mounts, OnDisk, Block
    <2>8. QED
      BY <2>1, <2>4, <2>5, <2>6, <2>7, <1>a DEF IInv
  <1>4. CASE SmartCheck
    <2>1. TypeOK'
      BY <1>0, <1>4, SuccIs, AppliesIs DEF SmartCheck, At, Pass, Fail, TypeOK, Labels,
         Stages, MediumType
    <2>4. Progress'
      BY <1>0, <1>4, SuccIs, AppliesIs DEF SmartCheck, At, Pass, Fail, TypeOK,
         MediumType, FailingOut, Progress, UefiAsked, Built, AskedTable, OnDisk, Fs,
         Consent, Agreed, DryRun
    <2>5. UefiAsked' /\ FailingOut'
      BY <1>0, <1>4, SuccIs, AppliesIs DEF SmartCheck, At, Pass, Fail, TypeOK,
         MediumType, UefiAsked, FailingOut, Consent, Agreed, DryRun
    <2>6. Consent'
      BY <1>0, <1>4, SuccIs, AppliesIs DEF SmartCheck, At, Pass, Fail, TypeOK,
         FailingOut, Consent, DryRun, Agreed, Untouched, Healthy, FixedKept, OnDisk,
         Block, RequestType
    <2>7. Ours'
      BY <1>0, <1>4, SuccIs, AppliesIs DEF SmartCheck, At, Pass, Fail, TypeOK,
         FailingOut, Ours, Mounted, Mounts, OnDisk, Block
    <2>8. QED
      BY <2>1, <2>4, <2>5, <2>6, <2>7, <1>a DEF IInv
  <1>5. CASE BadBlocks
    <2>1. TypeOK'
      <3>1. medium' \in MediumType
        BY <1>0, <1>5, MediaTyped, RequestFacts DEF BadBlocks, At, Pass,
           Fail, Holds, TypeOK, MediumType
      <3>2. pc' \in Labels /\ rc' \in {0, -1} /\ UNCHANGED <<req, failing>>
        BY <1>0, <1>5, SuccIs DEF BadBlocks, At, Pass, Fail, Holds, TypeOK,
           Labels, Stages
      <3>3. /\ mnt' \in {"none", "auto", "ours"} /\ excused' \in BOOLEAN
            /\ check' \in {"none", "passed", "late"}
        BY <1>0, <1>5 DEF BadBlocks, At, Pass, Fail, Holds, TypeOK
      <3>4. QED
        BY <1>0, <3>1, <3>2, <3>3, TypeParts
    <2>4. Progress'
      BY <1>0, <1>5, SuccIs, AppliesIs DEF BadBlocks, WipedMedium,
         OldMedium, At, Pass, Fail, Holds, TypeOK, MediumType, FailingOut, Progress,
         UefiAsked, Built, AskedTable, OnDisk, Fs, Consent, Agreed, DryRun
    <2>5. UefiAsked' /\ FailingOut'
      BY <1>0, <1>5, SuccIs, AppliesIs DEF BadBlocks, WipedMedium,
         OldMedium, At, Pass, Fail, Holds, TypeOK, MediumType, UefiAsked, FailingOut,
         Consent, Agreed, DryRun
    <2>6. Consent'
      BY <1>0, <1>5, SuccIs, AppliesIs DEF BadBlocks, Looked, AllowFixed, WipedMedium,
         OldMedium, At, Pass, Fail, Holds, TypeOK, FailingOut, Consent, DryRun, Agreed,
         Untouched, Healthy, FixedKept, OnDisk, Block, RequestType
    <2>7. Ours'
      BY <1>0, <1>5, SuccIs, AppliesIs DEF BadBlocks, WipedMedium,
         OldMedium, At, Pass, Fail, Holds, TypeOK, FailingOut, Ours, Mounted, Mounts,
         OnDisk, Block
    <2>8. QED
      BY <2>1, <2>4, <2>5, <2>6, <2>7, <1>a DEF IInv
  <1>6. CASE ZeroDisk
    <2>1. TypeOK'
      <3>1. medium' \in MediumType
        BY <1>0, <1>6, MediaTyped, RequestFacts DEF ZeroDisk, At, Pass, Fail, Holds,
           TypeOK, MediumType
      <3>2. pc' \in Labels /\ rc' \in {0, -1} /\ UNCHANGED <<req, failing>>
        BY <1>0, <1>6, SuccIs DEF ZeroDisk, At, Pass, Fail, Holds, TypeOK, Labels,
           Stages
      <3>3. /\ mnt' \in {"none", "auto", "ours"} /\ excused' \in BOOLEAN
            /\ check' \in {"none", "passed", "late"}
        BY <1>0, <1>6 DEF ZeroDisk, At, Pass, Fail, Holds, TypeOK
      <3>4. QED
        BY <1>0, <3>1, <3>2, <3>3, TypeParts
    <2>4. Progress'
      BY <1>0, <1>6, SuccIs, AppliesIs DEF ZeroDisk, WipedMedium, OldMedium, At, Pass,
         Fail, Holds, TypeOK, MediumType, FailingOut, Progress, UefiAsked, Built,
         AskedTable, OnDisk, Fs, Consent, Agreed, DryRun
    <2>5. UefiAsked' /\ FailingOut'
      BY <1>0, <1>6, SuccIs, AppliesIs DEF ZeroDisk, WipedMedium, OldMedium, At, Pass,
         Fail, Holds, TypeOK, MediumType, UefiAsked, FailingOut, Consent, Agreed, DryRun
    <2>6. Consent'
      BY <1>0, <1>6, SuccIs, AppliesIs DEF ZeroDisk, WipedMedium, OldMedium, At, Pass,
         Fail, Holds, TypeOK, FailingOut, Consent, DryRun, Agreed, Untouched, Healthy,
         FixedKept, OnDisk, Block, RequestType
    <2>7. Ours'
      BY <1>0, <1>6, SuccIs, AppliesIs DEF ZeroDisk, WipedMedium, OldMedium, At, Pass,
         Fail, Holds, TypeOK, FailingOut, Ours, Mounted, Mounts, OnDisk, Block
    <2>8. QED
      BY <2>1, <2>4, <2>5, <2>6, <2>7, <1>a DEF IInv
  <1>7. CASE Plan
    <2>1. TypeOK'
      BY <1>0, <1>7, SuccIs, AppliesIs DEF Plan, At, Pass, Fail, TypeOK, Labels, Stages,
         MediumType
    <2>4. Progress'
      BY <1>0, <1>7, SuccIs, AppliesIs DEF Plan, At, Pass, Fail, TypeOK, MediumType,
         FailingOut, Progress, UefiAsked, Built, AskedTable, OnDisk, Fs, Consent,
         Agreed, DryRun
    <2>5. UefiAsked' /\ FailingOut'
      BY <1>0, <1>7, SuccIs, AppliesIs DEF Plan, At, Pass, Fail, TypeOK, MediumType,
         UefiAsked, FailingOut, Consent, Agreed, DryRun
    <2>6. Consent'
      BY <1>0, <1>7, SuccIs, AppliesIs DEF Plan, At, Pass, Fail, TypeOK, FailingOut,
         Consent, DryRun, Agreed, Untouched, Healthy, FixedKept, OnDisk, Block,
         RequestType
    <2>7. Ours'
      BY <1>0, <1>7, SuccIs, AppliesIs DEF Plan, At, Pass, Fail, TypeOK, FailingOut,
         Ours, Mounted, Mounts, OnDisk, Block
    <2>8. QED
      BY <2>1, <2>4, <2>5, <2>6, <2>7, <1>a DEF IInv
  <1>8. CASE WriteImage
    <2>1. TypeOK'
      <3>1. medium' \in MediumType
        BY <1>0, <1>8, MediaTyped, RequestFacts DEF WriteImage, At, Pass,
           Fail, Holds, TypeOK, MediumType
      <3>2. pc' \in Labels /\ rc' \in {0, -1} /\ UNCHANGED <<req, failing>>
        BY <1>0, <1>8, SuccIs DEF WriteImage, At, Pass, Fail, Holds,
           TypeOK, Labels, Stages
      <3>3. /\ mnt' \in {"none", "auto", "ours"} /\ excused' \in BOOLEAN
            /\ check' \in {"none", "passed", "late"}
        BY <1>0, <1>8 DEF WriteImage, At, Pass, Fail, Holds, TypeOK
      <3>4. QED
        BY <1>0, <3>1, <3>2, <3>3, TypeParts
    <2>4. Progress'
      <3>1. CASE rc' = -1
        BY <3>1 DEF Progress
      <3>2. CASE rc' # -1
        <4>1. /\ Pass("dd") /\ UNCHANGED req /\ req.mode = "dd"
              /\ medium' = [WipedMedium EXCEPT !.table = "image", !.code = "none"]
          BY <1>8, <3>2, AppliesIs DEF WriteImage, At, Fail, Holds
        <4>2. medium'.table = "image" /\ pc' = "partition"
          BY <4>1, MediaTyped, SuccIs DEF MediumType, Pass
        <4>3. QED
          BY <1>0, <4>1, <4>2, RequestFacts DEF Progress, Built
      <3>3. QED
        BY <3>1, <3>2
    <2>5. UefiAsked' /\ FailingOut'
      BY <1>0, <1>8, SuccIs, AppliesIs DEF WriteImage, WipedMedium,
         OldMedium, At, Pass, Fail, Holds, TypeOK, MediumType, UefiAsked, FailingOut,
         Consent, Agreed, DryRun
    <2>6. Consent'
      BY <1>0, <1>8, SuccIs, AppliesIs DEF WriteImage, Looked, AllowFixed, WipedMedium,
         OldMedium, At, Pass, Fail, Holds, TypeOK, FailingOut, Consent, DryRun, Agreed,
         Untouched, Healthy, FixedKept, OnDisk, Block, RequestType
    <2>7. Ours'
      BY <1>0, <1>8, SuccIs, AppliesIs DEF WriteImage, WipedMedium,
         OldMedium, At, Pass, Fail, Holds, TypeOK, FailingOut, Ours, Mounted, Mounts,
         OnDisk, Block
    <2>8. QED
      BY <2>1, <2>4, <2>5, <2>6, <2>7, <1>a DEF IInv
  <1>9. CASE MakeTable
    <2>1. PICK m \in MediumType :
            /\ medium' = m /\ (m.uefi => medium.uefi)
            /\ \/ rc' = -1 /\ Fail
               \/ /\ m.table = AskedTable(req) /\ m.uefi = FALSE /\ Pass("partition")
      <3>1. CASE Fail /\ UNCHANGED medium
        BY <1>0, <3>1 DEF TypeOK, Fail
      <3>2. CASE Fail /\ Holds(WipedMedium)
        BY <3>2, MediaTyped DEF Fail, Holds
      <3>3. CASE \E c \in {"mbr", "none"} :
                   /\ Holds([WipedMedium EXCEPT !.table = PartTable(req), !.code = c])
                   /\ Fail \/ Pass("partition")
        <4>1. PICK c \in {"mbr", "none"} :
                /\ Holds([WipedMedium EXCEPT !.table = PartTable(req), !.code = c])
                /\ Fail \/ Pass("partition")
          BY <3>3
        <4>2. PartTable(req) \in {"gpt", "dos"} /\ PartTable(req) = AskedTable(req)
          BY <1>0, <1>9, RequestFacts, AppliesIs DEF MakeTable, At
        <4> DEFINE m == [WipedMedium EXCEPT !.table = PartTable(req), !.code = c]
        <4>3. m \in MediumType /\ m.table = PartTable(req) /\ m.uefi = FALSE
          BY <4>2, MediaTyped DEF MediumType
        <4>4. QED
          BY <4>1, <4>2, <4>3 DEF Holds, Fail
      <3>4. QED
        BY <1>9, <3>1, <3>2, <3>3 DEF MakeTable
    <2>2. pc = "partition" /\ OnDisk(req) /\ UNCHANGED <<req, failing, mnt, excused>>
      BY <1>9, AppliesIs DEF MakeTable, At
    <2>3. TypeOK'
      <3>1. pc' \in Labels /\ rc' \in {0, -1}
        <4>1. CASE Fail
          BY <4>1 DEF Fail, Labels
        <4>2. CASE Pass("partition")
          BY <1>0, <4>2, SuccIs DEF Pass, Labels, Stages, TypeOK
        <4>3. QED
          BY <2>1, <4>1, <4>2
      <3>2. check' \in {"none", "passed", "late"}
        BY <1>0, <1>9 DEF MakeTable, Pass, Fail
      <3>3. QED
        BY <1>0, <2>1, <2>2, <3>1, <3>2, TypeParts DEF TypeOK
    <2>4. Progress'
      <3>1. CASE rc' = -1
        BY <3>1 DEF Progress
      <3>2. CASE rc' # -1
        <4>1. m.table = AskedTable(req) /\ pc' = "node" /\ UNCHANGED rc
          BY <2>1, <3>2, SuccIs DEF Pass
        <4>2. QED
          BY <1>0, <2>1, <2>2, <4>1, RequestFacts DEF Progress, Built
      <3>3. QED
        BY <3>1, <3>2
    <2>5. UefiAsked' /\ FailingOut'
      BY <1>0, <2>1, <2>2, SuccIs DEF UefiAsked, FailingOut, Pass, Fail
    <2>6. Consent'
      BY <1>0, <1>9, SuccIs, AppliesIs DEF MakeTable, Looked, AllowFixed, PartTable, Scheme,
         WipedMedium, OldMedium, At, Pass, Fail, Holds, TypeOK, FailingOut, Consent,
         DryRun, Agreed, Untouched, Healthy, FixedKept, OnDisk, Block, RequestType
    <2>7. Ours'
      BY <1>0, <1>9, SuccIs, AppliesIs DEF MakeTable, PartTable, Scheme,
         WipedMedium, OldMedium, At, Pass, Fail, Holds, TypeOK, FailingOut, Ours,
         Mounted, Mounts, OnDisk, Block
    <2>8. QED
      BY <2>3, <2>4, <2>5, <2>6, <2>7, <1>a DEF IInv
  <1>10. CASE WaitNode
    <2>1. TypeOK'
      BY <1>0, <1>10, SuccIs, AppliesIs DEF WaitNode, At, Pass, Fail, TypeOK, Labels,
         Stages, MediumType
    <2>4. Progress'
      BY <1>0, <1>10, SuccIs, AppliesIs DEF WaitNode, At, Pass, Fail, TypeOK,
         MediumType, FailingOut, Progress, UefiAsked, Built, AskedTable, OnDisk, Fs,
         Consent, Agreed, DryRun
    <2>5. UefiAsked' /\ FailingOut'
      BY <1>0, <1>10, SuccIs, AppliesIs DEF WaitNode, At, Pass, Fail, TypeOK,
         MediumType, UefiAsked, FailingOut, Consent, Agreed, DryRun
    <2>6. Consent'
      BY <1>0, <1>10, SuccIs, AppliesIs DEF WaitNode, At, Pass, Fail, TypeOK,
         FailingOut, Consent, DryRun, Agreed, Untouched, Healthy, FixedKept, OnDisk,
         Block, RequestType
    <2>7. Ours'
      BY <1>0, <1>10, SuccIs, AppliesIs DEF WaitNode, At, Pass, Fail, TypeOK,
         FailingOut, Ours, Mounted, Mounts, OnDisk, Block
    <2>8. QED
      BY <2>1, <2>4, <2>5, <2>6, <2>7, <1>a DEF IInv
  <1>11. CASE WriteUefi
    <2>1. TypeOK'
      BY <1>0, <1>11, SuccIs, AppliesIs DEF WriteUefi, At, Pass, Fail, Holds, TypeOK,
         Labels, Stages, MediumType
    <2>4. Progress'
      <3>1. CASE rc' = -1
        BY <3>1 DEF Progress
      <3>2. CASE rc' # -1
        <4>1. /\ pc = "uefi" /\ pc' = "zero1" /\ UNCHANGED <<req, rc>> /\ req.mode = "windows" /\ Fs(req) = "ntfs"
              /\ medium' = [medium EXCEPT !.uefi = TRUE]
          BY <1>11, <3>2, AppliesIs, SuccIs DEF WriteUefi, At, Fail, Pass, Holds
        <4>2. medium'.uefi = TRUE /\ medium'.table = medium.table
          BY <1>0, <4>1 DEF MediumType, TypeOK
        <4>3. QED
          BY <1>0, <4>1, <4>2, RequestFacts DEF Progress, Built
      <3>3. QED
        BY <3>1, <3>2
    <2>5. UefiAsked' /\ FailingOut'
      BY <1>0, <1>11, SuccIs, AppliesIs DEF WriteUefi, At, Pass, Fail, Holds, TypeOK,
         MediumType, UefiAsked, FailingOut, Consent, Agreed, DryRun
    <2>6. Consent'
      BY <1>0, <1>11, SuccIs, AppliesIs DEF WriteUefi, At, Pass, Fail, Holds, TypeOK,
         FailingOut, Consent, DryRun, Agreed, Untouched, Healthy, FixedKept, OnDisk,
         Block, RequestType
    <2>7. Ours'
      BY <1>0, <1>11, SuccIs, AppliesIs DEF WriteUefi, At, Pass, Fail, Holds, TypeOK,
         FailingOut, Ours, Mounted, Mounts, OnDisk, Block
    <2>8. QED
      BY <2>1, <2>4, <2>5, <2>6, <2>7, <1>a DEF IInv
  <1>12. CASE ClearPartition("zero1")
    <2>1. TypeOK'
      BY <1>0, <1>12, SuccIs, AppliesIs DEF ClearPartition, At, Pass, Fail, Holds,
         TypeOK, Labels, Stages, MediumType
    <2>4. Progress'
      BY <1>0, <1>12, SuccIs, AppliesIs DEF ClearPartition, At, Pass, Fail, Holds,
         TypeOK, MediumType, FailingOut, Progress, UefiAsked, Built, AskedTable, OnDisk,
         Fs, Consent, Agreed, DryRun
    <2>5. UefiAsked' /\ FailingOut'
      BY <1>0, <1>12, SuccIs, AppliesIs DEF ClearPartition, At, Pass, Fail, Holds,
         TypeOK, MediumType, UefiAsked, FailingOut, Consent, Agreed, DryRun
    <2>6. Consent'
      BY <1>0, <1>12, SuccIs, AppliesIs DEF ClearPartition, At, Pass, Fail, Holds,
         TypeOK, FailingOut, Consent, DryRun, Agreed, Untouched, Healthy, FixedKept,
         OnDisk, Block, RequestType
    <2>7. Ours'
      BY <1>0, <1>12, SuccIs, AppliesIs DEF ClearPartition, At, Pass, Fail, Holds,
         TypeOK, FailingOut, Ours, Mounted, Mounts, OnDisk, Block
    <2>8. QED
      BY <2>1, <2>4, <2>5, <2>6, <2>7, <1>a DEF IInv
  <1>13. CASE ClearPartition("wipe")
    <2>1. TypeOK'
      BY <1>0, <1>13, SuccIs, AppliesIs DEF ClearPartition, At, Pass, Fail, Holds,
         TypeOK, Labels, Stages, MediumType
    <2>4. Progress'
      BY <1>0, <1>13, SuccIs, AppliesIs DEF ClearPartition, At, Pass, Fail, Holds,
         TypeOK, MediumType, FailingOut, Progress, UefiAsked, Built, AskedTable, OnDisk,
         Fs, Consent, Agreed, DryRun
    <2>5. UefiAsked' /\ FailingOut'
      BY <1>0, <1>13, SuccIs, AppliesIs DEF ClearPartition, At, Pass, Fail, Holds,
         TypeOK, MediumType, UefiAsked, FailingOut, Consent, Agreed, DryRun
    <2>6. Consent'
      BY <1>0, <1>13, SuccIs, AppliesIs DEF ClearPartition, At, Pass, Fail, Holds,
         TypeOK, FailingOut, Consent, DryRun, Agreed, Untouched, Healthy, FixedKept,
         OnDisk, Block, RequestType
    <2>7. Ours'
      BY <1>0, <1>13, SuccIs, AppliesIs DEF ClearPartition, At, Pass, Fail, Holds,
         TypeOK, FailingOut, Ours, Mounted, Mounts, OnDisk, Block
    <2>8. QED
      BY <2>1, <2>4, <2>5, <2>6, <2>7, <1>a DEF IInv
  <1>14. CASE Format
    <2>1. TypeOK'
      <3>1. medium' \in MediumType
        BY <1>0, <1>14, MediaTyped, RequestFacts DEF Format, At, Pass,
           Fail, Holds, TypeOK, MediumType
      <3>2. pc' \in Labels /\ rc' \in {0, -1} /\ UNCHANGED <<req, failing>>
        BY <1>0, <1>14, SuccIs DEF Format, At, Pass, Fail, Holds, TypeOK,
           Labels, Stages
      <3>3. /\ mnt' \in {"none", "auto", "ours"} /\ excused' \in BOOLEAN
            /\ check' \in {"none", "passed", "late"}
        BY <1>0, <1>14 DEF Format, At, Pass, Fail, Holds, TypeOK
      <3>4. QED
        BY <1>0, <3>1, <3>2, <3>3, TypeParts
    <2>4. Progress'
      <3>1. CASE rc' = -1
        BY <3>1 DEF Progress
      <3>2. CASE rc' # -1
        <4>1. /\ pc = "format" /\ pc' = "syslinux" /\ UNCHANGED <<req, rc>>
              /\ OnDisk(req) \/ req.mode = "format"
              /\ medium' = [medium EXCEPT !.fs = Fs(req), !.pbr = "none", !.files = {}]
          BY <1>14, <3>2, AppliesIs, SuccIs DEF Format, At, Fail, Pass, Holds
        <4>2. medium'.fs = Fs(req) /\ medium'.table = medium.table /\ medium'.uefi = medium.uefi
          BY <1>0, <4>1 DEF MediumType, TypeOK
        <4>3. QED
          BY <1>0, <4>1, <4>2, RequestFacts DEF Progress, Built
      <3>3. QED
        BY <3>1, <3>2
    <2>5. UefiAsked' /\ FailingOut'
      BY <1>0, <1>14, SuccIs, AppliesIs DEF Format, At, Pass, Fail, Holds,
         TypeOK, MediumType, UefiAsked, FailingOut, Consent, Agreed, DryRun
    <2>6. Consent'
      BY <1>0, <1>14, SuccIs, AppliesIs DEF Format, Looked, AllowFixed, At, Pass, Fail, Holds,
         TypeOK, FailingOut, Consent, DryRun, Agreed, Untouched, Healthy, FixedKept,
         OnDisk, Block, RequestType
    <2>7. Ours'
      BY <1>0, <1>14, SuccIs, AppliesIs DEF Format, At, Pass, Fail, Holds,
         TypeOK, FailingOut, Ours, Mounted, Mounts, OnDisk, Block
    <2>8. QED
      BY <2>1, <2>4, <2>5, <2>6, <2>7, <1>a DEF IInv
  <1>15. CASE Syslinux
    <2>1. TypeOK'
      BY <1>0, <1>15, SuccIs, AppliesIs DEF Syslinux, At, Pass, Fail, Holds, TypeOK,
         Labels, Stages, MediumType
    <2>4. Progress'
      BY <1>0, <1>15, SuccIs, AppliesIs DEF Syslinux, At, Pass, Fail, Holds, TypeOK,
         MediumType, FailingOut, Progress, UefiAsked, Built, AskedTable, OnDisk, Fs,
         Consent, Agreed, DryRun
    <2>5. UefiAsked' /\ FailingOut'
      BY <1>0, <1>15, SuccIs, AppliesIs DEF Syslinux, At, Pass, Fail, Holds, TypeOK,
         MediumType, UefiAsked, FailingOut, Consent, Agreed, DryRun
    <2>6. Consent'
      BY <1>0, <1>15, SuccIs, AppliesIs DEF Syslinux, At, Pass, Fail, Holds, TypeOK,
         FailingOut, Consent, DryRun, Agreed, Untouched, Healthy, FixedKept, OnDisk,
         Block, RequestType
    <2>7. Ours'
      BY <1>0, <1>15, SuccIs, AppliesIs DEF Syslinux, At, Pass, Fail, Holds, TypeOK,
         FailingOut, Ours, Mounted, Mounts, OnDisk, Block
    <2>8. QED
      BY <2>1, <2>4, <2>5, <2>6, <2>7, <1>a DEF IInv
  <1>16. CASE Mount("mount")
    <2>1. TypeOK'
      <3>1. medium' \in MediumType
        BY <1>0, <1>16, MediaTyped, RequestFacts DEF Mount, Pass, Fail, TypeOK,
           MediumType
      <3>2. pc' \in Labels /\ rc' \in {0, -1} /\ UNCHANGED <<req, failing>>
        BY <1>0, <1>16, SuccIs DEF Mount, Pass, Fail, TypeOK, Labels, Stages
      <3>3. /\ mnt' \in {"none", "auto", "ours"} /\ excused' \in BOOLEAN
            /\ check' \in {"none", "passed", "late"}
        BY <1>0, <1>16 DEF Mount, Pass, Fail, TypeOK
      <3>4. QED
        BY <1>0, <3>1, <3>2, <3>3, TypeParts
    <2>4. Progress'
      BY <1>0, <1>16, SuccIs, AppliesIs DEF Mount, Pass, Fail, TypeOK, MediumType,
         FailingOut, Progress, UefiAsked, Built, AskedTable, OnDisk, Fs, Consent,
         Agreed, DryRun
    <2>5. UefiAsked' /\ FailingOut'
      BY <1>0, <1>16, SuccIs, AppliesIs DEF Mount, Pass, Fail, TypeOK, MediumType,
         UefiAsked, FailingOut, Consent, Agreed, DryRun
    <2>6. Consent'
      BY <1>0, <1>16, SuccIs, AppliesIs DEF Mount, Pass, Fail, TypeOK, FailingOut,
         Consent, DryRun, Agreed, Untouched, Healthy, FixedKept, OnDisk, Block,
         RequestType
    <2>7. Ours'
      BY <1>0, <1>16, SuccIs, AppliesIs DEF Mount, Pass, Fail, TypeOK, FailingOut, Ours,
         Mounted, Mounts, OnDisk, Block
    <2>8. QED
      BY <2>1, <2>4, <2>5, <2>6, <2>7, <1>a DEF IInv
  <1>17. CASE Mount("mount2")
    <2>1. TypeOK'
      <3>1. medium' \in MediumType
        BY <1>0, <1>17, MediaTyped, RequestFacts DEF Mount, Pass, Fail, TypeOK,
           MediumType
      <3>2. pc' \in Labels /\ rc' \in {0, -1} /\ UNCHANGED <<req, failing>>
        BY <1>0, <1>17, SuccIs DEF Mount, Pass, Fail, TypeOK, Labels, Stages
      <3>3. /\ mnt' \in {"none", "auto", "ours"} /\ excused' \in BOOLEAN
            /\ check' \in {"none", "passed", "late"}
        BY <1>0, <1>17 DEF Mount, Pass, Fail, TypeOK
      <3>4. QED
        BY <1>0, <3>1, <3>2, <3>3, TypeParts
    <2>4. Progress'
      BY <1>0, <1>17, SuccIs, AppliesIs DEF Mount, Pass, Fail, TypeOK, MediumType,
         FailingOut, Progress, UefiAsked, Built, AskedTable, OnDisk, Fs, Consent,
         Agreed, DryRun
    <2>5. UefiAsked' /\ FailingOut'
      BY <1>0, <1>17, SuccIs, AppliesIs DEF Mount, Pass, Fail, TypeOK, MediumType,
         UefiAsked, FailingOut, Consent, Agreed, DryRun
    <2>6. Consent'
      BY <1>0, <1>17, SuccIs, AppliesIs DEF Mount, Pass, Fail, TypeOK, FailingOut,
         Consent, DryRun, Agreed, Untouched, Healthy, FixedKept, OnDisk, Block,
         RequestType
    <2>7. Ours'
      BY <1>0, <1>17, SuccIs, AppliesIs DEF Mount, Pass, Fail, TypeOK, FailingOut, Ours,
         Mounted, Mounts, OnDisk, Block
    <2>8. QED
      BY <2>1, <2>4, <2>5, <2>6, <2>7, <1>a DEF IInv
  <1>18. CASE Content("image", "image")
    <2>1. TypeOK'
      BY <1>0, <1>18, SuccIs, AppliesIs DEF Content, ContentFails, At, Pass, Fail,
         Holds, TypeOK, Labels, Stages, MediumType
    <2>4. Progress'
      BY <1>0, <1>18, SuccIs, AppliesIs DEF Content, ContentFails, At, Pass, Fail,
         Holds, TypeOK, MediumType, FailingOut, Progress, UefiAsked, Built, AskedTable,
         OnDisk, Fs, Consent, Agreed, DryRun
    <2>5. UefiAsked' /\ FailingOut'
      BY <1>0, <1>18, SuccIs, AppliesIs DEF Content, ContentFails, At, Pass, Fail,
         Holds, TypeOK, MediumType, UefiAsked, FailingOut, Consent, Agreed, DryRun
    <2>6. Consent'
      BY <1>0, <1>18, SuccIs, AppliesIs DEF Content, ContentFails, At, Pass, Fail,
         Holds, TypeOK, FailingOut, Consent, DryRun, Agreed, Untouched, Healthy,
         FixedKept, OnDisk, Block, RequestType
    <2>7. Ours'
      BY <1>0, <1>18, SuccIs, AppliesIs DEF Content, ContentFails, At, Pass, Fail,
         Holds, TypeOK, FailingOut, Ours, Mounted, Mounts, OnDisk, Block
    <2>8. QED
      BY <2>1, <2>4, <2>5, <2>6, <2>7, <1>a DEF IInv
  <1>19. CASE Content("autorun", "autorun")
    <2>1. TypeOK'
      BY <1>0, <1>19, SuccIs, AppliesIs DEF Content, ContentFails, At, Pass, Fail,
         Holds, TypeOK, Labels, Stages, MediumType
    <2>4. Progress'
      BY <1>0, <1>19, SuccIs, AppliesIs DEF Content, ContentFails, At, Pass, Fail,
         Holds, TypeOK, MediumType, FailingOut, Progress, UefiAsked, Built, AskedTable,
         OnDisk, Fs, Consent, Agreed, DryRun
    <2>5. UefiAsked' /\ FailingOut'
      BY <1>0, <1>19, SuccIs, AppliesIs DEF Content, ContentFails, At, Pass, Fail,
         Holds, TypeOK, MediumType, UefiAsked, FailingOut, Consent, Agreed, DryRun
    <2>6. Consent'
      BY <1>0, <1>19, SuccIs, AppliesIs DEF Content, ContentFails, At, Pass, Fail,
         Holds, TypeOK, FailingOut, Consent, DryRun, Agreed, Untouched, Healthy,
         FixedKept, OnDisk, Block, RequestType
    <2>7. Ours'
      BY <1>0, <1>19, SuccIs, AppliesIs DEF Content, ContentFails, At, Pass, Fail,
         Holds, TypeOK, FailingOut, Ours, Mounted, Mounts, OnDisk, Block
    <2>8. QED
      BY <2>1, <2>4, <2>5, <2>6, <2>7, <1>a DEF IInv
  <1>20. CASE Content("persist", "persist")
    <2>1. TypeOK'
      BY <1>0, <1>20, SuccIs, AppliesIs DEF Content, ContentFails, At, Pass, Fail,
         Holds, TypeOK, Labels, Stages, MediumType
    <2>4. Progress'
      BY <1>0, <1>20, SuccIs, AppliesIs DEF Content, ContentFails, At, Pass, Fail,
         Holds, TypeOK, MediumType, FailingOut, Progress, UefiAsked, Built, AskedTable,
         OnDisk, Fs, Consent, Agreed, DryRun
    <2>5. UefiAsked' /\ FailingOut'
      BY <1>0, <1>20, SuccIs, AppliesIs DEF Content, ContentFails, At, Pass, Fail,
         Holds, TypeOK, MediumType, UefiAsked, FailingOut, Consent, Agreed, DryRun
    <2>6. Consent'
      BY <1>0, <1>20, SuccIs, AppliesIs DEF Content, ContentFails, At, Pass, Fail,
         Holds, TypeOK, FailingOut, Consent, DryRun, Agreed, Untouched, Healthy,
         FixedKept, OnDisk, Block, RequestType
    <2>7. Ours'
      BY <1>0, <1>20, SuccIs, AppliesIs DEF Content, ContentFails, At, Pass, Fail,
         Holds, TypeOK, FailingOut, Ours, Mounted, Mounts, OnDisk, Block
    <2>8. QED
      BY <2>1, <2>4, <2>5, <2>6, <2>7, <1>a DEF IInv
  <1>21. CASE Content("custom", "custom")
    <2>1. TypeOK'
      BY <1>0, <1>21, SuccIs, AppliesIs DEF Content, ContentFails, At, Pass, Fail,
         Holds, TypeOK, Labels, Stages, MediumType
    <2>4. Progress'
      BY <1>0, <1>21, SuccIs, AppliesIs DEF Content, ContentFails, At, Pass, Fail,
         Holds, TypeOK, MediumType, FailingOut, Progress, UefiAsked, Built, AskedTable,
         OnDisk, Fs, Consent, Agreed, DryRun
    <2>5. UefiAsked' /\ FailingOut'
      BY <1>0, <1>21, SuccIs, AppliesIs DEF Content, ContentFails, At, Pass, Fail,
         Holds, TypeOK, MediumType, UefiAsked, FailingOut, Consent, Agreed, DryRun
    <2>6. Consent'
      BY <1>0, <1>21, SuccIs, AppliesIs DEF Content, ContentFails, At, Pass, Fail,
         Holds, TypeOK, FailingOut, Consent, DryRun, Agreed, Untouched, Healthy,
         FixedKept, OnDisk, Block, RequestType
    <2>7. Ours'
      BY <1>0, <1>21, SuccIs, AppliesIs DEF Content, ContentFails, At, Pass, Fail,
         Holds, TypeOK, FailingOut, Ours, Mounted, Mounts, OnDisk, Block
    <2>8. QED
      BY <2>1, <2>4, <2>5, <2>6, <2>7, <1>a DEF IInv
  <1>22. CASE ExtractPart
    <2>1. TypeOK'
      BY <1>0, <1>22, SuccIs, AppliesIs DEF ExtractPart, At, Pass, Fail, Holds, TypeOK,
         Labels, Stages, MediumType
    <2>4. Progress'
      BY <1>0, <1>22, SuccIs, AppliesIs DEF ExtractPart, At, Pass, Fail, Holds, TypeOK,
         MediumType, FailingOut, Progress, UefiAsked, Built, AskedTable, OnDisk, Fs,
         Consent, Agreed, DryRun
    <2>5. UefiAsked' /\ FailingOut'
      BY <1>0, <1>22, SuccIs, AppliesIs DEF ExtractPart, At, Pass, Fail, Holds, TypeOK,
         MediumType, UefiAsked, FailingOut, Consent, Agreed, DryRun
    <2>6. Consent'
      BY <1>0, <1>22, SuccIs, AppliesIs DEF ExtractPart, At, Pass, Fail, Holds, TypeOK,
         FailingOut, Consent, DryRun, Agreed, Untouched, Healthy, FixedKept, OnDisk,
         Block, RequestType
    <2>7. Ours'
      BY <1>0, <1>22, SuccIs, AppliesIs DEF ExtractPart, At, Pass, Fail, Holds, TypeOK,
         FailingOut, Ours, Mounted, Mounts, OnDisk, Block
    <2>8. QED
      BY <2>1, <2>4, <2>5, <2>6, <2>7, <1>a DEF IInv
  <1>23. CASE VerifyTree
    <2>1. TypeOK'
      BY <1>0, <1>23, SuccIs, AppliesIs DEF VerifyTree, ContentFails, At, Pass, Fail,
         Holds, TypeOK, Labels, Stages, MediumType
    <2>4. Progress'
      BY <1>0, <1>23, SuccIs, AppliesIs DEF VerifyTree, ContentFails, At, Pass, Fail,
         Holds, TypeOK, MediumType, FailingOut, Progress, UefiAsked, Built, AskedTable,
         OnDisk, Fs, Consent, Agreed, DryRun
    <2>5. UefiAsked' /\ FailingOut'
      BY <1>0, <1>23, SuccIs, AppliesIs DEF VerifyTree, ContentFails, At, Pass, Fail,
         Holds, TypeOK, MediumType, UefiAsked, FailingOut, Consent, Agreed, DryRun
    <2>6. Consent'
      BY <1>0, <1>23, SuccIs, AppliesIs DEF VerifyTree, ContentFails, At, Pass, Fail,
         Holds, TypeOK, FailingOut, Consent, DryRun, Agreed, Untouched, Healthy,
         FixedKept, OnDisk, Block, RequestType
    <2>7. Ours'
      BY <1>0, <1>23, SuccIs, AppliesIs DEF VerifyTree, ContentFails, At, Pass, Fail,
         Holds, TypeOK, FailingOut, Ours, Mounted, Mounts, OnDisk, Block
    <2>8. QED
      BY <2>1, <2>4, <2>5, <2>6, <2>7, <1>a DEF IInv
  <1>24. CASE BiosInstall
    <2>1. TypeOK'
      BY <1>0, <1>24, SuccIs, AppliesIs DEF BiosInstall, At, Pass, Fail, Holds, TypeOK,
         Labels, Stages, MediumType
    <2>4. Progress'
      BY <1>0, <1>24, SuccIs, AppliesIs DEF BiosInstall, At, Pass, Fail, Holds, TypeOK,
         MediumType, FailingOut, Progress, UefiAsked, Built, AskedTable, OnDisk, Fs,
         Consent, Agreed, DryRun
    <2>5. UefiAsked' /\ FailingOut'
      BY <1>0, <1>24, SuccIs, AppliesIs DEF BiosInstall, At, Pass, Fail, Holds, TypeOK,
         MediumType, UefiAsked, FailingOut, Consent, Agreed, DryRun
    <2>6. Consent'
      BY <1>0, <1>24, SuccIs, AppliesIs DEF BiosInstall, At, Pass, Fail, Holds, TypeOK,
         FailingOut, Consent, DryRun, Agreed, Untouched, Healthy, FixedKept, OnDisk,
         Block, RequestType
    <2>7. Ours'
      BY <1>0, <1>24, SuccIs, AppliesIs DEF BiosInstall, At, Pass, Fail, Holds, TypeOK,
         FailingOut, Ours, Mounted, Mounts, OnDisk, Block
    <2>8. QED
      BY <2>1, <2>4, <2>5, <2>6, <2>7, <1>a DEF IInv
  <1>25. CASE Release
    <2>1. TypeOK'
      <3>1. medium' \in MediumType
        BY <1>0, <1>25, MediaTyped, RequestFacts DEF Release, At, Pass, Fail, Holds,
           TypeOK, MediumType
      <3>2. pc' \in Labels /\ rc' \in {0, -1} /\ UNCHANGED <<req, failing>>
        BY <1>0, <1>25, SuccIs DEF Release, At, Pass, Fail, Holds, TypeOK, Labels,
           Stages
      <3>3. /\ mnt' \in {"none", "auto", "ours"} /\ excused' \in BOOLEAN
            /\ check' \in {"none", "passed", "late"}
        BY <1>0, <1>25 DEF Release, At, Pass, Fail, Holds, TypeOK
      <3>4. QED
        BY <1>0, <3>1, <3>2, <3>3, TypeParts
    <2>4. Progress'
      BY <1>0, <1>25, SuccIs, AppliesIs DEF Release, At, Pass, Fail, Holds, TypeOK,
         MediumType, FailingOut, Progress, UefiAsked, Built, AskedTable, OnDisk, Fs,
         Consent, Agreed, DryRun
    <2>5. UefiAsked' /\ FailingOut'
      BY <1>0, <1>25, SuccIs, AppliesIs DEF Release, At, Pass, Fail, Holds, TypeOK,
         MediumType, UefiAsked, FailingOut, Consent, Agreed, DryRun
    <2>6. Consent'
      BY <1>0, <1>25, SuccIs, AppliesIs DEF Release, At, Pass, Fail, Holds, TypeOK,
         FailingOut, Consent, DryRun, Agreed, Untouched, Healthy, FixedKept, OnDisk,
         Block, RequestType
    <2>7. Ours'
      BY <1>0, <1>25, SuccIs, AppliesIs DEF Release, At, Pass, Fail, Holds, TypeOK,
         FailingOut, Ours, Mounted, Mounts, OnDisk, Block
    <2>8. QED
      BY <2>1, <2>4, <2>5, <2>6, <2>7, <1>a DEF IInv
  <1>26. CASE InstallMbr
    <2>1. TypeOK'
      BY <1>0, <1>26, SuccIs, AppliesIs DEF InstallMbr, Scheme, At, Pass,
         Fail, Holds, TypeOK, Labels, Stages, MediumType
    <2>4. Progress'
      BY <1>0, <1>26, SuccIs, AppliesIs DEF InstallMbr, Scheme, At, Pass,
         Fail, Holds, TypeOK, MediumType, FailingOut, Progress, UefiAsked, Built,
         AskedTable, OnDisk, Fs, Consent, Agreed, DryRun
    <2>5. UefiAsked' /\ FailingOut'
      BY <1>0, <1>26, SuccIs, AppliesIs DEF InstallMbr, Scheme, At, Pass,
         Fail, Holds, TypeOK, MediumType, UefiAsked, FailingOut, Consent, Agreed, DryRun
    <2>6. Consent'
      BY <1>0, <1>26, SuccIs, AppliesIs DEF InstallMbr, Looked, AllowFixed, Scheme, At, Pass,
         Fail, Holds, TypeOK, FailingOut, Consent, DryRun, Agreed, Untouched, Healthy,
         FixedKept, OnDisk, Block, RequestType
    <2>7. Ours'
      BY <1>0, <1>26, SuccIs, AppliesIs DEF InstallMbr, Scheme, At, Pass,
         Fail, Holds, TypeOK, FailingOut, Ours, Mounted, Mounts, OnDisk, Block
    <2>8. QED
      BY <2>1, <2>4, <2>5, <2>6, <2>7, <1>a DEF IInv
  <1>27. CASE DosRecords
    <2>1. TypeOK'
      <3>1. medium' \in MediumType
        BY <1>0, <1>27, MediaTyped, RequestFacts DEF DosRecords, At, Pass, Fail, Holds,
           TypeOK, MediumType
      <3>2. pc' \in Labels /\ rc' \in {0, -1} /\ UNCHANGED <<req, failing>>
        BY <1>0, <1>27, SuccIs DEF DosRecords, At, Pass, Fail, Holds, TypeOK, Labels,
           Stages
      <3>3. /\ mnt' \in {"none", "auto", "ours"} /\ excused' \in BOOLEAN
            /\ check' \in {"none", "passed", "late"}
        BY <1>0, <1>27 DEF DosRecords, At, Pass, Fail, Holds, TypeOK
      <3>4. QED
        BY <1>0, <3>1, <3>2, <3>3, TypeParts
    <2>4. Progress'
      <3>1. CASE rc' = -1
        BY <3>1 DEF Progress
      <3>2. CASE rc' # -1
        <4>1. /\ pc = "records" /\ pc' = "report" /\ UNCHANGED <<req, rc>> /\ req.mode = "dos"
              /\ medium' = [medium EXCEPT !.pbr = "freedos", !.code = "dosmbr"]
          BY <1>27, <3>2, AppliesIs, SuccIs DEF DosRecords, At, Fail, Pass, Holds
        <4>2. /\ medium'.pbr = "freedos" /\ medium'.code = "dosmbr"
              /\ medium'.fs = medium.fs /\ medium'.table = medium.table /\ medium'.files = medium.files
          BY <1>0, <4>1 DEF MediumType, TypeOK
        <4>3. QED
          BY <1>0, <4>1, <4>2, RequestFacts DEF Progress, Built
      <3>3. QED
        BY <3>1, <3>2
    <2>5. UefiAsked' /\ FailingOut'
      BY <1>0, <1>27, SuccIs, AppliesIs DEF DosRecords, At, Pass, Fail, Holds, TypeOK,
         MediumType, UefiAsked, FailingOut, Consent, Agreed, DryRun
    <2>6. Consent'
      BY <1>0, <1>27, SuccIs, AppliesIs DEF DosRecords, At, Pass, Fail, Holds, TypeOK,
         FailingOut, Consent, DryRun, Agreed, Untouched, Healthy, FixedKept, OnDisk,
         Block, RequestType
    <2>7. Ours'
      BY <1>0, <1>27, SuccIs, AppliesIs DEF DosRecords, At, Pass, Fail, Holds, TypeOK,
         FailingOut, Ours, Mounted, Mounts, OnDisk, Block
    <2>8. QED
      BY <2>1, <2>4, <2>5, <2>6, <2>7, <1>a DEF IInv
  <1>28. CASE Report
    <2>1. TypeOK'
      BY <1>0, <1>28, SuccIs, AppliesIs DEF Report, Fail, TypeOK, Labels, Stages,
         MediumType
    <2>4. Progress'
      <3>1. CASE rc' = -1
        BY <3>1 DEF Progress
      <3>2. CASE rc' # -1
        <4>1. pc = "report" /\ pc' = "end" /\ UNCHANGED <<req, medium, rc>>
          BY <1>28, <3>2 DEF Report, Fail
        <4>4. req.mode \in {"dd", "extract", "format", "dos", "windows"}
          BY <1>0 DEF TypeOK, RequestType
        <4>2. Built(req, medium, "report") => Complete(req, medium)
          BY <4>4 DEF Complete, Wanted, OnDisk, Built
        <4>3. QED
          BY <1>0, <4>1, <4>2 DEF Progress
      <3>3. QED
        BY <3>1, <3>2
    <2>5. UefiAsked' /\ FailingOut'
      BY <1>0, <1>28, SuccIs, AppliesIs DEF Report, Fail, TypeOK, MediumType, UefiAsked,
         FailingOut, Consent, Agreed, DryRun
    <2>6. Consent'
      BY <1>0, <1>28, SuccIs, AppliesIs DEF Report, Fail, TypeOK, FailingOut, Consent,
         DryRun, Agreed, Untouched, Healthy, FixedKept, OnDisk, Block, RequestType
    <2>7. Ours'
      BY <1>0, <1>28, SuccIs, AppliesIs DEF Report, Fail, TypeOK, FailingOut, Ours,
         Mounted, Mounts, OnDisk, Block
    <2>8. QED
      BY <2>1, <2>4, <2>5, <2>6, <2>7, <1>a DEF IInv
  <1>29. CASE Automount
    <2>1. TypeOK'
      BY <1>0, <1>29, SuccIs, AppliesIs DEF Automount, TypeOK, Labels, Stages,
         MediumType
    <2>4. Progress'
      BY <1>0, <1>29, SuccIs, AppliesIs DEF Automount, TypeOK, MediumType, FailingOut,
         Progress, UefiAsked, Built, AskedTable, OnDisk, Fs, Consent, Agreed, DryRun
    <2>5. UefiAsked' /\ FailingOut'
      BY <1>0, <1>29, SuccIs, AppliesIs DEF Automount, TypeOK, MediumType, UefiAsked,
         FailingOut, Consent, Agreed, DryRun
    <2>6. Consent'
      BY <1>0, <1>29, SuccIs, AppliesIs DEF Automount, TypeOK, FailingOut, Consent,
         DryRun, Agreed, Untouched, Healthy, FixedKept, OnDisk, Block, RequestType
    <2>7. Ours'
      BY <1>0, <1>29, SuccIs, AppliesIs DEF Automount, TypeOK, FailingOut, Ours,
         Mounted, Mounts, OnDisk, Block
    <2>8. QED
      BY <2>1, <2>4, <2>5, <2>6, <2>7, <1>a DEF IInv
  <1>30. CASE UserUnmounts
    <2>1. TypeOK'
      BY <1>0, <1>30, SuccIs, AppliesIs DEF UserUnmounts, TypeOK, Labels, Stages,
         MediumType
    <2>4. Progress'
      BY <1>0, <1>30, SuccIs, AppliesIs DEF UserUnmounts, TypeOK, MediumType,
         FailingOut, Progress, UefiAsked, Built, AskedTable, OnDisk, Fs, Consent,
         Agreed, DryRun
    <2>5. UefiAsked' /\ FailingOut'
      BY <1>0, <1>30, SuccIs, AppliesIs DEF UserUnmounts, TypeOK, MediumType, UefiAsked,
         FailingOut, Consent, Agreed, DryRun
    <2>6. Consent'
      BY <1>0, <1>30, SuccIs, AppliesIs DEF UserUnmounts, TypeOK, FailingOut, Consent,
         DryRun, Agreed, Untouched, Healthy, FixedKept, OnDisk, Block, RequestType
    <2>7. Ours'
      BY <1>0, <1>30, SuccIs, AppliesIs DEF UserUnmounts, TypeOK, FailingOut, Ours,
         Mounted, Mounts, OnDisk, Block
    <2>8. QED
      BY <2>1, <2>4, <2>5, <2>6, <2>7, <1>a DEF IInv
  <1>31. CASE Killed
    <2>1. TypeOK'
      BY <1>0, <1>31, SuccIs, AppliesIs DEF Killed, Fail, TypeOK, Labels, Stages,
         MediumType
    <2>4. Progress'
      BY <1>0, <1>31, SuccIs, AppliesIs DEF Killed, Fail, TypeOK, MediumType,
         FailingOut, Progress, UefiAsked, Built, AskedTable, OnDisk, Fs, Consent,
         Agreed, DryRun
    <2>5. UefiAsked' /\ FailingOut'
      BY <1>0, <1>31, SuccIs, AppliesIs DEF Killed, Fail, TypeOK, MediumType, UefiAsked,
         FailingOut, Consent, Agreed, DryRun
    <2>6. Consent'
      BY <1>0, <1>31, SuccIs, AppliesIs DEF Killed, Fail, TypeOK, FailingOut, Consent,
         DryRun, Agreed, Untouched, Healthy, FixedKept, OnDisk, Block, RequestType
    <2>7. Ours'
      BY <1>0, <1>31, SuccIs, AppliesIs DEF Killed, Fail, TypeOK, FailingOut, Ours,
         Mounted, Mounts, OnDisk, Block
    <2>8. QED
      BY <2>1, <2>4, <2>5, <2>6, <2>7, <1>a DEF IInv
  <1>32. CASE Finished \/ UNCHANGED vars
    <2>1. TypeOK'
      BY <1>0, <1>32, SuccIs, AppliesIs DEF Finished, vars, TypeOK, Labels, Stages,
         MediumType
    <2>4. Progress'
      BY <1>0, <1>32, SuccIs, AppliesIs DEF Finished, vars, TypeOK, MediumType,
         FailingOut, Progress, UefiAsked, Built, AskedTable, OnDisk, Fs, Consent,
         Agreed, DryRun
    <2>5. UefiAsked' /\ FailingOut'
      BY <1>0, <1>32, SuccIs, AppliesIs DEF Finished, vars, TypeOK, MediumType,
         UefiAsked, FailingOut, Consent, Agreed, DryRun
    <2>6. Consent'
      BY <1>0, <1>32, SuccIs, AppliesIs DEF Finished, vars, TypeOK, FailingOut, Consent,
         DryRun, Agreed, Untouched, Healthy, FixedKept, OnDisk, Block, RequestType
    <2>7. Ours'
      BY <1>0, <1>32, SuccIs, AppliesIs DEF Finished, vars, TypeOK, FailingOut, Ours,
         Mounted, Mounts, OnDisk, Block
    <2>8. QED
      BY <2>1, <2>4, <2>5, <2>6, <2>7, <1>a DEF IInv
  <1>33. CASE TargetCheck
    <2>1. /\ pc \in CheckedStages /\ UNCHANGED <<req, failing, medium, mnt, excused>>
          /\ Fail \/ (UNCHANGED <<pc, rc>> /\ check' = "passed")
      BY <1>33 DEF TargetCheck
    <2>2. TypeOK'
      BY <1>0, <2>1 DEF TypeOK, Fail, Labels
    <2>4. Progress' /\ UefiAsked' /\ FailingOut'
      BY <1>0, <2>1 DEF Fail, Progress, UefiAsked, FailingOut
    <2>6. Consent'
      BY <1>0, <2>1 DEF Fail, Consent, DryRun, Agreed, Untouched, Healthy, FixedKept
    <2>7. Ours'
      BY <1>0, <2>1 DEF Fail, Ours, Mounted, CheckedStages
    <2>8. QED
      BY <2>2, <2>4, <2>6, <2>7, <1>a DEF IInv
  <1>34. QED
    BY <1>1, <1>2, <1>3, <1>4, <1>5, <1>6, <1>7, <1>8, <1>9, <1>10, <1>11, <1>12, <1>13,
       <1>14, <1>15, <1>16, <1>17, <1>18, <1>19, <1>20, <1>21, <1>22, <1>23, <1>24,
       <1>25, <1>26, <1>27, <1>28, <1>29, <1>30, <1>31, <1>32, <1>33
    DEF Next, Program

(* A run starts with the old medium and nothing mounted by it. *)
LEMMA Begin == Init => IInv
  <1> SUFFICES ASSUME Init PROVE IInv
    OBVIOUS
  <1>1. TypeOK
    BY RequestsAssumption, MediaTyped DEF Init, TypeOK, Labels
  <1>2. Progress /\ UefiAsked /\ FailingOut
    BY DEF Init, Progress, Built, UefiAsked, FailingOut, OldMedium, PastMbr, PastVerify,
       PastCustom, PastPersist, PastAutorun, PastImage, PastFormat, PastUefi,
       PastPartition, PastDd
  <1>3. Consent
    BY DEF Init, Consent, DryRun, Agreed, Untouched, Healthy, FixedKept, PastMbr,
       PastVerify, PastCustom, PastPersist, PastAutorun, PastImage, PastFormat, PastUefi,
       PastPartition
  <1>4. Ours
    BY DEF Init, Ours, Mounted
  <1>5. QED
    BY <1>1, <1>2, <1>3, <1>4 DEF IInv, Init, Looked

(* IInv holds in every state, whatever is asked for and whatever the tools, *)
(* the desktop and the user do.                                             *)
THEOREM Invariance == Spec => []IInv
  BY Begin, Step, PTL DEF Spec

(* A run stays at one of the stages of rufux_create, and the drive holds    *)
(* what a stage can leave there.                                            *)
THEOREM TypeCorrect == Spec => []TypeOK
  <1>1. IInv => TypeOK
    BY DEF IInv
  <1>2. QED
    BY <1>1, Invariance, PTL

(* rufux_create reports success only when the target is what was asked for, *)
(* for every combination of mode, scheme, file system and options; of the   *)
(* image of an extract run, as much as the completeness test of the         *)
(* extraction asks for (create.c:740-822, extract.c:104-134).               *)
THEOREM CompleteOnSuccess == Spec => []SuccessIsComplete
  <1>1. IInv => SuccessIsComplete
    BY DEF IInv, Progress, SuccessIsComplete
  <1>2. QED
    BY <1>1, Invariance, PTL

(* No request changes the drive without the consent it needs                *)
(* (create.c:756-803, device.c:185-251).                                    *)
THEOREM PermittedOnly == Spec => []OnlyPermittedWrites
  <1>1. IInv => OnlyPermittedWrites
    BY DEF IInv, Consent, DryRun, Untouched, FixedKept, OnlyPermittedWrites
  <1>2. QED
    BY <1>1, Invariance, PTL

(* The program's mount is down at the end, with the exceptions named in     *)
(* MountReleased (create.c:387-391).                                        *)
THEOREM MountIsReleased == Spec => []MountReleased
  <1>1. IInv => MountReleased
    BY DEF IInv, Ours, Mounted, MountReleased
  <1>2. QED
    BY <1>1, Invariance, PTL

(* A stage that calls rufux_check_target writes below another's mount only  *)
(* if that mount came between its check and its write, and the stages that  *)
(* fill the partition never do (create.c:760-767, device.c:185-251).        *)
THEOREM ReverifiedAlways == Spec => Reverified
  <1>1. ASSUME IInv, Next
        PROVE  (medium' # medium /\ mnt = "auto") => pc \in Unchecked \/ check = "late"
    <2> SUFFICES ASSUME medium' # medium, mnt = "auto", pc \notin Unchecked,
                        check # "late"
                 PROVE  FALSE
      OBVIOUS
    <2>1. Block(req) /\ check = "none"
      BY <1>1 DEF IInv, Ours, Looked, TypeOK
    <2>2. /\ pc \in {"image", "autorun", "persist", "custom", "bios"}
          /\ Applies(req, pc)
      BY <1>1, <2>1 DEF Next, Program, Start, Skip, TargetCheck, UnmountDisk, SmartCheck,
         BadBlocks, ZeroDisk, Plan, WriteImage, MakeTable, WaitNode, WriteUefi,
         ClearPartition, Format, Syslinux, Mount, Content, ExtractPart, VerifyTree,
         BiosInstall, Release, InstallMbr, DosRecords, Report, Automount, UserUnmounts,
         Killed, Finished, At, Checked, Unchecked, vars
    <2>3. Mounts(req)
      BY <2>1, <2>2, AppliesIs DEF Mounts, OnDisk, Block
    <2>4. QED
      BY <1>1, <2>2, <2>3 DEF IInv, Ours, Mounted
  <1>2. IInv /\ [Next]_vars =>
          [(medium' # medium /\ mnt = "auto") => pc \in Unchecked \/ check = "late"]_vars
    BY <1>1 DEF vars
  <1>3. QED
    BY <1>2, Invariance, PTL DEF Spec, Reverified

(* What tells a medium from the old one. *)
LEMMA NotOld ==
  ASSUME NEW m,
         \/ m.table # "old" \/ m.code # "old" \/ m.fs # "old" \/ m.pbr # "none"
         \/ m.uefi # FALSE \/ m.files # {}
  PROVE  m # OldMedium
<1>1. /\ OldMedium.table = "old" /\ OldMedium.code = "old" /\ OldMedium.fs = "old"
      /\ OldMedium.pbr = "none" /\ OldMedium.uefi = FALSE /\ OldMedium.files = {}
  BY Zenon DEF OldMedium
<1>2. QED
  BY <1>1, Zenon

(* No stage gives the drive its old content back, and a run that is over    *)
(* does nothing more.                                                       *)
LEMMA Moves ==
  ASSUME IInv, Next
  PROVE  /\ UNCHANGED req
         /\ medium' = medium \/ medium' # OldMedium
         /\ pc = "end" => UNCHANGED <<medium, pc, rc>>
         /\ (pc # "end" /\ pc' = "end") =>
              rc' = -1 \/ (pc = "report" /\ UNCHANGED <<medium, rc>>)
  <1> USE DEF Goto, Checked
  <1>0. TypeOK /\ medium \in MediumType
    BY DEF IInv, TypeOK
  <1>w. WipedMedium \in MediumType /\ WipedMedium.fs = "none"
    BY MediaTyped DEF WipedMedium, OldMedium
  <1>1. CASE \/ Start \/ Skip \/ TargetCheck \/ UnmountDisk \/ SmartCheck \/ Plan \/ WaitNode
             \/ Mount("mount") \/ Mount("mount2") \/ VerifyTree \/ Release
    BY <1>1, SuccIs DEF Start, Skip, TargetCheck, CheckedStages, UnmountDisk, SmartCheck, Plan, WaitNode, Mount,
       VerifyTree, Release, ContentFails, At, Pass, Fail, Stages
  <1>2. CASE BadBlocks \/ ZeroDisk \/ WriteImage
    <2>1. \/ medium' = medium \/ medium' = WipedMedium
          \/ medium' = [WipedMedium EXCEPT !.table = "image", !.code = "none"]
      BY <1>2 DEF BadBlocks, ZeroDisk, WriteImage, Holds
    <2>2. medium' = medium \/ medium'.fs = "none"
      BY <2>1, <1>w DEF MediumType
    <2>3. QED
      BY <1>2, <2>2, NotOld, SuccIs DEF BadBlocks, ZeroDisk, WriteImage, At, Pass, Fail
  <1>3. CASE MakeTable
    <2>1. \/ medium' = medium \/ medium' = WipedMedium
          \/ \E c \in {"mbr", "none"} :
               medium' = [WipedMedium EXCEPT !.table = PartTable(req), !.code = c]
      BY <1>3 DEF MakeTable, Holds
    <2>2. medium' = medium \/ medium'.fs = "none"
      BY <2>1, <1>w DEF MediumType
    <2>3. QED
      BY <1>3, <2>2, NotOld, SuccIs DEF MakeTable, At, Pass, Fail
  <1>4. CASE \/ WriteUefi \/ ClearPartition("zero1") \/ ClearPartition("wipe")
             \/ Syslinux \/ DosRecords
    <2>1. \/ medium' = medium \/ medium'.uefi = TRUE \/ medium'.fs = "none"
          \/ medium'.pbr \in {"syslinux", "freedos"}
      BY <1>0, <1>4 DEF WriteUefi, ClearPartition, Syslinux, DosRecords, Holds, MediumType
    <2>2. QED
      BY <1>4, <2>1, NotOld, SuccIs DEF WriteUefi, ClearPartition, Syslinux, DosRecords,
         At, Pass, Fail
  <1>5. CASE Format \/ InstallMbr
    <2>1. Fs(req) # "old"
      BY <1>0, RequestFacts DEF FileSystems
    <2>2. medium' = medium \/ medium'.fs = Fs(req) \/ medium'.code \in {"mbr", "gptmbr"}
      BY <1>0, <1>5 DEF Format, InstallMbr, Holds, MediumType
    <2>3. QED
      BY <1>5, <2>1, <2>2, NotOld, SuccIs DEF Format, InstallMbr, At, Pass, Fail
  <1>6. CASE \/ Content("image", "image") \/ Content("autorun", "autorun")
             \/ Content("persist", "persist") \/ Content("custom", "custom")
             \/ ExtractPart
    BY <1>0, <1>6, SuccIs DEF Content, ContentFails, ExtractPart, At, Pass, Fail, Holds,
       MediumType, OldMedium
  <1>7. CASE BiosInstall
    BY <1>0, <1>7, SuccIs DEF BiosInstall, At, Pass, Holds, MediumType, OldMedium
  <1>8. CASE Report \/ Automount \/ UserUnmounts \/ Killed \/ Finished
    BY <1>8 DEF Report, Automount, UserUnmounts, Killed, Finished, Fail, vars
  <1>9. QED
    BY <1>1, <1>2, <1>3, <1>4, <1>5, <1>6, <1>7, <1>8 DEF Next, Program

(* A target that is complete is not the old one. *)
LEMMA CompleteIsNew ==
  ASSUME TypeOK, Complete(req, medium)
  PROVE  medium # OldMedium
  <1>1. Fs(req) # "old"
    BY RequestFacts DEF FileSystems
  <1>2. req.mode \in {"dd", "extract", "format", "dos", "windows"}
    BY DEF TypeOK, RequestType
  <1>3. QED
    BY <1>1, <1>2 DEF Complete, Wanted, OldMedium

(* A step that ends the run, with its result, and one that does not. *)
LEMMA AbstractStep ==
  ASSUME IInv, [Next]_vars
  PROVE  [Abstract!Next]_<<Stage, Result>>
  <1>1. CASE UNCHANGED vars
    BY <1>1 DEF vars, Stage, Result
  <1>2. CASE Next
    <2>0. /\ UNCHANGED req
          /\ medium' = medium \/ medium' # OldMedium
          /\ pc = "end" => UNCHANGED <<medium, pc, rc>>
          /\ (pc # "end" /\ pc' = "end") =>
               rc' = -1 \/ (pc = "report" /\ UNCHANGED <<medium, rc>>)
      BY <1>2, Moves
    <2>1. Stage' = Stage \/ Stage' \in {"partial", "complete"}
      BY <2>0 DEF Stage
    <2>2. CASE pc = "end"
      BY <2>0, <2>2 DEF Stage, Result
    <2>3. CASE pc # "end" /\ pc' # "end"
      BY <2>1, <2>3 DEF Result, Abstract!Next, Abstract!Write
    <2>4. CASE pc # "end" /\ pc' = "end" /\ rc' = -1
      BY <2>1, <2>4 DEF Result, Abstract!Next, Abstract!GiveUp
    <2>5. CASE pc = "report" /\ pc' = "end" /\ rc' # -1
      <3>1. UNCHANGED <<medium, req, rc>> /\ rc = 0
        BY <2>0, <2>5 DEF IInv, TypeOK
      <3>2. CASE req.dry_run
        BY <2>5, <3>1, <3>2 DEF IInv, Consent, DryRun, Stage, Result, Abstract!Next,
           Abstract!Planned
      <3>3. CASE ~req.dry_run
        <4>1. IInv'
          BY Step
        <4>2. Complete(req, medium)
          BY <2>5, <3>1, <3>3, <4>1 DEF IInv, Progress
        <4>3. medium # OldMedium
          BY <4>2, CompleteIsNew DEF IInv
        <4>4. QED
          BY <2>5, <3>1, <3>3, <4>2, <4>3 DEF Stage, Result, Abstract!Next,
             Abstract!Succeed
      <3>4. QED
        BY <3>2, <3>3
    <2>6. QED
      BY <2>0, <2>2, <2>3, <2>4, <2>5
  <1>3. QED
    BY <1>1, <1>2

(* rufux_create does to the drive what Outcome allows, and nothing else,    *)
(* where an extract run is complete with as much of the image as passes the *)
(* completeness test (create.c:740-822, extract.c:104-134).                 *)
THEOREM Refinement == Spec => ImplementsOutcome
  <1>1. Init => Abstract!Init
    BY DEF Init, Abstract!Init, Stage, Result
  <1>2. IInv /\ [Next]_vars => [Abstract!Next]_<<Stage, Result>>
    BY AbstractStep
  <1>3. QED
    BY <1>1, <1>2, Invariance, PTL DEF Spec, ImplementsOutcome, Abstract!Spec
=============================================================================
