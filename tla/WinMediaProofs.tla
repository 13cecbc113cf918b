--------------------------- MODULE WinMediaProofs ---------------------------
(***************************************************************************)
(* Proofs about WinMedia, for images of every size, every machine and      *)
(* every set of options.  None of the properties is inductive: what a      *)
(* finished run may rely on was established several stages earlier, and    *)
(* IInv carries it from stage to stage.                                    *)
(***************************************************************************)
EXTENDS WinMedia, TLAPS

(* The stages before a tool can have left an install image cut off, and     *)
(* the ones that are reached only when none did.                            *)
Unsplit    == {"uefi", "flash", "route", "bsdtar", "7z", "phaseA", "loop", "split"}
Customizing == {"custom", "edit", "update", "readback", "rmhive", "answer", "verify"}

(* A result is there when the run has ended, and not before. *)
Ended == pc # "end" <=> rc = "none"

(* Past the flash the UEFI:NTFS partition is whole, if there is one. *)
Flashed ==
  (env.win /\ ~env.fat /\ (pc \notin {"uefi", "flash", "end"} \/ rc = "ok")) =>
    part2 = "whole"

(* An install image that is cut off does not get past the extraction, and   *)
(* one of 4 GiB does not get onto FAT32.                                    *)
Unbroken == (pc \in Unsplit \cup Customizing \/ rc = "ok") => tree.inst # "torn"

Fits ==
  /\ (env.fat /\ tree.inst = "wim") => env.wim = "small"
  /\ (env.fat /\ tree.inst = "esd") => env.esd = "small"

(* verify_windows_tree found all it insists on. *)
Checked == (rc = "ok" /\ env.win) => tree.core /\ tree.inst # "none"

(* Once the hive was read back the bypass is in boot.wim, or the answer     *)
(* file has to carry it, or carries it.                                     *)
Bypassed ==
  env.bypass =>
    /\ pc \in {"rmhive", "answer"} => tree.boot = "patched" \/ fallback
    /\ (pc = "verify" \/ (rc = "ok" /\ env.win)) =>
         tree.boot = "patched" \/ tree.answer = "root"

(* What is mounted or created for a time exists only in between. *)
Temporary ==
  ~excused =>
    /\ isomnt => pc \in {"split", "umount"}
    /\ scratch => pc \in {"copy", "split2", "rm"}
    /\ hive => pc \in {"edit", "update", "readback", "rmhive"}

(* Only Windows media are customized and verified. *)
Windows == pc \in Customizing \cup {"phaseA", "loop", "split", "umount", "scratch",
                                     "copy", "split2", "rm"} => env.win

Parts == Ended /\ Flashed /\ Unbroken /\ Fits /\ Checked /\ Bypassed /\ Temporary /\ Windows

(* The inductive invariant. *)
IInv == TypeOK /\ Parts

(* The part of TypeOK that most stages leave alone, and the rest of it. *)
LEMMA TypeParts ==
  ASSUME TypeOK,
         isomnt' \in BOOLEAN, scratch' \in BOOLEAN, hive' \in BOOLEAN,
         fallback' \in BOOLEAN, excused' \in BOOLEAN,
         pc' \in Labels, rc' \in Results, tree' \in TreeType,
         UNCHANGED <<machine, cache, part2>>
  PROVE  TypeOK'
  BY DEF TypeOK, machine

(* An extraction that ended without an error cuts nothing off and puts no   *)
(* file of 4 GiB onto FAT32.                                                *)
LEMMA ExtractedSound ==
  ASSUME TypeOK, Fits, NEW t \in TreeType, Extracted(t), tree.inst # "torn"
  PROVE  /\ t.inst # "torn"
         /\ (env.fat /\ t.inst = "wim") => env.wim = "small"
         /\ (env.fat /\ t.inst = "esd") => env.esd = "small"
         /\ t.boot = tree.boot /\ t.answer = tree.answer
  <1>1. /\ env.wim \in {"none", "small", "big"} /\ env.esd \in {"none", "small", "big"}
        /\ tree.inst \in {"none", "wim", "esd", "swm", "torn"}
    BY DEF TypeOK, SetupType, TreeType
  <1>2. QED
    BY <1>1 DEF Extracted, Grown, Image, Fits

(* A tool that failed, and phase A, add nothing but parts of the image. *)
LEMMA GrownSound ==
  ASSUME TypeOK, Fits, NEW t \in TreeType, NEW S \in {{}, {"torn"}}, Grown(t, S)
  PROVE  /\ (env.fat /\ t.inst = "wim") => env.wim = "small"
         /\ (env.fat /\ t.inst = "esd") => env.esd = "small"
         /\ S = {} => t.inst = tree.inst
         /\ t.boot = tree.boot /\ t.answer = tree.answer
  BY DEF Grown, Fits

(* Extraction to the volume or to a directory, by either tool. *)
LEMMA ExtractionKeeps ==
  ASSUME IInv, Bsdtar \/ SevenZip \/ PhaseA
  PROVE  IInv'
  <1>0. TypeOK /\ Parts
    BY DEF IInv
  <1>1. PICK t \in TreeType :
          /\ tree' = t
          /\ \/ Broken(t) /\ End("tool")
             \/ Extracted(t) /\ pc \in {"bsdtar", "7z"}
                /\ (ExtractDone \/ Go("7z") \/ End("incomplete"))
             \/ Grown(t, {}) /\ pc = "phaseA" /\ (End("tool") \/ Go("loop"))
    BY DEF Bsdtar, SevenZip, PhaseA
  <1>2. /\ pc \in {"bsdtar", "7z", "phaseA"}
        /\ UNCHANGED <<machine, cache, part2, isomnt, scratch, hive, fallback, excused>>
    BY DEF Bsdtar, SevenZip, PhaseA
  <1>3. TypeOK'
    <2>1. pc' \in Labels /\ rc' \in Results
      BY <1>0, <1>1 DEF End, Go, ExtractDone, Labels, Results, TypeOK
    <2>2. QED
      BY <1>0, <1>1, <1>2, <2>1, TypeParts DEF TypeOK
  <1>4. Fits' /\ t.boot = tree.boot /\ t.answer = tree.answer
    <2>1. tree.inst # "torn"
      BY <1>0, <1>2 DEF Parts, Unbroken, Unsplit
    <2>2. CASE Extracted(t)
      BY <1>0, <1>1, <1>2, <2>1, <2>2, ExtractedSound DEF Parts, Fits, machine
    <2>3. CASE Broken(t) \/ Grown(t, {})
      <3>1. Grown(t, {"torn"}) \/ Grown(t, {})
        BY <2>3 DEF Broken
      <3>2. QED
        BY <1>0, <1>1, <1>2, <3>1, GrownSound DEF Parts, Fits, machine
    <2>4. QED
      BY <1>1, <2>2, <2>3
  <1>5. rc = "none"
    BY <1>0, <1>2 DEF Parts, Ended
  <1>6. CASE End("tool") \/ End("incomplete")
    BY <1>0, <1>1, <1>2, <1>3, <1>4, <1>5, <1>6 DEF IInv, Parts, Ended, Flashed, Unbroken,
       Checked, Bypassed, Temporary, Windows, Unsplit, Customizing, End, machine
  <1>7. CASE ExtractDone \/ Go("7z") \/ Go("loop")
    <2>1. CASE End("tool") \/ End("incomplete")
      BY <1>6, <2>1
    <2>2. CASE ~(End("tool") \/ End("incomplete"))
      <3>1. t.inst # "torn"
        <4>1. tree.inst # "torn"
          BY <1>0, <1>2 DEF Parts, Unbroken, Unsplit
        <4>2. Extracted(t) \/ Grown(t, {})
          BY <1>1, <2>2
        <4>3. QED
          BY <1>0, <4>1, <4>2, ExtractedSound, GrownSound DEF Parts
      <3>2. \/ pc \in {"bsdtar", "7z"} /\ (ExtractDone \/ Go("7z"))
            \/ pc = "phaseA" /\ Go("loop")
        BY <1>1, <2>2
      <3>3. Ended' /\ Flashed' /\ Unbroken' /\ Checked'
        BY <1>0, <1>1, <1>2, <1>5, <3>1, <3>2 DEF Parts, Ended, Flashed, Unbroken, Checked,
           ExtractDone, Go, End, machine
      <3>4. Bypassed' /\ Temporary' /\ Windows'
        BY <1>0, <1>1, <1>2, <1>5, <3>2 DEF Parts, Bypassed, Temporary, Windows,
           Customizing, ExtractDone, Go, End, machine
      <3>5. QED
        BY <1>3, <1>4, <3>3, <3>4 DEF IInv, Parts
    <2>3. QED
      BY <2>1, <2>2
  <1>8. QED
    BY <1>1, <1>6, <1>7

(* Each stage keeps the invariant. *)
LEMMA Step == IInv /\ [Next]_vars => IInv'
  <1> SUFFICES ASSUME IInv, [Next]_vars PROVE IInv'
    OBVIOUS
  <1>0. TypeOK /\ Parts
    BY DEF IInv
  <1>1. CASE UefiImage
    <2>2. TypeOK'
      BY <1>0, <1>1 DEF UefiImage, Go, End, machine, TypeOK, Labels, Results
    <2>3. Ended' /\ Flashed' /\ Unbroken' /\ Fits' /\ Checked'
      BY <1>0, <1>1 DEF UefiImage, Go, End, machine, Parts, TypeOK, Ended, Flashed,
         Unbroken, Fits, Checked, Unsplit, Customizing
    <2>4. Bypassed' /\ Temporary' /\ Windows'
      BY <1>0, <1>1 DEF UefiImage, Go, End, machine, Parts, TypeOK, Ended, Bypassed,
         Temporary, Windows, Customizing
    <2>5. QED
      BY <2>2, <2>3, <2>4 DEF IInv, Parts
  <1>2. CASE WriteUefi
    <2>2. TypeOK'
      BY <1>0, <1>2 DEF WriteUefi, Go, End, machine, TypeOK, Labels, Results
    <2>3. Ended' /\ Flashed' /\ Unbroken' /\ Fits' /\ Checked'
      BY <1>0, <1>2 DEF WriteUefi, Go, End, machine, Parts, TypeOK, Ended, Flashed,
         Unbroken, Fits, Checked, Unsplit, Customizing
    <2>4. Bypassed' /\ Temporary' /\ Windows'
      BY <1>0, <1>2 DEF WriteUefi, Go, End, machine, Parts, TypeOK, Ended, Bypassed,
         Temporary, Windows, Customizing
    <2>5. QED
      BY <2>2, <2>3, <2>4 DEF IInv, Parts
  <1>3. CASE OtherDownload
    <2>2. TypeOK'
      BY <1>0, <1>3 DEF OtherDownload, machine, TypeOK, Labels, Results
    <2>3. Ended' /\ Flashed' /\ Unbroken' /\ Fits' /\ Checked'
      BY <1>0, <1>3 DEF OtherDownload, machine, Parts, TypeOK, Ended, Flashed,
         Unbroken, Fits, Checked, Unsplit, Customizing
    <2>4. Bypassed' /\ Temporary' /\ Windows'
      BY <1>0, <1>3 DEF OtherDownload, machine, Parts, TypeOK, Ended, Bypassed,
         Temporary, Windows, Customizing
    <2>5. QED
      BY <2>2, <2>3, <2>4 DEF IInv, Parts
  <1>4. CASE Route
    <2>2. TypeOK'
      BY <1>0, <1>4 DEF Route, Plain, Go, End, machine, TypeOK, Labels, Results
    <2>3. Ended' /\ Flashed' /\ Unbroken' /\ Fits' /\ Checked'
      BY <1>0, <1>4 DEF Route, Plain, Go, End, machine, Parts, TypeOK, Ended, Flashed,
         Unbroken, Fits, Checked, Unsplit, Customizing
    <2>4. Bypassed' /\ Temporary' /\ Windows'
      BY <1>0, <1>4 DEF Route, Plain, Go, End, machine, Parts, TypeOK, Ended, Bypassed,
         Temporary, Windows, Customizing
    <2>5. QED
      BY <2>2, <2>3, <2>4 DEF IInv, Parts
  <1>5. CASE LoopMount
    <2>2. TypeOK'
      BY <1>0, <1>5 DEF LoopMount, Go, End, machine, TypeOK, Labels, Results
    <2>3. Ended' /\ Flashed' /\ Unbroken' /\ Fits' /\ Checked'
      BY <1>0, <1>5 DEF LoopMount, Go, End, machine, Parts, TypeOK, Ended, Flashed,
         Unbroken, Fits, Checked, Unsplit, Customizing
    <2>4. Bypassed' /\ Temporary' /\ Windows'
      BY <1>0, <1>5 DEF LoopMount, Go, End, machine, Parts, TypeOK, Ended, Bypassed,
         Temporary, Windows, Customizing
    <2>5. QED
      BY <2>2, <2>3, <2>4 DEF IInv, Parts
  <1>6. CASE Split("split", "umount")
    <2>2. TypeOK'
      BY <1>0, <1>6 DEF Split, Go, machine, TreeType, TypeOK, Labels, Results
    <2>3. Ended' /\ Flashed' /\ Unbroken' /\ Fits' /\ Checked'
      BY <1>0, <1>6 DEF Split, Go, machine, TreeType, Parts, TypeOK, Ended, Flashed,
         Unbroken, Fits, Checked, Unsplit, Customizing
    <2>4. Bypassed' /\ Temporary' /\ Windows'
      BY <1>0, <1>6 DEF Split, Go, machine, TreeType, Parts, TypeOK, Ended, Bypassed,
         Temporary, Windows, Customizing
    <2>5. QED
      BY <2>2, <2>3, <2>4 DEF IInv, Parts
  <1>7. CASE Split("split2", "rm")
    <2>2. TypeOK'
      BY <1>0, <1>7 DEF Split, Go, machine, TreeType, TypeOK, Labels, Results
    <2>3. Ended' /\ Flashed' /\ Unbroken' /\ Fits' /\ Checked'
      BY <1>0, <1>7 DEF Split, Go, machine, TreeType, Parts, TypeOK, Ended, Flashed,
         Unbroken, Fits, Checked, Unsplit, Customizing
    <2>4. Bypassed' /\ Temporary' /\ Windows'
      BY <1>0, <1>7 DEF Split, Go, machine, TreeType, Parts, TypeOK, Ended, Bypassed,
         Temporary, Windows, Customizing
    <2>5. QED
      BY <2>2, <2>3, <2>4 DEF IInv, Parts
  <1>8. CASE IsoUmount
    <2>1. /\ isomnt' \in BOOLEAN /\ scratch' \in BOOLEAN /\ hive' \in BOOLEAN
          /\ fallback' \in BOOLEAN /\ excused' \in BOOLEAN
          /\ pc' \in Labels /\ rc' \in Results
          /\ tree' \in TreeType /\ UNCHANGED <<machine, cache, part2>>
      BY <1>0, <1>8 DEF IsoUmount, Go, machine, TypeOK, Labels, Results
    <2>2. TypeOK'
      BY <1>0, <2>1, TypeParts
    <2>3. Ended' /\ Flashed' /\ Unbroken' /\ Fits' /\ Checked'
      BY <1>0, <1>8 DEF IsoUmount, Go, machine, Parts, TypeOK, Ended, Flashed,
         Unbroken, Fits, Checked, Unsplit, Customizing
    <2>4. Bypassed' /\ Temporary' /\ Windows'
      BY <1>0, <1>8 DEF IsoUmount, Go, machine, Parts, TypeOK, Ended, Bypassed,
         Temporary, Windows, Customizing
    <2>5. QED
      BY <2>2, <2>3, <2>4 DEF IInv, Parts
  <1>9. CASE ScratchDir
    <2>1. /\ isomnt' \in BOOLEAN /\ scratch' \in BOOLEAN /\ hive' \in BOOLEAN
          /\ fallback' \in BOOLEAN /\ excused' \in BOOLEAN
          /\ pc' \in Labels /\ rc' \in Results
          /\ tree' \in TreeType /\ UNCHANGED <<machine, cache, part2>>
      BY <1>0, <1>9 DEF ScratchDir, Go, End, machine, TypeOK, Labels, Results
    <2>2. TypeOK'
      BY <1>0, <2>1, TypeParts
    <2>3. Ended' /\ Flashed' /\ Unbroken' /\ Fits' /\ Checked'
      BY <1>0, <1>9 DEF ScratchDir, Go, End, machine, Parts, TypeOK, Ended, Flashed,
         Unbroken, Fits, Checked, Unsplit, Customizing
    <2>4. Bypassed' /\ Temporary' /\ Windows'
      BY <1>0, <1>9 DEF ScratchDir, Go, End, machine, Parts, TypeOK, Ended, Bypassed,
         Temporary, Windows, Customizing
    <2>5. QED
      BY <2>2, <2>3, <2>4 DEF IInv, Parts
  <1>10. CASE CopyWim
    <2>2. TypeOK'
      BY <1>0, <1>10 DEF CopyWim, Go, machine, TypeOK, Labels, Results
    <2>3. Ended' /\ Flashed' /\ Unbroken' /\ Fits' /\ Checked'
      BY <1>0, <1>10 DEF CopyWim, Go, machine, Parts, TypeOK, Ended, Flashed,
         Unbroken, Fits, Checked, Unsplit, Customizing
    <2>4. Bypassed' /\ Temporary' /\ Windows'
      BY <1>0, <1>10 DEF CopyWim, Go, machine, Parts, TypeOK, Ended, Bypassed,
         Temporary, Windows, Customizing
    <2>5. QED
      BY <2>2, <2>3, <2>4 DEF IInv, Parts
  <1>11. CASE RmScratch
    <2>1. /\ isomnt' \in BOOLEAN /\ scratch' \in BOOLEAN /\ hive' \in BOOLEAN
          /\ fallback' \in BOOLEAN /\ excused' \in BOOLEAN
          /\ pc' \in Labels /\ rc' \in Results
          /\ tree' \in TreeType /\ UNCHANGED <<machine, cache, part2>>
      BY <1>0, <1>11 DEF RmScratch, ExtractDone, Go, End, machine, TypeOK, Labels, Results
    <2>2. TypeOK'
      BY <1>0, <2>1, TypeParts
    <2>3. Ended' /\ Flashed' /\ Unbroken' /\ Fits' /\ Checked'
      BY <1>0, <1>11 DEF RmScratch, ExtractDone, Go, End, machine, Parts, TypeOK, Ended, Flashed,
         Unbroken, Fits, Checked, Unsplit, Customizing
    <2>4. Bypassed' /\ Temporary' /\ Windows'
      BY <1>0, <1>11 DEF RmScratch, ExtractDone, Go, End, machine, Parts, TypeOK, Ended, Bypassed,
         Temporary, Windows, Customizing
    <2>5. QED
      BY <2>2, <2>3, <2>4 DEF IInv, Parts
  <1>12. CASE Customize
    <2>1. /\ isomnt' \in BOOLEAN /\ scratch' \in BOOLEAN /\ hive' \in BOOLEAN
          /\ fallback' \in BOOLEAN /\ excused' \in BOOLEAN
          /\ pc' \in Labels /\ rc' \in Results
          /\ tree' \in TreeType /\ UNCHANGED <<machine, cache, part2>>
      BY <1>0, <1>12 DEF Customize, Go, machine, TypeOK, Labels, Results
    <2>2. TypeOK'
      BY <1>0, <2>1, TypeParts
    <2>3. Ended' /\ Flashed' /\ Unbroken' /\ Fits' /\ Checked'
      BY <1>0, <1>12 DEF Customize, Go, machine, Parts, TypeOK, Ended, Flashed,
         Unbroken, Fits, Checked, Unsplit, Customizing
    <2>4. Bypassed' /\ Temporary' /\ Windows'
      BY <1>0, <1>12 DEF Customize, Go, machine, Parts, TypeOK, Ended, Bypassed,
         Temporary, Windows, Customizing
    <2>5. QED
      BY <2>2, <2>3, <2>4 DEF IInv, Parts
  <1>13. CASE EditHive
    <2>2. TypeOK'
      BY <1>0, <1>13 DEF EditHive, Go, machine, TypeOK, Labels, Results
    <2>3. Ended' /\ Flashed' /\ Unbroken' /\ Fits' /\ Checked'
      BY <1>0, <1>13 DEF EditHive, Go, machine, Parts, TypeOK, Ended, Flashed,
         Unbroken, Fits, Checked, Unsplit, Customizing
    <2>4. Bypassed' /\ Temporary' /\ Windows'
      BY <1>0, <1>13 DEF EditHive, Go, machine, Parts, TypeOK, Ended, Bypassed,
         Temporary, Windows, Customizing
    <2>5. QED
      BY <2>2, <2>3, <2>4 DEF IInv, Parts
  <1>14. CASE UpdateWim
    <2>1. /\ isomnt' \in BOOLEAN /\ scratch' \in BOOLEAN /\ hive' \in BOOLEAN
          /\ fallback' \in BOOLEAN /\ excused' \in BOOLEAN
          /\ pc' \in Labels /\ rc' \in Results
          /\ tree' \in TreeType /\ UNCHANGED <<machine, cache, part2>>
      BY <1>0, <1>14 DEF UpdateWim, Go, machine, TreeType, TypeOK, Labels, Results
    <2>2. TypeOK'
      BY <1>0, <2>1, TypeParts
    <2>3. Ended' /\ Flashed' /\ Unbroken' /\ Fits' /\ Checked'
      BY <1>0, <1>14 DEF UpdateWim, Go, machine, TreeType, Parts, TypeOK, Ended, Flashed,
         Unbroken, Fits, Checked, Unsplit, Customizing
    <2>4. Bypassed' /\ Temporary' /\ Windows'
      BY <1>0, <1>14 DEF UpdateWim, Go, machine, TreeType, Parts, TypeOK, Ended, Bypassed,
         Temporary, Windows, Customizing
    <2>5. QED
      BY <2>2, <2>3, <2>4 DEF IInv, Parts
  <1>15. CASE ReadBack
    <2>1. /\ isomnt' \in BOOLEAN /\ scratch' \in BOOLEAN /\ hive' \in BOOLEAN
          /\ fallback' \in BOOLEAN /\ excused' \in BOOLEAN
          /\ pc' \in Labels /\ rc' \in Results
          /\ tree' \in TreeType /\ UNCHANGED <<machine, cache, part2>>
      BY <1>0, <1>15 DEF ReadBack, Go, machine, TypeOK, Labels, Results
    <2>2. TypeOK'
      BY <1>0, <2>1, TypeParts
    <2>3. Ended' /\ Flashed' /\ Unbroken' /\ Fits' /\ Checked'
      BY <1>0, <1>15 DEF ReadBack, Go, machine, Parts, TypeOK, Ended, Flashed,
         Unbroken, Fits, Checked, Unsplit, Customizing
    <2>4. Bypassed' /\ Temporary' /\ Windows'
      BY <1>0, <1>15 DEF ReadBack, Go, machine, Parts, TypeOK, Ended, Bypassed,
         Temporary, Windows, Customizing
    <2>5. QED
      BY <2>2, <2>3, <2>4 DEF IInv, Parts
  <1>16. CASE RmHive
    <2>1. /\ isomnt' \in BOOLEAN /\ scratch' \in BOOLEAN /\ hive' \in BOOLEAN
          /\ fallback' \in BOOLEAN /\ excused' \in BOOLEAN
          /\ pc' \in Labels /\ rc' \in Results
          /\ tree' \in TreeType /\ UNCHANGED <<machine, cache, part2>>
      BY <1>0, <1>16 DEF RmHive, Go, machine, TypeOK, Labels, Results
    <2>2. TypeOK'
      BY <1>0, <2>1, TypeParts
    <2>3. Ended' /\ Flashed' /\ Unbroken' /\ Fits' /\ Checked'
      BY <1>0, <1>16 DEF RmHive, Go, machine, Parts, TypeOK, Ended, Flashed,
         Unbroken, Fits, Checked, Unsplit, Customizing
    <2>4. Bypassed' /\ Temporary' /\ Windows'
      BY <1>0, <1>16 DEF RmHive, Go, machine, Parts, TypeOK, Ended, Bypassed,
         Temporary, Windows, Customizing
    <2>5. QED
      BY <2>2, <2>3, <2>4 DEF IInv, Parts
  <1>17. CASE AnswerFile
    <2>2. TypeOK'
      BY <1>0, <1>17 DEF AnswerFile, Go, End, machine, TreeType, TypeOK, Labels, Results
    <2>3. Ended' /\ Flashed' /\ Unbroken' /\ Fits' /\ Checked'
      BY <1>0, <1>17 DEF AnswerFile, Go, End, machine, TreeType, Parts, TypeOK, Ended, Flashed,
         Unbroken, Fits, Checked, Unsplit, Customizing
    <2>4. Bypassed' /\ Temporary' /\ Windows'
      BY <1>0, <1>17 DEF AnswerFile, Go, End, machine, TreeType, Parts, TypeOK, Ended, Bypassed,
         Temporary, Windows, Customizing
    <2>5. QED
      BY <2>2, <2>3, <2>4 DEF IInv, Parts
  <1>18. CASE VerifyTree
    <2>2. TypeOK'
      BY <1>0, <1>18 DEF VerifyTree, End, machine, TypeOK, Labels, Results
    <2>3. Ended' /\ Flashed' /\ Unbroken' /\ Fits' /\ Checked'
      BY <1>0, <1>18 DEF VerifyTree, End, machine, Parts, TypeOK, Ended, Flashed,
         Unbroken, Fits, Checked, Unsplit, Customizing
    <2>4. Bypassed' /\ Temporary' /\ Windows'
      BY <1>0, <1>18 DEF VerifyTree, End, machine, Parts, TypeOK, Ended, Bypassed,
         Temporary, Windows, Customizing
    <2>5. QED
      BY <2>2, <2>3, <2>4 DEF IInv, Parts
  <1>19. CASE Killed
    <2>2. TypeOK'
      BY <1>0, <1>19 DEF Killed, End, machine, TypeOK, Labels, Results
    <2>3. Ended' /\ Flashed' /\ Unbroken' /\ Fits' /\ Checked'
      BY <1>0, <1>19 DEF Killed, End, machine, Parts, TypeOK, Ended, Flashed,
         Unbroken, Fits, Checked, Unsplit, Customizing
    <2>4. Bypassed' /\ Temporary' /\ Windows'
      BY <1>0, <1>19 DEF Killed, End, machine, Parts, TypeOK, Ended, Bypassed,
         Temporary, Windows, Customizing
    <2>5. QED
      BY <2>2, <2>3, <2>4 DEF IInv, Parts
  <1>20. CASE Finished \/ UNCHANGED vars
    <2>2. TypeOK'
      BY <1>0, <1>20 DEF Finished, vars, machine, TypeOK, Labels, Results
    <2>3. Ended' /\ Flashed' /\ Unbroken' /\ Fits' /\ Checked'
      BY <1>0, <1>20 DEF Finished, vars, machine, Parts, TypeOK, Ended, Flashed,
         Unbroken, Fits, Checked, Unsplit, Customizing
    <2>4. Bypassed' /\ Temporary' /\ Windows'
      BY <1>0, <1>20 DEF Finished, vars, machine, Parts, TypeOK, Ended, Bypassed,
         Temporary, Windows, Customizing
    <2>5. QED
      BY <2>2, <2>3, <2>4 DEF IInv, Parts
  <1>21. CASE Bsdtar \/ SevenZip \/ PhaseA
    BY <1>21, ExtractionKeeps
  <1>22. QED
    BY <1>1, <1>2, <1>3, <1>4, <1>5, <1>6, <1>7, <1>8, <1>9, <1>10, <1>11, <1>12, <1>13, <1>14, <1>15, <1>16, <1>17, <1>18, <1>19, <1>20, <1>21 DEF Next, Program

(* The run begins with an untouched volume and nothing mounted. *)
LEMMA Start == Init => IInv
  <1> SUFFICES ASSUME Init PROVE IInv
    OBVIOUS
  <1>1. tree \in TreeType /\ tree.inst = "none"
    BY WinMediaAssumption DEF Init, EmptyTree, TreeType
  <1>2. TypeOK
    BY <1>1, WinMediaAssumption DEF Init, TypeOK, Labels, Results
  <1>3. Parts
    BY <1>1 DEF Init, Parts, Ended, Flashed, Unbroken, Fits, Checked, Bypassed, Temporary,
       Windows, Customizing
  <1>4. QED
    BY <1>2, <1>3 DEF IInv

(* IInv holds in every state, for every image, machine and choice of        *)
(* options.                                                                 *)
THEOREM Invariance == Spec => []IInv
  BY Start, Step, PTL DEF Spec

(* The content flow keeps its state within what the code can produce.       *)
THEOREM TypeCorrect == Spec => []TypeOK
  <1>1. IInv => TypeOK
    BY DEF IInv
  <1>2. QED
    BY <1>1, Invariance, PTL

(* flow_windows reports success only in front of media that can install     *)
(* (extract.c:252-347, create.c:557-594): no image size, tool set or        *)
(* failure of a tool leads past that.                                       *)
THEOREM InstallableAlways == Spec => []Installable
  <1>1. ASSUME IInv PROVE Installable
    <2>1. tree.inst \in {"none", "wim", "esd", "swm", "torn"}
      BY <1>1 DEF IInv, TypeOK, TreeType
    <2>2. QED
      BY <1>1, <2>1 DEF IInv, Parts, Flashed, Unbroken, Fits, Checked, Installable
  <1>2. QED
    BY <1>1, Invariance, PTL

(* The requirement bypass that was asked for is in effect, whichever of the *)
(* steps that patch boot.wim failed (wininstall.c:614-705).                 *)
THEOREM BypassAlways == Spec => []BypassInEffect
  <1>1. IInv => BypassInEffect
    BY DEF IInv, Parts, Bypassed, BypassInEffect
  <1>2. QED
    BY <1>1, Invariance, PTL

(* Loop mount, scratch copy and hive directory are gone at the end of every *)
(* path that no failed cleanup and no kill cut short (extract.c:320-344).   *)
THEOREM NothingLeftBehind == Spec => []NothingLeft
  <1>1. IInv => NothingLeft
    BY DEF IInv, Parts, Temporary, NothingLeft
  <1>2. QED
    BY <1>1, Invariance, PTL
=============================================================================
