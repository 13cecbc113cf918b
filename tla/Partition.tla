------------------------------ MODULE Partition ------------------------------
(***************************************************************************)
(* From the partition table to the formatted first partition:              *)
(* rufux_partition (partition.c), the writes flow_windows and the other    *)
(* flows make through the new partition nodes (create.c), and rufux_format *)
(* (mkfs_task.c).  All sizes are 512-byte sectors.  What makes this hard   *)
(* is that the program names partitions by their nodes, and the kernel     *)
(* goes on using the table it read before for a while after sfdisk has     *)
(* replaced it.                                                            *)
(***************************************************************************)
EXTENDS Integers, Sequences

CONSTANTS
  Media,       \* records [disk, old]: the size of a drive and its old partitions
  Requests,    \* the requests, members of RequestType
  WaitTries,   \* rounds of wait_node (100 in create.c)
  SettleTries, \* rounds of settled_part_sectors (25 in mkfs_task.c)
  None         \* no volume, no image

MiB  == 2048
Part == [start : Nat, size : Nat]
End(p) == p.start + p.size

RequestType == [scheme : {"gpt", "dos"}, layout : {"single", "esp+main", "main+uefintfs"},
                bios_boot : BOOLEAN, quick : BOOLEAN, wipe : BOOLEAN,
                fs : {"ntfs", "vfat", "fat16"}]

ASSUME MediaAssumption ==
  /\ Media \subseteq [disk : Nat, old : Seq(Part)]
  /\ \A m \in Media : \A i \in DOMAIN m.old : End(m.old[i]) <= m.disk
ASSUME RequestsAssumption == Requests \subseteq RequestType
ASSUME TriesAssumption    == WaitTries \in Nat \ {0} /\ SettleTries \in Nat \ {0}
ASSUME NoneAssumption     == None \notin Nat /\ None \notin Part

VARIABLES
  disk,    \* size of the drive
  req,     \* the request
  table,   \* the partition table on the drive
  old,     \* the table the kernel read before
  kernel,  \* which table the nodes in /dev and /sys follow
  uefi,    \* where the UEFI:NTFS image lies intact
  vol,     \* the file system made on partition 1
  hidden,  \* the partition start given to mkfs.ntfs
  cnt,     \* part_sectors, the sector count given to mkfs.ntfs
  sz,      \* the size read last from sysfs
  tries,   \* rounds of the current wait
  stale,   \* history: some access went through the old table
  pc, rc

vars == <<disk, req, table, old, kernel, uefi, vol, hidden, cnt, sz, tries,
          stale, pc, rc>>

Labels == {"partition", "wait1", "wait2", "uefi", "zero", "wipe", "format",
           "size", "start", "mkfs", "end"}

-----------------------------------------------------------------------------
(* The layouts. *)
mib(d)       == d \div MiB
bios_part(r) == r.bios_boot /\ r.scheme = "gpt"

\* Mutant: the slack for the backup GPT is forgotten.
main_mib_no_slack(r, d) == mib(d) - 2 - (IF bios_part(r) THEN 1 ELSE 0)

(* 1 leading + 1 UEFI:NTFS + [1 BIOS boot] + 1 slack *)
main_mib(r, d) == mib(d) - 3 - (IF bios_part(r) THEN 1 ELSE 0)

NeedsSize(r) == \/ r.layout = "main+uefintfs"
                \/ r.layout = "single" /\ bios_part(r)

(* sfdisk ends a partition without a size at the last usable sector; on GPT *)
(* the backup table takes the last 33.                                      *)
LastUsable(r, d) == IF r.scheme = "gpt" THEN d - 33 ELSE d

Span(s, n) == [start |-> s, size |-> n]

Plan(r, d) ==
  LET main == MiB * main_mib(r, d)
      data == MiB * (mib(d) - 3)
      last == LastUsable(r, d)
  IN  CASE r.layout = "main+uefintfs" /\ bios_part(r) ->
             <<Span(MiB, main), Span(MiB + main, MiB), Span(2 * MiB + main, MiB)>>
        [] r.layout = "main+uefintfs" /\ ~bios_part(r) ->
             <<Span(MiB, main), Span(MiB + main, MiB)>>
        [] r.layout = "esp+main" ->
             <<Span(MiB, 512 * MiB), Span(513 * MiB, last - 513 * MiB)>>
        [] r.layout = "single" /\ bios_part(r) ->
             <<Span(MiB, data), Span(MiB + data, MiB)>>
        [] r.layout = "single" /\ ~bios_part(r) ->
             <<Span(MiB, last - MiB)>>

(* The program's own limit, or what sfdisk needs to place the partitions. *)
Accepts(r, d) ==
  IF NeedsSize(r) THEN mib(d) >= 64
  ELSE LastUsable(r, d) > (IF r.layout = "esp+main" THEN 513 * MiB ELSE MiB)

(* esp+main is only made by the partition command, which stops there. *)
AfterSfdisk(r) == IF r.layout = "esp+main" THEN "end" ELSE "wait1"

-----------------------------------------------------------------------------
(* What the nodes stand for, and what an access to one notes. *)
View == CASE kernel = "old" -> old [] kernel = "gone" -> <<>> [] kernel = "new" -> table

Exists(i) == i \in DOMAIN View
Touch     == stale' = (stale \/ kernel = "old")

(* Writing sectors a .. b-1 of the drive destroys an image that lies there. *)
Overwrites(a, b) == uefi # None /\ a < uefi + MiB /\ uefi < b

Fail == pc' = "end" /\ rc' = -1
Goto(l) == pc' = l /\ UNCHANGED rc

\* Mutant: the 64 MiB limit is not checked.
RunSfdisk_no_minimum ==
  /\ pc = "partition"
  /\ \/ Fail /\ UNCHANGED <<table, old, kernel>>
     \/ /\ Goto(AfterSfdisk(req))
        /\ table' = Plan(req, disk) /\ old' = table /\ kernel' = "old"
  /\ UNCHANGED <<disk, req, uefi, vol, hidden, cnt, sz, tries, stale>>

(* rufux_partition.  Its checks and sfdisk may refuse; a table that fails   *)
(* the checks made after sfdisk has been written all the same.              *)
RunSfdisk ==
  /\ pc = "partition"
  /\ \/ Fail /\ UNCHANGED <<table, old, kernel>>
     \/ /\ Accepts(req, disk)
        /\ Fail \/ Goto(AfterSfdisk(req))
        /\ table' = Plan(req, disk) /\ old' = table /\ kernel' = "old"
  /\ UNCHANGED <<disk, req, uefi, vol, hidden, cnt, sz, tries, stale>>

(* The kernel drops the nodes of the old table, then makes the new ones:    *)
(* when sfdisk, partprobe or udev get it to, which may be late.             *)
KernelRereads ==
  /\ pc # "partition" /\ kernel # "new"
  /\ kernel' = IF kernel = "old" THEN "gone" ELSE "new"
  /\ UNCHANGED <<disk, req, table, old, uefi, vol, hidden, cnt, sz, tries, stale, pc, rc>>

AfterWait(i) == IF req.layout = "main+uefintfs"
                  THEN (IF i = 1 THEN "wait2" ELSE "uefi") ELSE "zero"

(* wait_node: poll for the node, a bounded number of rounds. *)
WaitNode(i, label) ==
  /\ pc = label
  /\ \/ Exists(i) /\ Goto(AfterWait(i)) /\ tries' = 0
     \/ ~Exists(i) /\ tries < WaitTries /\ tries' = tries + 1 /\ UNCHANGED <<pc, rc>>
     \/ ~Exists(i) /\ tries = WaitTries /\ Fail /\ UNCHANGED tries
  /\ UNCHANGED <<disk, req, table, old, kernel, uefi, vol, hidden, cnt, sz, stale>>

(* rufux_write_uefi_ntfs: raw image on partition 2, read back. *)
WriteUefi ==
  /\ pc = "uefi"
  /\ \/ Fail /\ UNCHANGED <<uefi, stale>>
     \/ /\ Exists(2) /\ View[2].size >= MiB
        /\ uefi' = View[2].start
        /\ Touch /\ Goto("zero")
  /\ UNCHANGED <<disk, req, table, old, kernel, vol, hidden, cnt, sz, tries>>

(* zero_head of partition 1, 16 MiB, when not a quick format. *)
ZeroHead ==
  /\ pc = "zero"
  /\ \/ req.quick /\ Goto("wipe") /\ UNCHANGED <<uefi, stale>>
     \/ /\ ~req.quick /\ Exists(1)
        /\ uefi' = IF Overwrites(View[1].start, View[1].start + 16 * MiB)
                     THEN None ELSE uefi
        /\ Fail \/ (View[1].size >= 16 * MiB /\ Goto("wipe"))
        /\ Touch
     \/ ~req.quick /\ ~Exists(1) /\ Fail /\ UNCHANGED <<uefi, stale>>
  /\ UNCHANGED <<disk, req, table, old, kernel, vol, hidden, cnt, sz, tries>>

\* Mutant: the last MiB is taken to begin where the partition ends.
Edges_past_end(p) ==
  {[from |-> p.start, to |-> p.start + MiB], [from |-> End(p), to |-> End(p) + MiB]}

(* The ranges wipe_part_edges writes. *)
Edges(p) ==
  {[from |-> p.start, to |-> p.start + (IF p.size < MiB THEN p.size ELSE MiB)]}
  \cup (IF p.size > 2 * MiB THEN {[from |-> End(p) - MiB, to |-> End(p)]} ELSE {})

(* wipe_part_edges of partition 1, in the Windows flow only. *)
WipeEdges ==
  /\ pc = "wipe"
  /\ \/ ~req.wipe /\ Goto("format") /\ UNCHANGED <<uefi, stale>>
     \/ /\ req.wipe /\ Exists(1)
        /\ uefi' = IF \E e \in Edges(View[1]) : Overwrites(e.from, e.to)
                     THEN None ELSE uefi
        /\ Fail \/ Goto("format")
        /\ Touch
     \/ req.wipe /\ ~Exists(1) /\ Fail /\ UNCHANGED <<uefi, stale>>
  /\ UNCHANGED <<disk, req, table, old, kernel, vol, hidden, cnt, sz, tries>>

\* Mutant: the start handed to mkfs.ntfs is not looked up.
Format_no_start ==
  /\ pc = "format"
  /\ hidden' = 0 /\ tries' = 0
  /\ Goto(IF req.fs = "ntfs" THEN "size" ELSE "mkfs") /\ Touch
  /\ UNCHANGED <<disk, req, table, old, kernel, uefi, vol, cnt, sz>>

(* rufux_format up to the choice of the size: the target check, the FAT16   *)
(* limit of 4 GiB, part_start_sector and the lookup of the disk in sysfs.   *)
Format ==
  /\ pc = "format"
  /\ \/ Fail /\ UNCHANGED <<hidden, stale>>
     \/ /\ req.fs = "ntfs"
        /\ hidden' = IF Exists(1) /\ View[1].start # 0 THEN View[1].start ELSE 2048
        /\ Touch
        /\ IF Exists(1) THEN Goto("size") ELSE Fail
     \/ /\ req.fs # "ntfs"
        /\ (req.fs = "fat16" /\ Exists(1)) => View[1].size <= 4096 * MiB
        /\ Goto("mkfs") /\ Touch /\ UNCHANGED hidden
  /\ tries' = 0
  /\ UNCHANGED <<disk, req, table, old, kernel, uefi, vol, cnt, sz>>

(* settled_part_sectors reads the size, then the start: two sysfs files. *)
ReadSize ==
  /\ pc = "size"
  /\ sz' = IF Exists(1) THEN View[1].size ELSE 0
  /\ Touch
  /\ Goto("start")
  /\ UNCHANGED <<disk, req, table, old, kernel, uefi, vol, hidden, cnt, tries>>

(* It accepts any size that would fit the disk from that start. *)
ReadStart ==
  LET st == IF Exists(1) THEN View[1].start ELSE 0 IN
  /\ pc = "start"
  /\ Touch
  /\ \/ /\ sz > 0 /\ st + sz <= disk
        /\ cnt' = sz /\ Goto("mkfs") /\ UNCHANGED tries
     \/ /\ ~(sz > 0 /\ st + sz <= disk)
        /\ tries' = tries + 1
        /\ IF tries + 1 < SettleTries THEN Goto("size") ELSE Fail
        /\ UNCHANGED cnt
  /\ UNCHANGED <<disk, req, table, old, kernel, uefi, vol, hidden, sz>>

(* mkfs makes a volume through the node: mkfs.ntfs of the given count, which *)
(* the node must be able to hold, the others of the size of the node.  The   *)
(* check of the boot sector that follows compares with the same count.       *)
Mkfs ==
  /\ pc = "mkfs"
  /\ \/ Fail /\ UNCHANGED vol
     \/ /\ Exists(1)
        /\ req.fs = "ntfs" => cnt <= View[1].size
        /\ vol' = [start |-> View[1].start,
                   size  |-> IF req.fs = "ntfs" THEN cnt ELSE View[1].size]
        /\ Goto("end")
  /\ Touch
  /\ UNCHANGED <<disk, req, table, old, kernel, uefi, hidden, cnt, sz, tries>>

-----------------------------------------------------------------------------
Init ==
  /\ \E m \in Media : disk = m.disk /\ table = m.old
  /\ req \in Requests
  /\ old = table /\ kernel = "new"
  /\ uefi = None /\ vol = None
  /\ hidden = 0 /\ cnt = 0 /\ sz = 0 /\ tries = 0
  /\ stale = FALSE
  /\ pc = "partition" /\ rc = 0

Program ==
  \/ RunSfdisk \/ WaitNode(1, "wait1") \/ WaitNode(2, "wait2") \/ WriteUefi
  \/ ZeroHead \/ WipeEdges \/ Format \/ ReadSize \/ ReadStart \/ Mkfs

Finished == pc = "end" /\ UNCHANGED vars

Next == Program \/ KernelRereads \/ Finished

Spec == Init /\ [][Next]_vars

-----------------------------------------------------------------------------
(* Sizes and positions are sectors of the drive; none becomes negative.     *)
TypeOK ==
  /\ disk \in Nat /\ req \in RequestType
  /\ table \in Seq(Part) /\ old \in Seq(Part)
  /\ kernel \in {"old", "gone", "new"}
  /\ uefi \in Nat \cup {None} /\ vol \in Part \cup {None}
  /\ hidden \in Nat /\ cnt \in Nat /\ sz \in Nat /\ tries \in Nat
  /\ stale \in BOOLEAN
  /\ pc \in Labels /\ rc \in {0, -1}

(* Every table the program writes is sound on every drive it accepts: the   *)
(* partitions begin behind the first MiB, do not overlap, and leave the end *)
(* of a GPT drive to the backup table (partition.c:163-207).                *)
TableFits ==
  pc # "partition" /\ rc = 0 =>
    /\ table[1].start >= MiB
    /\ \A i \in DOMAIN table :
         /\ table[i].size > 0
         /\ End(table[i]) <= LastUsable(req, disk)
         /\ i + 1 \in DOMAIN table => End(table[i]) <= table[i + 1].start

Succeeded == pc = "end" /\ rc = 0 /\ req.layout # "esp+main"

(* When no node was used before the kernel had read the new table, a run    *)
(* that succeeds leaves partition 1 holding a volume of exactly its size,   *)
(* described with the right start, and the UEFI:NTFS image where the table  *)
(* says it is (create.c:640-662, mkfs_task.c:129-205).                      *)
SoundWhenFresh ==
  Succeeded /\ ~stale =>
    /\ vol = table[1]
    /\ req.fs = "ntfs" => hidden = table[1].start
    /\ req.layout = "main+uefintfs" => uefi = table[2].start

(* The UEFI:NTFS image, once written and read back, survives everything the *)
(* flow does to partition 1 afterwards: clearing its head, wiping its edges *)
(* and formatting it, unless a node was stale (create.c:644-658).           *)
UefiSurvives == [][uefi # None => (uefi' = uefi \/ stale')]_vars

(* "The exact sector count, so the volume can never outgrow its partition"  *)
(* (mkfs_task.c:158).                                                       *)
VolumeInPartition ==
  Succeeded /\ req.fs = "ntfs" => End(vol) <= End(table[1])
-----------------------------------------------------------------------------
(* The inductive invariant.  As long as no stale node was used, what the    *)
(* program has read and written so far agrees with the new table.           *)
Formatting == {"size", "start", "mkfs"}

Agrees ==
  /\ (uefi # None /\ ~stale) => req.layout = "main+uefintfs" /\ uefi = table[2].start
  /\ (pc \in {"zero", "wipe", "format"} \cup Formatting /\ ~stale
        /\ req.layout = "main+uefintfs") => uefi = table[2].start
  /\ (pc \in Formatting /\ ~stale /\ req.fs = "ntfs") => hidden = table[1].start
  /\ (pc = "start" /\ ~stale) => sz \in {0, table[1].size}
  /\ (pc = "mkfs" /\ ~stale /\ req.fs = "ntfs") => cnt = table[1].size

IInv ==
  /\ TypeOK
  /\ pc = "partition" => uefi = None
  /\ (pc # "partition" /\ rc = 0) => Accepts(req, disk) /\ table = Plan(req, disk)
  /\ rc = -1 => pc = "end"
  /\ pc \notin {"partition", "end"} => req.layout # "esp+main"
  /\ pc \in {"wait2", "uefi"} => req.layout = "main+uefintfs"
  /\ Agrees
  /\ SoundWhenFresh
=============================================================================
