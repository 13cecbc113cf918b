---------------------------- MODULE MCPartition ----------------------------
(* An empty slot, drives on both sides of the 64 MiB limit, with and without *)
(* a last partial MiB, and one too large for FAT16; blank or holding one     *)
(* partition over the whole drive, or two.  Each request is one that a flow  *)
(* of create.c or the partition command makes.                               *)
EXTENDS Partition

Sizes == {16 * MiB, 63 * MiB + 2047, 64 * MiB, 64 * MiB + 1, 5120 * MiB + 77}
Whole(d)  == <<[start |-> 63, size |-> d - 63]>>
Halves(d) == <<[start |-> MiB, size |-> d \div 2],
               [start |-> MiB + (d \div 2), size |-> MiB]>>
Used(d)   == {[disk |-> d, old |-> t] : t \in {<<>>, Whole(d), Halves(d)}}
MCMedia   == {[disk |-> 0, old |-> <<>>]} \cup UNION {Used(d) : d \in Sizes}

Windows(s, f, q) ==
  [scheme |-> s, layout |-> IF f = "ntfs" THEN "main+uefintfs" ELSE "single",
   bios_boot |-> (s = "gpt"), quick |-> q, wipe |-> TRUE, fs |-> f]
Plain(s, f, q) ==
  [scheme |-> s, layout |-> "single", bios_boot |-> FALSE, quick |-> q,
   wipe |-> FALSE, fs |-> f]
EspMain(s) == [Plain(s, "vfat", TRUE) EXCEPT !.layout = "esp+main"]
MCRequests ==
  {Windows(s, f, q) : s \in {"gpt", "dos"}, f \in {"ntfs", "vfat"}, q \in BOOLEAN}
  \cup {Plain(s, f, q) : s \in {"gpt", "dos"}, f \in {"ntfs", "vfat", "fat16"},
                          q \in BOOLEAN}
  \cup {EspMain(s) : s \in {"gpt", "dos"}}
=============================================================================
