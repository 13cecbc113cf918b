------------------------------ MODULE MCCreate ------------------------------
(* Every mode with every scheme and file system on a removable drive, each   *)
(* with quick and full format and with the optional content on and off; then *)
(* the safety options one by one on the plainest request of each mode, and   *)
(* the targets that are not a removable drive.                               *)
EXTENDS Create

Base(m, f) ==
  [mode |-> m, scheme |-> "gpt", fs |-> f, dev |-> "removable", dry_run |-> FALSE,
   yes |-> TRUE, allow_fixed |-> FALSE, allow_file |-> FALSE, quick |-> TRUE,
   passes |-> 0, ignore_smart |-> FALSE, label_ok |-> TRUE, autorun |-> FALSE,
   persist |-> FALSE, custom |-> FALSE]

Modes == {"dd", "extract", "format", "dos", "windows"}
Fss(m) == IF m = "windows" THEN {"vfat", "ntfs", "exfat"}
          ELSE IF m \in {"dd", "dos"} THEN {"vfat"} ELSE FileSystems

Layouts == UNION {{[Base(m, f) EXCEPT !.scheme = s, !.quick = q, !.autorun = x,
                                      !.persist = x, !.custom = x] :
                     s \in {"gpt", "dos", "mbr"}, f \in Fss(m),
                     q \in BOOLEAN, x \in BOOLEAN} : m \in Modes}
Guarded == UNION {{[Base(m, "ntfs") EXCEPT !.dry_run = d, !.yes = y, !.passes = p,
                                           !.ignore_smart = i] :
                     d \in BOOLEAN, y \in BOOLEAN, p \in {0, 1}, i \in BOOLEAN} : m \in Modes}
Others  == UNION {{[Base(m, "ntfs") EXCEPT !.dev = v, !.allow_fixed = a, !.allow_file = a,
                                           !.quick = q, !.passes = p] :
                     v \in {"fixed", "file", "dir"}, a \in BOOLEAN, q \in BOOLEAN,
                     p \in {0, 1}} : m \in Modes}
BadLabels == {[Base(m, "ntfs") EXCEPT !.label_ok = FALSE] : m \in Modes}

MCRequests == Layouts \cup Guarded \cup Others \cup BadLabels
=============================================================================
