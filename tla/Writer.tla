------------------------------- MODULE Writer -------------------------------
(***************************************************************************)
(* rufux_write_image (src/linux/writer.c): the raw image writer behind     *)
(* `rufux write` and `create --mode dd`.  Each member of Workers is one    *)
(* rufux process; they all write to the same target.  Bytes are abstracted *)
(* to units of data; write() may be short, the medium may store something  *)
(* else than it was given (which only a read that the page cache does not  *)
(* serve will show), the source may be truncated by another program or     *)
(* fail to read, and every system call may fail.                           *)
(***************************************************************************)
EXTENDS Integers, Sequences, FiniteSets

CONSTANTS
  Workers,     \* rufux processes that write to the one target
  Data,        \* what a unit of an image can hold
  Blank,       \* the content of a unit that holds no image data
  Image,       \* Image[w]: the source file of w as it is when the run starts
  SrcLen,      \* SrcLen[w]: opts->src_len, the payload of a fixed VHD; 0 = whole file
  Chunk,       \* units per fread (CHUNK)
  Cap,         \* capacity of the target
  Options,     \* Options[w]: the option records w may be started with
  MaxFaults,   \* bound: units the medium holds wrongly at a time
  None         \* nobody holds the lock

OptionType ==
  [dry_run : BOOLEAN, yes : BOOLEAN, verify : BOOLEAN, same : BOOLEAN]

ASSUME ImageAssumption   == Image \in [Workers -> Seq(Data)]
ASSUME SrcLenAssumption  == SrcLen \in [Workers -> Nat]
ASSUME ChunkAssumption   == Chunk \in Nat \ {0}
ASSUME CapAssumption     == Cap \in Nat /\ MaxFaults \in Nat
ASSUME OptionsAssumption == Options \in [Workers -> SUBSET OptionType]
ASSUME BlankAssumption   == Blank \notin Data /\ None \notin Workers

VARIABLES
  reg,      \* dst_is_reg: the target is a regular file, not a block device
  dst,      \* what was last written to each unit of the target
  bad,      \* the units for which the medium stored something else
  cached,   \* the units of the target that the page cache holds
  lock,     \* the worker that holds flock(LOCK_EX) on the block device
  srclen,   \* srclen[w]: current length of w's source file
  opts,     \* opts[w]: RufuxWriteOpts
  pc,       \* pc[w]: where w stands in rufux_write_image
  total,    \* total[w]: units to copy, fixed by the stat() at the start
  done,     \* done[w]: units of completed chunks
  n,        \* n[w]: units in the buffer
  off,      \* off[w]: units of the buffer already written
  ferr,     \* ferr[w]: ferror() on the source
  vdone,    \* vdone[w]: units compared by verify
  rc        \* rc[w]: 0 or -1

store  == <<dst, bad, cached>>
target == <<reg, store, lock>>
locals == <<total, done, n, off, ferr, vdone>>
vars   == <<reg, dst, bad, cached, lock, srclen, opts, pc, total, done, n,
            off, ferr, vdone, rc>>

Labels == {"start", "dry", "open", "capacity", "read", "write", "sync",
           "verify", "end"}

Smaller(a, b) == IF a < b THEN a ELSE b

\* Mutant: the budget of a VHD payload is not applied.
read_capped_unbounded(w, from) ==
  Smaller(Chunk, IF srclen[w] > from THEN srclen[w] - from ELSE 0)

\* Mutant: the larger of the chunk and the budget is asked for.
read_capped_swapped(w, from) ==
  LET left == total[w] - from
      want == IF Chunk > left THEN Chunk ELSE left
      have == IF srclen[w] > from THEN srclen[w] - from ELSE 0
  IN  IF left = 0 THEN 0 ELSE Smaller(want, have)

(* The units a capped fread can return: read_capped asks for at most Chunk  *)
(* units and at most what is left of the budget; the file may end earlier.  *)
read_capped(w, from) ==
  LET want == Smaller(Chunk, total[w] - from)
      have == IF srclen[w] > from THEN srclen[w] - from ELSE 0
  IN  Smaller(want, have)

-----------------------------------------------------------------------------
(* Closing fd drops the flock. *)
Close(w) == lock' = IF lock = w THEN None ELSE lock

Return(w, code) ==
  /\ pc' = [pc EXCEPT ![w] = "end"]
  /\ rc' = [rc EXCEPT ![w] = code]

Goto(w, l) == pc' = [pc EXCEPT ![w] = l] /\ UNCHANGED rc

(* stat() of the source, the payload cap (a payload longer than the file is *)
(* refused before it is taken over), the empty-source refusal and the same- *)
(* file guard.  rufux_check_target may refuse for reasons of its own.       *)
CheckArguments(w) ==
  LET size == srclen[w]
      tot  == IF SrcLen[w] \in 1..size THEN SrcLen[w] ELSE size
      good == tot > 0 /\ SrcLen[w] <= size /\ ~opts[w].same
  IN
  /\ pc[w] = "start"
  /\ total' = [total EXCEPT ![w] = tot]
  /\ \/ Return(w, -1)
     \/ good /\ opts[w].dry_run /\ Goto(w, "dry")
     \/ good /\ ~opts[w].dry_run /\ opts[w].yes /\ Goto(w, "open")
  /\ UNCHANGED <<target, srclen, opts, done, n, off, ferr, vdone>>

(* --dry-run reads the source to its end and reports a read error. *)
DryRead(w) ==
  /\ pc[w] = "dry"
  /\ Return(w, 0) \/ Return(w, -1)
  /\ UNCHANGED <<target, srclen, opts, locals>>

\* Mutant: flock is called but its result is ignored.
OpenTarget_ignores_lock(w) ==
  /\ pc[w] = "open"
  /\ Goto(w, IF reg THEN "read" ELSE "capacity")
  /\ dst' = IF reg THEN [i \in 1..Cap |-> Blank] ELSE dst
  /\ lock' = IF lock = None THEN w ELSE lock
  /\ UNCHANGED <<reg, bad, cached, srclen, opts, locals>>

(* A regular file is truncated and not locked; a block device is locked     *)
(* without waiting.  Either open() may fail.                                *)
OpenTarget(w) ==
  /\ pc[w] = "open"
  /\ \/ Return(w, -1) /\ UNCHANGED <<store, lock>>
     \/ /\ reg
        /\ Goto(w, "read")
        /\ dst' = [i \in 1..Cap |-> Blank] /\ cached' = {}
        /\ UNCHANGED <<bad, lock>>
     \/ /\ ~reg /\ lock = None
        /\ Goto(w, "capacity")
        /\ lock' = w
        /\ UNCHANGED store
  /\ UNCHANGED <<reg, srclen, opts, locals>>

(* BLKGETSIZE64: an image larger than the device is refused, unless the     *)
(* ioctl fails: then the copy starts, and write() will find the end.  (The  *)
(* second refusal of this stretch is the malloc of the buffer.)             *)
CheckCapacity(w) ==
  /\ pc[w] = "capacity"
  /\ \E known \in BOOLEAN :
       \/ Return(w, -1) /\ Close(w)
       \/ (known => total[w] <= Cap) /\ Goto(w, "read") /\ UNCHANGED lock
  /\ UNCHANGED <<reg, store, srclen, opts, locals>>

\* Mutant: ferror() is not looked at after the copy loop.
ReadChunk_no_ferror(w) ==
  /\ pc[w] = "read"
  /\ \E k \in 0..read_capped(w, done[w]) :
       /\ n'   = [n EXCEPT ![w] = k]
       /\ off' = [off EXCEPT ![w] = 0]
       /\ Goto(w, IF k > 0 THEN "write" ELSE "sync")
  /\ UNCHANGED <<target, srclen, opts, total, done, ferr, vdone>>

(* The head of the copy loop: a full or short chunk, or the end of it. *)
ReadChunk(w) ==
  /\ pc[w] = "read"
  /\ \E k \in 0..read_capped(w, done[w]), err \in BOOLEAN :
       /\ ~err => k = read_capped(w, done[w])
       /\ ferr' = [ferr EXCEPT ![w] = @ \/ err]
       /\ n'    = [n EXCEPT ![w] = k]
       /\ off'  = [off EXCEPT ![w] = 0]
       /\ IF k > 0
            THEN Goto(w, "write")
            ELSE /\ pc' = [pc EXCEPT ![w] = "sync"]
                 /\ rc' = [rc EXCEPT ![w] = IF ferr'[w] THEN -1 ELSE 0]
  /\ UNCHANGED <<target, srclen, opts, total, done, vdone>>

(* The units of the target that the next k units of the buffer go to. *)
Range(w, k) == done[w] + off[w] + 1 .. done[w] + off[w] + k

\* Mutant: a short write is continued from the start of the buffer.
Written_restarts(w, k) ==
  [i \in 1..Cap |-> IF i \in Range(w, k)
                      THEN Image[w][i - off[w]] ELSE dst[i]]

(* What the target holds after k more units of the buffer went out. *)
Written(w, k) ==
  [i \in 1..Cap |-> IF i \in Range(w, k)
                      THEN Image[w][i] ELSE dst[i]]

(* One write() of the inner loop.  It may be short; EINTR retries and       *)
(* changes nothing.  The units are in the page cache from then on; when the *)
(* kernel stores them, the medium may get a unit wrong, one of these or     *)
(* another, and the kernel will not notice (left out for a regular file,    *)
(* about which no property speaks).                                         *)
WriteSome(w) ==
  /\ pc[w] = "write"
  /\ \E k \in 1..(n[w] - off[w]) :
       /\ done[w] + off[w] + k <= Cap
       /\ dst' = Written(w, k)
       /\ cached' = cached \cup Range(w, k)
       /\ \/ bad' = bad \ Range(w, k)
          \/ /\ ~reg /\ Cardinality(bad) < MaxFaults
             /\ \E j \in 1..Cap : bad' = (bad \ Range(w, k)) \cup {j}
       /\ IF off[w] + k = n[w]
            THEN /\ done' = [done EXCEPT ![w] = @ + n[w]]
                 /\ n'    = [n EXCEPT ![w] = 0]
                 /\ off'  = [off EXCEPT ![w] = 0]
                 /\ Goto(w, "read")
            ELSE /\ off' = [off EXCEPT ![w] = @ + k]
                 /\ UNCHANGED <<done, n, pc, rc>>
  /\ UNCHANGED <<reg, lock, srclen, opts, total, ferr, vdone>>

(* write() fails (EIO, ENOSPC): the loop ends, fsync still runs. *)
WriteFails(w) ==
  /\ pc[w] = "write"
  /\ pc' = [pc EXCEPT ![w] = "sync"]
  /\ rc' = [rc EXCEPT ![w] = -1]
  /\ UNCHANGED <<target, srclen, opts, locals>>

\* Mutant: the device is closed, and so unlocked, before it is verified.
Sync_unlocks(w) ==
  /\ pc[w] = "sync"
  /\ \/ Return(w, -1)
     \/ /\ rc[w] = 0
        /\ IF opts[w].verify THEN Goto(w, "verify") ELSE Return(w, 0)
  /\ Close(w)
  /\ UNCHANGED <<reg, store, srclen, opts, locals>>

(* fsync, BLKRRPART, and the reopening of both files when verifying: with   *)
(* open(O_RDONLY), so that the pages which the kernel kept since they were  *)
(* written, any of them, will answer for the medium.                        *)
Sync(w) ==
  /\ pc[w] = "sync"
  /\ \/ Return(w, -1) /\ Close(w) /\ UNCHANGED cached
     \/ /\ rc[w] = 0 /\ opts[w].verify
        /\ Goto(w, "verify")
        /\ cached' \in IF reg THEN {cached} ELSE SUBSET cached
        /\ UNCHANGED lock
     \/ /\ rc[w] = 0 /\ ~opts[w].verify
        /\ Return(w, 0) /\ Close(w) /\ UNCHANGED cached
  /\ UNCHANGED <<reg, dst, bad, srclen, opts, locals>>

(* What read() of the target returns is the image: from the page cache what *)
(* was last written, from the medium what that stored.                      *)
Matches(w, from, k) ==
  \A i \in from + 1 .. from + k :
    i <= Cap /\ dst[i] = Image[w][i] /\ (i \in bad => i \in cached)

\* Mutant: a mismatch starts the comparison over instead of failing.
VerifyChunk_retries(w) ==
  /\ pc[w] = "verify"
  /\ LET k == read_capped(w, vdone[w]) IN
       IF k > 0
         THEN /\ vdone' = [vdone EXCEPT ![w] =
                            IF Matches(w, vdone[w], k) THEN @ + k ELSE 0]
              /\ UNCHANGED <<pc, rc, lock>>
         ELSE Return(w, 0) /\ Close(w) /\ UNCHANGED vdone
  /\ UNCHANGED <<reg, store, srclen, opts, total, done, n, off, ferr>>

(* One round of the compare loop.  ferror() of the second source handle is  *)
(* not looked at: a read error there ends the loop like the end of file.    *)
VerifyChunk(w) ==
  /\ pc[w] = "verify"
  /\ \E k \in 0..read_capped(w, vdone[w]), err \in BOOLEAN :
       /\ ~err => k = read_capped(w, vdone[w])
       /\ ferr' = [ferr EXCEPT ![w] = @ \/ err]
       /\ IF k > 0 /\ Matches(w, vdone[w], k)
            THEN /\ vdone' = [vdone EXCEPT ![w] = @ + k]
                 /\ UNCHANGED <<pc, rc, lock>>
            ELSE /\ Return(w, IF k = 0 THEN 0 ELSE -1)
                 /\ Close(w)
                 /\ UNCHANGED vdone
  /\ UNCHANGED <<reg, store, srclen, opts, total, done, n, off>>

(* Reading the target back fails. *)
VerifyFails(w) ==
  /\ pc[w] = "verify"
  /\ Return(w, -1) /\ Close(w)
  /\ UNCHANGED <<reg, store, srclen, opts, locals>>

(* The process is killed; the kernel closes its files. *)
Killed(w) ==
  /\ pc[w] # "end"
  /\ Return(w, -1) /\ Close(w)
  /\ UNCHANGED <<reg, store, srclen, opts, locals>>

(* Another program truncates the source of w. *)
SourceShrinks(w) ==
  /\ pc[w] # "end"
  /\ srclen[w] = Len(Image[w])
  /\ \E l \in 0..(srclen[w] - 1) : srclen' = [srclen EXCEPT ![w] = l]
  /\ UNCHANGED <<target, opts, pc, locals, rc>>

-----------------------------------------------------------------------------
Init ==
  /\ reg \in BOOLEAN
  /\ dst = [i \in 1..Cap |-> Blank]
  /\ bad = {}
  /\ cached = {}
  /\ lock = None
  /\ srclen = [w \in Workers |-> Len(Image[w])]
  /\ opts \in [Workers -> OptionType]
  /\ \A w \in Workers : opts[w] \in Options[w]
  /\ pc = [w \in Workers |-> "start"]
  /\ total = [w \in Workers |-> 0]
  /\ done = [w \in Workers |-> 0]
  /\ n = [w \in Workers |-> 0]
  /\ off = [w \in Workers |-> 0]
  /\ ferr = [w \in Workers |-> FALSE]
  /\ vdone = [w \in Workers |-> 0]
  /\ rc = [w \in Workers |-> 0]

Step(w) ==
  \/ CheckArguments(w) \/ DryRead(w) \/ OpenTarget(w) \/ CheckCapacity(w)
  \/ ReadChunk(w) \/ WriteSome(w) \/ WriteFails(w) \/ Sync(w)
  \/ VerifyChunk(w) \/ VerifyFails(w)

Finished == (\A w \in Workers : pc[w] = "end") /\ UNCHANGED vars

Next ==
  \/ \E w \in Workers : Step(w) \/ Killed(w) \/ SourceShrinks(w)
  \/ Finished

Spec == Init /\ [][Next]_vars

(* The kernel schedules every process and every system call returns. *)
FairSpec == Spec /\ \A w \in Workers : WF_vars(Step(w))
-----------------------------------------------------------------------------
Shape ==
  /\ reg \in BOOLEAN
  /\ dst \in [1..Cap -> Data \cup {Blank}]
  /\ bad \in SUBSET (1..Cap) /\ cached \in SUBSET (1..Cap)
  /\ lock \in Workers \cup {None}
  /\ srclen \in [Workers -> Nat]
  /\ opts \in [Workers -> OptionType]
  /\ pc \in [Workers -> Labels]
  /\ total \in [Workers -> Nat]
  /\ done \in [Workers -> Nat]
  /\ n \in [Workers -> Nat]
  /\ off \in [Workers -> Nat]
  /\ ferr \in [Workers -> BOOLEAN]
  /\ vdone \in [Workers -> Nat]
  /\ rc \in [Workers -> {0, -1}]

Counters(w) ==
  /\ srclen[w] <= Len(Image[w])
  /\ total[w] <= Len(Image[w])
  /\ done[w] + n[w] <= total[w]
  /\ n[w] <= Chunk
  /\ off[w] <= n[w]
  /\ vdone[w] <= total[w]

(* Every variable has its type, and the counters stay within what they      *)
(* count: the budget within the source, the chunks within the budget, a     *)
(* chunk within the buffer malloc(CHUNK) gave, what write() took within the *)
(* chunk and what was compared within the budget (writer.c:18-26, 124-200). *)
TypeOK == Shape /\ \A w \in Workers : Counters(w)

Holding == {"capacity", "read", "write", "sync", "verify"}

(* Two processes never work on one block device at the same time: from its  *)
(* open() to its close(), verification included, a worker is the one holder *)
(* of the flock (writer.c:97-107, "so two writers can't race").             *)
OneWriter == ~reg => \A w \in Workers : (pc[w] \in Holding) <=> (lock = w)

(* Short writes lose, repeat and shift nothing: what a worker has sent out  *)
(* to a block device so far is exactly the beginning of its image           *)
(* (writer.c:133-148).                                                      *)
WrittenPrefix ==
  ~reg =>
    \A w \in Workers : pc[w] \in {"read", "write", "sync", "verify"} =>
      \A i \in 1..(done[w] + off[w]) : dst[i] = Image[w][i]

Shrunk(w) == srclen[w] < Len(Image[w])

(* A write that ends in success has copied the whole payload, whatever read *)
(* errors and short reads happened on the way; only a source that another   *)
(* program shortened meanwhile escapes this (writer.c:133-152).             *)
SuccessIsComplete ==
  \A w \in Workers :
    (pc[w] = "end" /\ rc[w] = 0 /\ ~opts[w].dry_run /\ ~Shrunk(w)) =>
      done[w] = total[w]

VerifiedEnd(w) ==
  (pc[w] = "verify" /\ pc'[w] = "end" /\ rc'[w] = 0 /\ ~reg) =>
    /\ \A i \in 1..vdone[w] : dst[i] = Image[w][i] /\ (i \in bad => i \in cached)
    /\ ferr'[w] \/ Shrunk(w) \/ vdone[w] = total[w]

(* What success of --verify on a block device says: at that moment every    *)
(* unit of the payload is the last thing written there, although the        *)
(* comparison takes many steps, and is intact on the medium unless the page *)
(* cache answered for it.  The target is opened again without O_DIRECT or   *)
(* BLKFLSBUF, so a unit that the medium got wrong is found out only if the  *)
(* kernel has dropped its page by then.  A source that shrank or could not  *)
(* be read again ends the comparison early (writer.c:165-200).              *)
VerifiedCopy == [][\A w \in Workers : VerifiedEnd(w)]_vars

PayloadStep ==
  ~reg =>
    \A i \in 1..Cap : dst'[i] # dst[i] =>
      \E w \in Workers :
        /\ lock = w /\ opts[w].yes /\ ~opts[w].dry_run
        /\ i <= total[w]

(* A step changes only units inside the payload of the worker that holds    *)
(* the lock and was started with --real --yes: the 512-byte footer of a VHD *)
(* and the rest of the drive are never written (writer.c:18-26, 86-90).     *)
OnlyPayloadWritten == [][PayloadStep]_vars

(* Every run comes to an end, whoever else holds the lock: the lock is      *)
(* never waited for and every loop makes progress (writer.c:101, 133-148).  *)
Termination == \A w \in Workers : <>(pc[w] = "end")
-----------------------------------------------------------------------------
(* The inductive invariant: what the counters of a worker mean at each      *)
(* label.  The safety properties above follow from it.                      *)
Begun == {"read", "write", "sync", "verify"}

WorkerInv(w) ==
  /\ pc[w] \in {"start", "dry", "open", "capacity"} => done[w] = 0 /\ n[w] = 0
  /\ pc[w] \notin {"verify", "end"} => vdone[w] = 0
  /\ pc[w] = "read" => n[w] = 0
  /\ pc[w] \in {"open"} \cup Holding => opts[w].yes /\ ~opts[w].dry_run
  /\ pc[w] = "dry" => opts[w].dry_run
  /\ pc[w] \notin {"sync", "end"} => rc[w] = 0
  /\ (pc[w] \in {"sync", "verify"} /\ rc[w] = 0 /\ ~Shrunk(w)) =>
       done[w] = total[w]

VerifiedSoFar ==
  ~reg => \A w \in Workers : pc[w] = "verify" =>
    \A i \in 1..vdone[w] : dst[i] = Image[w][i] /\ (i \in bad => i \in cached)

IInv ==
  /\ TypeOK /\ OneWriter /\ WrittenPrefix /\ SuccessIsComplete
  /\ VerifiedSoFar
  /\ \A w \in Workers : WorkerInv(w)
=============================================================================
