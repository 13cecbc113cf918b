--------------------------- MODULE PartitionProofs ---------------------------
(* Proofs about Partition for drives of every size, every old table and every *)
(* number of polling rounds.                                                  *)
EXTENDS Partition, TLAPS

(* What makes a table t sound for request r on a drive of d sectors. *)
Sound(r, d, t) ==
  /\ t \in Seq(Part) /\ Len(t) >= 1 /\ t[1].start = MiB
  /\ \A i \in DOMAIN t :
       /\ t[i].size > 0
       /\ End(t[i]) <= LastUsable(r, d)
       /\ i + 1 \in DOMAIN t => End(t[i]) <= t[i + 1].start
  /\ r.layout = "main+uefintfs" =>
       Len(t) >= 2 /\ t[2].start = End(t[1]) /\ t[1].size >= 16 * MiB

LEMMA Sizes ==
  ASSUME NEW d \in Nat
  PROVE  /\ mib(d) \in Nat /\ MiB * mib(d) <= d
  BY DEF mib, MiB

LEMMA OneSound ==
  ASSUME NEW r \in RequestType, NEW d \in Nat, NEW a \in Part,
         r.layout # "main+uefintfs",
         a.start = MiB, a.size > 0, End(a) <= LastUsable(r, d)
  PROVE  Sound(r, d, <<a>>)
  BY DEF Sound, Part, End

LEMMA TwoSound ==
  ASSUME NEW r \in RequestType, NEW d \in Nat, NEW a \in Part, NEW b \in Part,
         a.start = MiB, a.size > 0, End(a) = b.start, b.size > 0,
         End(b) <= LastUsable(r, d), LastUsable(r, d) \in Int,
         r.layout = "main+uefintfs" => a.size >= 16 * MiB
  PROVE  Sound(r, d, <<a, b>>)
  <1> DEFINE t == <<a, b>>
  <1>1. t \in Seq(Part) /\ Len(t) = 2 /\ t[1] = a /\ t[2] = b /\ DOMAIN t = {1, 2}
    OBVIOUS
  <1>2. End(a) <= LastUsable(r, d)
    BY DEF End, Part
  <1> HIDE DEF t
  <1>3. Sound(r, d, t)
    BY <1>1, <1>2 DEF Sound, End, Part
  <1>4. QED
    BY <1>3 DEF t

LEMMA ThreeSound ==
  ASSUME NEW r \in RequestType, NEW d \in Nat,
         NEW a \in Part, NEW b \in Part, NEW c \in Part,
         a.start = MiB, a.size >= 16 * MiB, End(a) = b.start, b.size > 0,
         End(b) = c.start, c.size > 0,
         End(c) <= LastUsable(r, d), LastUsable(r, d) \in Int
  PROVE  Sound(r, d, <<a, b, c>>)
  <1> DEFINE t == <<a, b, c>>
  <1>1. /\ t \in Seq(Part) /\ Len(t) = 3 /\ DOMAIN t = {1, 2, 3}
        /\ t[1] = a /\ t[2] = b /\ t[3] = c
    OBVIOUS
  <1>2. End(a) <= LastUsable(r, d) /\ End(b) <= LastUsable(r, d)
    BY DEF End, Part
  <1> HIDE DEF t
  <1>3. ASSUME NEW i \in DOMAIN t
        PROVE  /\ t[i].size > 0
               /\ End(t[i]) <= LastUsable(r, d)
               /\ i + 1 \in DOMAIN t => End(t[i]) <= t[i + 1].start
    <2>1. a.size > 0 /\ End(a) <= b.start /\ End(b) <= c.start
      BY DEF Part, End, MiB
    <2>2. i \in {1, 2, 3}
      BY <1>1
    <2>3. CASE i = 1
      BY <1>1, <1>2, <2>1, <2>3
    <2>4. CASE i = 2
      BY <1>1, <1>2, <2>1, <2>4
    <2>5. CASE i = 3
      BY <1>1, <1>2, <2>1, <2>5
    <2>6. QED
      BY <2>2, <2>3, <2>4, <2>5
  <1>5. Sound(r, d, t)
    BY <1>1, <1>3 DEF Sound
  <1>6. QED
    BY <1>5 DEF t

(* Every layout is sound on every drive it is accepted on. *)
LEMMA PlanSound ==
  ASSUME NEW r \in RequestType, NEW d \in Nat, Accepts(r, d)
  PROVE  Sound(r, d, Plan(r, d))
  <1> DEFINE m == mib(d)
             last == LastUsable(r, d)
  <1>1. m \in Nat /\ 2048 * m <= d
    BY Sizes DEF MiB
  <1>2. last \in Int /\ d - 33 <= last /\ r.scheme \in {"gpt", "dos"}
    BY DEF LastUsable, RequestType
  <1>3. CASE r.layout = "main+uefintfs" /\ bios_part(r)
    <2> DEFINE main == MiB * main_mib(r, d)
               a == Span(MiB, main)
               b == Span(MiB + main, MiB)
               c == Span(2 * MiB + main, MiB)
    <2>1. main = 2048 * (m - 4) /\ m >= 64
      BY <1>1, <1>3 DEF main_mib, MiB, Accepts, NeedsSize
    <2>2. main \in Nat /\ main >= 32768 /\ 2048 * 3 + main <= d - 33
      BY <1>1, <2>1
    <2> HIDE DEF main
    <2>3. a \in Part /\ b \in Part /\ c \in Part
      BY <2>2 DEF Span, Part, MiB
    <2>4. /\ a.start = MiB /\ a.size >= 16 * MiB /\ End(a) = b.start /\ b.size > 0
          /\ End(b) = c.start /\ c.size > 0 /\ End(c) <= last
      BY <1>2, <2>2 DEF Span, End, MiB
    <2> HIDE DEF a, b, c
    <2>5. Sound(r, d, <<a, b, c>>)
      BY <1>2, <2>3, <2>4, ThreeSound
    <2>6. Plan(r, d) = <<a, b, c>>
      BY <1>3 DEF Plan, main, a, b, c
    <2>7. QED
      BY <2>5, <2>6
  <1>4. CASE r.layout = "main+uefintfs" /\ ~bios_part(r)
    <2> DEFINE main == MiB * main_mib(r, d)
               a == Span(MiB, main)
               b == Span(MiB + main, MiB)
    <2>1. main = 2048 * (m - 3) /\ m >= 64
      BY <1>1, <1>4 DEF main_mib, MiB, Accepts, NeedsSize
    <2>2. main \in Nat /\ main >= 32768 /\ 2048 * 2 + main <= d - 33
      BY <1>1, <2>1
    <2> HIDE DEF main
    <2>3. a \in Part /\ b \in Part
      BY <2>2 DEF Span, Part, MiB
    <2>4. /\ a.start = MiB /\ a.size >= 16 * MiB /\ a.size > 0
          /\ End(a) = b.start /\ b.size > 0 /\ End(b) <= last
      BY <1>2, <2>2 DEF Span, End, MiB
    <2> HIDE DEF a, b
    <2>5. Sound(r, d, <<a, b>>)
      BY <1>2, <2>3, <2>4, TwoSound
    <2>6. Plan(r, d) = <<a, b>>
      BY <1>4 DEF Plan, main, a, b
    <2>7. QED
      BY <2>5, <2>6
  <1>5. CASE r.layout = "esp+main"
    <2> DEFINE a == Span(MiB, 512 * MiB)
               b == Span(513 * MiB, last - 513 * MiB)
    <2>1. last > 513 * 2048
      BY <1>5 DEF Accepts, NeedsSize, MiB
    <2>3. a \in Part /\ b \in Part
      BY <1>2, <2>1 DEF Span, Part, MiB
    <2>4. /\ a.start = MiB /\ a.size > 0 /\ End(a) = b.start /\ b.size > 0
          /\ End(b) <= last
      BY <1>2, <2>1 DEF Span, End, MiB
    <2> HIDE DEF a, b
    <2>5. Sound(r, d, <<a, b>>)
      BY <1>2, <1>5, <2>3, <2>4, TwoSound
    <2>6. Plan(r, d) = <<a, b>>
      BY <1>5 DEF Plan, a, b
    <2>7. QED
      BY <2>5, <2>6
  <1>6. CASE r.layout = "single" /\ bios_part(r)
    <2> DEFINE data == MiB * (mib(d) - 3)
               a == Span(MiB, data)
               b == Span(MiB + data, MiB)
    <2>1. data = 2048 * (m - 3) /\ m >= 64
      BY <1>1, <1>6 DEF MiB, Accepts, NeedsSize
    <2>2. data \in Nat /\ data >= 32768 /\ 2048 * 2 + data <= d - 33
      BY <1>1, <2>1
    <2> HIDE DEF data
    <2>3. a \in Part /\ b \in Part
      BY <2>2 DEF Span, Part, MiB
    <2>4. /\ a.start = MiB /\ a.size > 0 /\ End(a) = b.start /\ b.size > 0
          /\ End(b) <= last
      BY <1>2, <2>2 DEF Span, End, MiB
    <2> HIDE DEF a, b
    <2>5. Sound(r, d, <<a, b>>)
      BY <1>2, <1>6, <2>3, <2>4, TwoSound
    <2>6. Plan(r, d) = <<a, b>>
      BY <1>6 DEF Plan, data, a, b
    <2>7. QED
      BY <2>5, <2>6
  <1>7. CASE r.layout = "single" /\ ~bios_part(r)
    <2> DEFINE a == Span(MiB, last - MiB)
    <2>1. last > 2048
      BY <1>7 DEF Accepts, NeedsSize, MiB
    <2>3. a \in Part
      BY <1>2, <2>1 DEF Span, Part, MiB
    <2>4. a.start = MiB /\ a.size > 0 /\ End(a) <= last
      BY <1>2, <2>1 DEF Span, End, MiB
    <2> HIDE DEF a
    <2>5. Sound(r, d, <<a>>)
      BY <1>7, <2>3, <2>4, OneSound
    <2>6. Plan(r, d) = <<a>>
      BY <1>7 DEF Plan, a
    <2>7. QED
      BY <2>5, <2>6
  <1>8. QED
    BY <1>3, <1>4, <1>5, <1>6, <1>7 DEF RequestType

LEMMA InitIInv == Init => IInv
  <1> SUFFICES ASSUME Init PROVE IInv
    OBVIOUS
  <1>1. disk \in Nat /\ table \in Seq(Part)
    BY MediaAssumption DEF Init
  <1>2. TypeOK
    BY <1>1, RequestsAssumption DEF Init, TypeOK, Labels
  <1>3. QED
    BY <1>2 DEF Init, IInv, Agrees, SoundWhenFresh, Succeeded, Formatting

LEMMA TableSound ==
  ASSUME IInv, pc # "partition", rc = 0
  PROVE  Sound(req, disk, table)
  BY PlanSound DEF IInv, TypeOK

(* A node that exists and is not stale is a partition of the new table. *)
LEMMA FreshNode ==
  ASSUME TypeOK, NEW i, Exists(i), kernel # "old"
  PROVE  View = table /\ i \in DOMAIN table
  BY DEF TypeOK, Exists, View

LEMMA NodeType ==
  ASSUME TypeOK, NEW i, Exists(i)
  PROVE  View[i] \in Part /\ View[i].start \in Nat /\ View[i].size \in Nat
  <1>1. View \in Seq(Part)
    BY DEF TypeOK, View
  <1>2. View[i] \in Part
    BY <1>1 DEF Exists
  <1>3. QED
    BY <1>2 DEF Part

(* stale only ever becomes true, and stays false only on fresh accesses. *)
LEMMA Stale ==
  ASSUME TypeOK, Touch \/ UNCHANGED stale
  PROVE  /\ stale' \in BOOLEAN /\ (stale => stale')
         /\ (Touch /\ ~stale') => (~stale /\ kernel # "old")
  BY Zenon DEF TypeOK, Touch

UefiStep == uefi # None => (uefi' = uefi \/ stale')

LEMMA RunSfdiskIInv ==
  ASSUME IInv, RunSfdisk
  PROVE  IInv' /\ UefiStep
  <1>1. TypeOK /\ uefi = None
    BY DEF IInv, RunSfdisk
  <1>2. CASE Fail /\ UNCHANGED <<table, old, kernel>>
    BY <1>1, <1>2 DEF IInv, TypeOK, RunSfdisk, Fail, Agrees, SoundWhenFresh, Succeeded,
                      UefiStep, Labels, Formatting
  <1>3. CASE /\ Accepts(req, disk)
             /\ Fail \/ Goto(AfterSfdisk(req))
             /\ table' = Plan(req, disk) /\ old' = table /\ kernel' = "old"
    <2>1. table' \in Seq(Part)
      BY <1>1, <1>3, PlanSound DEF TypeOK, Sound
    <2>2. TypeOK'
      BY <1>1, <1>3, <2>1 DEF TypeOK, RunSfdisk, Fail, Goto, AfterSfdisk, Labels
    <2>3. QED
      BY <1>1, <1>3, <2>2 DEF IInv, TypeOK, RunSfdisk, Fail, Goto, AfterSfdisk, Agrees,
                              SoundWhenFresh, Succeeded, UefiStep, Formatting
  <1>4. QED
    BY <1>2, <1>3 DEF RunSfdisk

LEMMA KernelRereadsIInv ==
  ASSUME IInv, KernelRereads
  PROVE  IInv' /\ UefiStep
  BY DEF IInv, TypeOK, KernelRereads, Agrees, SoundWhenFresh, Succeeded, UefiStep

(* What every step of the program after sfdisk keeps, and where it leads. *)
LEMMA Running ==
  ASSUME IInv, pc \notin {"partition", "end"}
  PROVE  /\ TypeOK /\ rc = 0 /\ Accepts(req, disk) /\ table = Plan(req, disk)
         /\ req.layout # "esp+main" /\ Sound(req, disk, table)
  BY TableSound DEF IInv, TypeOK

LEMMA WaitNodeIInv ==
  ASSUME IInv, NEW i \in {1, 2}, NEW l \in {"wait1", "wait2"}, WaitNode(i, l)
  PROVE  IInv' /\ UefiStep
  <1>1. /\ TypeOK /\ pc = l /\ rc = 0 /\ req.layout # "esp+main"
        /\ l = "wait2" => req.layout = "main+uefintfs"
    BY Running DEF WaitNode, IInv
  <1>2. /\ tries' \in Nat /\ rc' \in {0, -1} /\ pc' \in {l, "end", AfterWait(i)}
        /\ rc' = -1 <=> pc' = "end"
    BY <1>1, TriesAssumption DEF WaitNode, Goto, Fail, TypeOK, AfterWait
  <1>3. UNCHANGED <<disk, req, table, old, kernel, uefi, vol, hidden, cnt, sz, stale>>
    BY DEF WaitNode
  <1>4. TypeOK'
    BY <1>1, <1>2, <1>3 DEF TypeOK, AfterWait, Labels
  <1>5. QED
    BY <1>1, <1>2, <1>3, <1>4
    DEF IInv, Agrees, SoundWhenFresh, Succeeded, UefiStep, AfterWait, Formatting

LEMMA WriteUefiIInv ==
  ASSUME IInv, WriteUefi
  PROVE  IInv' /\ UefiStep
  <1>1. TypeOK /\ pc = "uefi" /\ rc = 0
    BY Running DEF WriteUefi
  <1>2. UNCHANGED <<disk, req, table, old, kernel, vol, hidden, cnt, sz, tries>>
    BY DEF WriteUefi
  <1>3. CASE Fail /\ UNCHANGED <<uefi, stale>>
    <2>1. TypeOK'
      BY <1>1, <1>2, <1>3 DEF TypeOK, Fail, Labels
    <2>2. QED
      BY <1>1, <1>2, <1>3, <2>1 DEF IInv, Agrees, SoundWhenFresh, Succeeded, UefiStep, Fail,
                                    Formatting
  <1>4. CASE /\ Exists(2) /\ View[2].size >= MiB
             /\ uefi' = View[2].start
             /\ Touch /\ Goto("zero")
    <2>1. uefi' \in Nat /\ stale' \in BOOLEAN /\ (~stale' => ~stale /\ kernel # "old")
      BY <1>1, <1>4, NodeType DEF TypeOK, Touch
    <2>2. ~stale' => uefi' = table[2].start
      BY <1>1, <1>4, <2>1, FreshNode
    <2>3. TypeOK'
      BY <1>1, <1>2, <1>4, <2>1 DEF TypeOK, Goto, Labels
    <2>4. req.layout = "main+uefintfs"
      BY <1>1 DEF IInv
    <2>5. QED
      BY <1>1, <1>2, <1>4, <2>1, <2>2, <2>3, <2>4
      DEF IInv, Agrees, SoundWhenFresh, Succeeded, UefiStep, Goto, Formatting
  <1>5. QED
    BY <1>3, <1>4 DEF WriteUefi

(* Neither clearing the head nor wiping the edges of a fresh partition 1      *)
(* reaches into partition 2.                                                  *)
LEMMA HeadStaysInside ==
  ASSUME IInv, pc \notin {"partition", "end"}, uefi # None, ~stale
  PROVE  /\ ~Overwrites(table[1].start, table[1].start + 16 * MiB)
         /\ \A e \in Edges(table[1]) : ~Overwrites(e.from, e.to)
  <1>1. /\ uefi = table[2].start /\ req.layout = "main+uefintfs"
        /\ Sound(req, disk, table)
    BY Running DEF IInv, Agrees
  <1>2. /\ table[1] \in Part /\ uefi = End(table[1])
        /\ table[1].size >= 16 * MiB
    BY <1>1 DEF Sound
  <1>3. table[1].start \in Nat /\ table[1].size \in Nat
    BY <1>2 DEF Part
  <1>4. ~Overwrites(table[1].start, table[1].start + 16 * MiB)
    BY <1>2, <1>3 DEF Overwrites, End, MiB
  <1>5. ASSUME NEW e \in Edges(table[1]) PROVE ~Overwrites(e.from, e.to)
    <2>1. e.to <= End(table[1]) /\ e.to \in Int
      BY <1>2, <1>3 DEF Edges, End, MiB
    <2>2. QED
      BY <1>2, <1>3, <2>1 DEF Overwrites, End, MiB
  <1>6. QED
    BY <1>4, <1>5

LEMMA ZeroHeadIInv ==
  ASSUME IInv, ZeroHead
  PROVE  IInv' /\ UefiStep
  <1>1. TypeOK /\ pc = "zero" /\ rc = 0
    BY Running DEF ZeroHead
  <1>2. UNCHANGED <<disk, req, table, old, kernel, vol, hidden, cnt, sz, tries>>
    BY DEF ZeroHead
  <1>3. /\ stale' \in BOOLEAN /\ uefi' \in {uefi, None} /\ (stale => stale')
        /\ pc' \in {"wipe", "end"} /\ rc' \in {0, -1} /\ (rc' = -1 <=> pc' = "end")
    <2>1. Touch \/ UNCHANGED stale
      BY DEF ZeroHead
    <2>2. /\ uefi' \in {uefi, None} /\ pc' \in {"wipe", "end"} /\ rc' \in {0, -1}
          /\ (rc' = -1 <=> pc' = "end")
      BY <1>1 DEF ZeroHead, Goto, Fail
    <2>3. QED
      BY <1>1, <2>1, <2>2, Stale
  <1>4. uefi # None /\ ~stale' => uefi' = uefi
    <2>1. CASE req.quick \/ ~Exists(1)
      BY <2>1 DEF ZeroHead
    <2>2. CASE ~req.quick /\ Exists(1)
      <3>1. ASSUME uefi # None, ~stale' PROVE View = table /\ ~stale
        <4>1. Touch
          BY <2>2 DEF ZeroHead
        <4>2. ~stale /\ kernel # "old"
          BY <1>1, <3>1, <4>1, Stale
        <4>3. QED
          BY <1>1, <2>2, <4>2, FreshNode
      <3>2. QED
        BY <1>1, <2>2, <3>1, HeadStaysInside DEF ZeroHead
    <2>3. QED
      BY <2>1, <2>2
  <1>5. TypeOK'
    BY <1>1, <1>2, <1>3 DEF TypeOK, Labels
  <1>6. uefi = None => uefi' = None
    BY <1>3
  <1>7. QED
    BY <1>1, <1>2, <1>3, <1>4, <1>5, <1>6
    DEF IInv, Agrees, SoundWhenFresh, Succeeded, UefiStep, Formatting

LEMMA WipeEdgesIInv ==
  ASSUME IInv, WipeEdges
  PROVE  IInv' /\ UefiStep
  <1>1. TypeOK /\ pc = "wipe" /\ rc = 0
    BY Running DEF WipeEdges
  <1>2. UNCHANGED <<disk, req, table, old, kernel, vol, hidden, cnt, sz, tries>>
    BY DEF WipeEdges
  <1>3. /\ stale' \in BOOLEAN /\ uefi' \in {uefi, None} /\ (stale => stale')
        /\ pc' \in {"format", "end"} /\ rc' \in {0, -1} /\ (rc' = -1 <=> pc' = "end")
    <2>1. Touch \/ UNCHANGED stale
      BY DEF WipeEdges
    <2>2. /\ uefi' \in {uefi, None} /\ pc' \in {"format", "end"} /\ rc' \in {0, -1}
          /\ (rc' = -1 <=> pc' = "end")
      BY <1>1 DEF WipeEdges, Goto, Fail
    <2>3. QED
      BY <1>1, <2>1, <2>2, Stale
  <1>4. uefi # None /\ ~stale' => uefi' = uefi
    <2>1. CASE ~req.wipe \/ ~Exists(1)
      BY <2>1 DEF WipeEdges
    <2>2. CASE req.wipe /\ Exists(1)
      <3>1. ASSUME uefi # None, ~stale' PROVE View = table /\ ~stale
        <4>1. Touch
          BY <2>2 DEF WipeEdges
        <4>2. ~stale /\ kernel # "old"
          BY <1>1, <3>1, <4>1, Stale
        <4>3. QED
          BY <1>1, <2>2, <4>2, FreshNode
      <3>2. QED
        BY <1>1, <2>2, <3>1, HeadStaysInside DEF WipeEdges
    <2>3. QED
      BY <2>1, <2>2
  <1>5. TypeOK'
    BY <1>1, <1>2, <1>3 DEF TypeOK, Labels
  <1>6. QED
    BY <1>1, <1>2, <1>3, <1>4, <1>5
    DEF IInv, Agrees, SoundWhenFresh, Succeeded, UefiStep, Formatting

(* A step that reads or makes something on partition 1 and leaves the image   *)
(* alone keeps the invariant if what it reads or makes agrees with the table. *)
LEMMA Keeps ==
  ASSUME IInv, pc \in {"format"} \cup Formatting, TypeOK',
         UNCHANGED <<disk, req, table, uefi>>, stale => stale',
         pc' \in Formatting \cup {"end"}, rc' = -1 => pc' = "end",
         (pc' \in Formatting /\ ~stale' /\ req.fs = "ntfs") => hidden' = table[1].start,
         (pc' = "start" /\ ~stale') => sz' \in {0, table[1].size},
         (pc' = "mkfs" /\ ~stale' /\ req.fs = "ntfs") => cnt' = table[1].size,
         (pc' = "end" /\ rc' = 0 /\ ~stale') =>
            vol' = table[1] /\ (req.fs = "ntfs" => hidden' = table[1].start)
  PROVE  IInv' /\ UefiStep
  <1>1. pc \notin {"partition", "end"}
    BY DEF Formatting
  <1>2. TypeOK /\ rc = 0 /\ stale \in BOOLEAN /\ stale' \in BOOLEAN
    BY <1>1, Running DEF TypeOK
  <1>3. Agrees'
    BY <1>2 DEF IInv, Agrees, Formatting
  <1>4. SoundWhenFresh'
    BY <1>2 DEF IInv, Agrees, SoundWhenFresh, Succeeded, Formatting
  <1>5. QED
    BY <1>1, <1>2, <1>3, <1>4 DEF IInv, UefiStep, Formatting

LEMMA FormatIInv ==
  ASSUME IInv, Format
  PROVE  IInv' /\ UefiStep
  <1>1. TypeOK /\ pc = "format" /\ rc = 0 /\ Sound(req, disk, table)
    BY Running DEF Format
  <1>2. UNCHANGED <<disk, req, table, old, kernel, uefi, vol, cnt, sz>> /\ tries' = 0
    BY DEF Format
  <1>3. /\ stale' \in BOOLEAN /\ (stale => stale') /\ rc' \in {0, -1}
        /\ pc' \in {"size", "mkfs", "end"} /\ (rc' = -1 <=> pc' = "end")
        /\ pc' = "mkfs" => req.fs # "ntfs"
    <2>1. Touch \/ UNCHANGED stale
      BY DEF Format
    <2>2. /\ rc' \in {0, -1} /\ pc' \in {"size", "mkfs", "end"}
          /\ (rc' = -1 <=> pc' = "end") /\ (pc' = "mkfs" => req.fs # "ntfs")
      BY <1>1 DEF Format, Goto, Fail
    <2>3. QED
      BY <1>1, <2>1, <2>2, Stale
  <1>4. hidden' \in Nat
    BY <1>1, NodeType DEF Format, TypeOK
  <1>5. (pc' = "size" /\ ~stale') => hidden' = table[1].start
    <2> SUFFICES ASSUME pc' = "size", ~stale' PROVE hidden' = table[1].start
      OBVIOUS
    <2>1. /\ hidden' = IF Exists(1) /\ View[1].start # 0 THEN View[1].start ELSE 2048
          /\ Exists(1) /\ Touch
      BY <1>1 DEF Format, Goto, Fail
    <2>2. kernel # "old"
      BY <1>1, <2>1, Stale
    <2>3. View = table /\ table[1].start = 2048
      BY <1>1, <2>1, <2>2, FreshNode DEF Sound, MiB
    <2>4. QED
      BY <2>1, <2>3
  <1>6. TypeOK'
    BY <1>1, <1>2, <1>3, <1>4 DEF TypeOK, Labels
  <1>7. QED
    BY <1>1, <1>2, <1>3, <1>5, <1>6, Keeps DEF Formatting

LEMMA ReadSizeIInv ==
  ASSUME IInv, ReadSize
  PROVE  IInv' /\ UefiStep
  <1>1. TypeOK /\ pc = "size" /\ rc = 0 /\ Sound(req, disk, table)
    BY Running DEF ReadSize
  <1>2. /\ UNCHANGED <<disk, req, table, old, kernel, uefi, vol, hidden, cnt, tries>>
        /\ pc' = "start" /\ rc' = rc
    BY DEF ReadSize, Goto
  <1>3. stale' \in BOOLEAN /\ (stale => stale')
    BY <1>1 DEF ReadSize, Touch, TypeOK
  <1>4. sz' \in Nat
    BY <1>1, NodeType DEF ReadSize, TypeOK
  <1>5. ~stale' => sz' \in {0, table[1].size}
    BY <1>1, FreshNode DEF ReadSize, Touch
  <1>6. TypeOK'
    BY <1>1, <1>2, <1>3, <1>4 DEF TypeOK, Labels
  <1>7. req.fs = "ntfs" /\ ~stale => hidden = table[1].start
    BY <1>1 DEF IInv, Agrees, Formatting
  <1>8. QED
    BY <1>1, <1>2, <1>3, <1>5, <1>6, <1>7, Keeps DEF Formatting

LEMMA ReadStartIInv ==
  ASSUME IInv, ReadStart
  PROVE  IInv' /\ UefiStep
  <1>1. TypeOK /\ pc = "start" /\ rc = 0
    BY Running DEF ReadStart
  <1>2. UNCHANGED <<disk, req, table, old, kernel, uefi, vol, hidden, sz>>
    BY DEF ReadStart
  <1>3. /\ stale' \in BOOLEAN /\ (stale => stale') /\ rc' \in {0, -1}
        /\ pc' \in {"size", "mkfs", "end"} /\ (rc' = -1 <=> pc' = "end")
    BY <1>1 DEF ReadStart, Goto, Fail, Touch, TypeOK
  <1>4. cnt' \in Nat /\ tries' \in Nat
    BY <1>1 DEF ReadStart, TypeOK
  <1>5. pc' = "mkfs" => cnt' = sz /\ sz > 0
    BY <1>1 DEF ReadStart, Goto, Fail
  <1>6. TypeOK'
    BY <1>1, <1>2, <1>3, <1>4 DEF TypeOK, Labels
  <1>7. /\ req.fs = "ntfs" /\ ~stale => hidden = table[1].start
        /\ ~stale => sz \in {0, table[1].size}
    BY <1>1 DEF IInv, Agrees, Formatting
  <1>8. QED
    BY <1>1, <1>2, <1>3, <1>5, <1>6, <1>7, Keeps DEF Formatting

LEMMA MkfsIInv ==
  ASSUME IInv, Mkfs
  PROVE  IInv' /\ UefiStep
  <1>1. TypeOK /\ pc = "mkfs" /\ rc = 0 /\ Sound(req, disk, table)
    BY Running DEF Mkfs
  <1>2. UNCHANGED <<disk, req, table, old, kernel, uefi, hidden, cnt, sz, tries>>
    BY DEF Mkfs
  <1>3. /\ stale' \in BOOLEAN /\ (stale => stale') /\ rc' \in {0, -1} /\ pc' = "end"
    BY <1>1 DEF Mkfs, Goto, Fail, Touch, TypeOK
  <1>4. /\ req.fs = "ntfs" /\ ~stale => hidden = table[1].start /\ cnt = table[1].size
    BY <1>1 DEF IInv, Agrees, Formatting
  <1>5. CASE Fail /\ UNCHANGED vol
    <2>1. TypeOK'
      BY <1>1, <1>2, <1>3, <1>5 DEF TypeOK, Labels
    <2>2. QED
      BY <1>1, <1>2, <1>3, <1>5, <2>1, Keeps DEF Formatting, Fail
  <1>6. CASE /\ Exists(1)
             /\ vol' = [start |-> View[1].start,
                        size  |-> IF req.fs = "ntfs" THEN cnt ELSE View[1].size]
    <2>1. vol' \in Part
      BY <1>1, <1>6, NodeType DEF TypeOK, Part
    <2>2. TypeOK'
      BY <1>1, <1>2, <1>3, <2>1 DEF TypeOK, Labels
    <2>3. ~stale' => vol' = table[1]
      <3> SUFFICES ASSUME ~stale' PROVE vol' = table[1]
        OBVIOUS
      <3>1. ~stale /\ View = table
        BY <1>1, <1>6, FreshNode DEF Mkfs, Touch
      <3>2. vol' = [start |-> table[1].start, size |-> table[1].size]
        BY <1>4, <1>6, <3>1
      <3>3. table[1] \in Part
        BY <1>1 DEF Sound
      <3>4. QED
        BY <3>2, <3>3 DEF Part
    <2>4. QED
      BY <1>1, <1>2, <1>3, <1>4, <2>2, <2>3, Keeps DEF Formatting
  <1>7. QED
    BY <1>5, <1>6 DEF Mkfs

LEMMA NextIInv ==
  ASSUME IInv, [Next]_vars
  PROVE  IInv' /\ (UefiStep \/ UNCHANGED vars)
  <1>1. CASE UNCHANGED vars
    BY <1>1 DEF vars, IInv, TypeOK, Agrees, SoundWhenFresh, Succeeded
  <1>2. CASE Next
    BY <1>1, <1>2, RunSfdiskIInv, KernelRereadsIInv, WaitNodeIInv, WriteUefiIInv, ZeroHeadIInv,
       WipeEdgesIInv, FormatIInv, ReadSizeIInv, ReadStartIInv, MkfsIInv
    DEF Next, Program, Finished
  <1>3. QED
    BY <1>1, <1>2

(* The inductive invariant of the way from the table to the volume. *)
THEOREM InductiveInvariant == Spec => []IInv
  BY InitIInv, NextIInv, PTL DEF Spec

(* Every variable keeps its type; no size ever becomes negative, however     *)
(* small the drive (partition.c:163-207).                                    *)
THEOREM TypeCorrect == Spec => []TypeOK
  <1>1. IInv => TypeOK
    BY DEF IInv
  <1>2. QED
    BY <1>1, InductiveInvariant, PTL

(* Every table written is sound, on drives of every size                     *)
(* (partition.c:163-207).                                                    *)
THEOREM TablesFit == Spec => []TableFits
  <1>1. IInv => TableFits
    BY TableSound DEF TableFits, Sound, MiB
  <1>2. QED
    BY <1>1, InductiveInvariant, PTL

(* Without stale nodes, success means a volume of exactly the size of its    *)
(* partition and an intact UEFI:NTFS image (create.c:640-662).               *)
THEOREM FreshIsSound == Spec => []SoundWhenFresh
  <1>1. IInv => SoundWhenFresh
    BY DEF IInv
  <1>2. QED
    BY <1>1, InductiveInvariant, PTL

(* Nothing done to partition 1 reaches the UEFI:NTFS image behind it         *)
(* (create.c:644-658).                                                       *)
THEOREM ImageSurvives == Spec => UefiSurvives
  <1>1. IInv /\ [Next]_vars => [uefi # None => (uefi' = uefi \/ stale')]_vars
    BY NextIInv DEF UefiStep
  <1>2. QED
    BY <1>1, InductiveInvariant, PTL DEF Spec, UefiSurvives
=============================================================================
