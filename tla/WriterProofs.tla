---------------------------- MODULE WriterProofs ----------------------------
(* Proofs about Writer for every set of processes, every image, chunk size,  *)
(* capacity and number of units the medium gets wrong.                       *)
EXTENDS Writer, TLAPS

(* The part of IInv that speaks of worker w. *)
Own(w) ==
  /\ WorkerInv(w) /\ Counters(w)
  /\ ~reg => ((pc[w] \in Holding) <=> (lock = w))
  /\ (~reg /\ pc[w] \in Begun) =>
       \A i \in 1..(done[w] + off[w]) : dst[i] = Image[w][i]
  /\ (~reg /\ pc[w] = "verify") =>
       \A i \in 1..vdone[w] : dst[i] = Image[w][i] /\ (i \in bad => i \in cached)
  /\ (pc[w] = "end" /\ rc[w] = 0 /\ ~opts[w].dry_run /\ ~Shrunk(w)) =>
       done[w] = total[w]

(* What a step of worker w leaves alone: the state of the others, and, on a  *)
(* block device, the target unless w holds the lock.                         *)
Frame(w) ==
  /\ reg' = reg /\ opts' = opts
  /\ (~reg /\ <<dst, bad, cached>>' # <<dst, bad, cached>>) => lock = w
  /\ \A v \in Workers \ {w} :
       /\ pc'[v] = pc[v] /\ rc'[v] = rc[v] /\ srclen'[v] = srclen[v]
       /\ total'[v] = total[v] /\ done'[v] = done[v] /\ n'[v] = n[v]
       /\ off'[v] = off[v] /\ vdone'[v] = vdone[v]
       /\ (lock' = v) <=> (lock = v)

LEMMA IInvIsOwn == IInv <=> Shape /\ \A w \in Workers : Own(w)
  BY DEF IInv, TypeOK, Own, OneWriter, WrittenPrefix, VerifiedSoFar, SuccessIsComplete, Begun

LEMMA Combine ==
  ASSUME IInv, NEW w \in Workers, Shape', Frame(w), Own(w)'
  PROVE  IInv'
  <1>1. ASSUME NEW v \in Workers \ {w} PROVE Own(v)'
    <2>1. Own(v) /\ Own(w)
      BY IInvIsOwn
    <2>2. WorkerInv(v)' /\ Counters(v)'
      BY <2>1 DEF Own, Frame, WorkerInv, Counters, Shrunk
    <2>3. (~reg /\ pc[v] \in Holding) => dst' = dst /\ bad' = bad /\ cached' = cached
      BY <2>1 DEF Own, Frame
    <2>4. QED
      BY <2>1, <2>2, <2>3 DEF Own, Frame, Shrunk, Begun, Holding
  <1>2. QED
    BY <1>1 DEF IInv, TypeOK, Own, OneWriter, WrittenPrefix, VerifiedSoFar,
                SuccessIsComplete, Begun

LEMMA CheckArgumentsIInv ==
  ASSUME IInv, NEW w \in Workers, CheckArguments(w)
  PROVE  IInv'
  <1>1. Shape /\ Own(w)
    BY IInvIsOwn
  <1>2. UNCHANGED <<reg, dst, bad, cached, lock, srclen, opts, done, n, off, ferr, vdone>>
    BY DEF CheckArguments, target, store
  <1>3. /\ total' \in [Workers -> Nat] /\ total'[w] <= srclen[w]
        /\ \A v \in Workers \ {w} : total'[v] = total[v]
    BY <1>1, SrcLenAssumption DEF CheckArguments, Shape
  <1>4. /\ pc' \in [Workers -> Labels] /\ rc' \in [Workers -> {0, -1}]
        /\ pc[w] = "start" /\ pc'[w] \in {"end", "dry", "open"}
        /\ pc'[w] = "end" => rc'[w] = -1
        /\ pc'[w] # "end" => rc'[w] = rc[w]
        /\ \A v \in Workers \ {w} : pc'[v] = pc[v] /\ rc'[v] = rc[v]
    BY <1>1 DEF CheckArguments, Shape, Return, Goto, Labels
  <1>6. /\ pc'[w] = "dry" => opts[w].dry_run
        /\ pc'[w] = "open" => opts[w].yes /\ ~opts[w].dry_run
    BY <1>1 DEF CheckArguments, Shape, Return, Goto
  <1>7. Shape'
    BY <1>1, <1>2, <1>3, <1>4 DEF Shape
  <1>8. Frame(w)
    BY <1>2, <1>3, <1>4 DEF Frame
  <1>9. Len(Image[w]) \in Nat
    BY ImageAssumption
  <1>10. Own(w)'
    <2>0. /\ srclen[w] \in Nat /\ total'[w] \in Nat /\ srclen[w] <= Len(Image[w])
          /\ done[w] = 0 /\ n[w] = 0 /\ vdone[w] = 0 /\ off[w] <= n[w] /\ rc[w] = 0
          /\ n[w] <= Chunk
      BY <1>1, <1>3, <1>4 DEF Shape, Own, WorkerInv, Counters
    <2>1. WorkerInv(w)'
      BY <1>2, <1>4, <1>6, <2>0 DEF WorkerInv, Shrunk, Begun, Holding
    <2>2. Counters(w)'
      BY <1>2, <1>3, <1>9, <2>0 DEF Counters
    <2>3. QED
      BY <1>1, <1>2, <1>4, <2>1, <2>2 DEF Own, Begun, Holding
  <1>11. QED
    BY <1>7, <1>8, <1>10, Combine

LEMMA DryReadIInv ==
  ASSUME IInv, NEW w \in Workers, DryRead(w)
  PROVE  IInv'
  <1>1. Shape /\ Own(w)
    BY IInvIsOwn
  <1>2. Shape'
    BY <1>1 DEF Shape, DryRead, Return, Goto, Close, target, store, locals, Labels
  <1>3. Frame(w)
    BY <1>1 DEF Shape, Frame, DryRead, Return, Goto, Close, target, store, locals
  <1>4. Own(w)'
    BY <1>1 DEF Shape, Own, Counters, WorkerInv, Shrunk, Begun, Holding, DryRead, Return, Goto, Close, target, store, locals
  <1>5. QED
    BY <1>2, <1>3, <1>4, Combine

LEMMA OpenTargetIInv ==
  ASSUME IInv, NEW w \in Workers, OpenTarget(w)
  PROVE  IInv'
  <1>1. Shape /\ Own(w)
    BY IInvIsOwn
  <1>2. Shape'
    BY <1>1 DEF Shape, OpenTarget, Return, Goto, Close, target, store, locals, Labels
  <1>3. Frame(w)
    BY <1>1, BlankAssumption DEF Shape, Frame, OpenTarget, Return, Goto, Close, target, store, locals
  <1>4. Own(w)'
    BY <1>1, BlankAssumption DEF Shape, Own, Counters, WorkerInv, Shrunk, Begun, Holding, OpenTarget, Return, Goto, Close, target, store, locals
  <1>5. QED
    BY <1>2, <1>3, <1>4, Combine

LEMMA CheckCapacityIInv ==
  ASSUME IInv, NEW w \in Workers, CheckCapacity(w)
  PROVE  IInv'
  <1>1. Shape /\ Own(w)
    BY IInvIsOwn
  <1>2. Shape'
    BY <1>1 DEF Shape, CheckCapacity, Return, Goto, Close, target, store, locals, Labels
  <1>3. Frame(w)
    BY <1>1, BlankAssumption DEF Shape, Frame, CheckCapacity, Return, Goto, Close, target, store, locals
  <1>4. Own(w)'
    BY <1>1, BlankAssumption DEF Shape, Own, Counters, WorkerInv, Shrunk, Begun, Holding, CheckCapacity, Return, Goto, Close, target, store, locals
  <1>5. QED
    BY <1>2, <1>3, <1>4, Combine

LEMMA ReadChunkIInv ==
  ASSUME IInv, NEW w \in Workers, ReadChunk(w)
  PROVE  IInv'
  <1>1. Shape /\ Own(w) /\ Len(Image[w]) \in Nat
    BY IInvIsOwn, ImageAssumption
  <1>2. PICK k \in 0..read_capped(w, done[w]), err \in BOOLEAN :
          /\ ~err => k = read_capped(w, done[w])
          /\ ferr' = [ferr EXCEPT ![w] = @ \/ err]
          /\ n'    = [n EXCEPT ![w] = k]
          /\ off'  = [off EXCEPT ![w] = 0]
          /\ IF k > 0
               THEN Goto(w, "write")
               ELSE /\ pc' = [pc EXCEPT ![w] = "sync"]
                    /\ rc' = [rc EXCEPT ![w] = IF ferr'[w] THEN -1 ELSE 0]
    BY DEF ReadChunk
  <1>3. /\ pc[w] = "read"
        /\ UNCHANGED <<reg, dst, bad, cached, lock, srclen, opts, total, done, vdone>>
    BY DEF ReadChunk, target, store
  <1>4. /\ srclen[w] \in Nat /\ total[w] \in Nat /\ done[w] \in Nat
        /\ n[w] = 0 /\ off[w] = 0 /\ done[w] <= total[w]
        /\ total[w] <= Len(Image[w]) /\ srclen[w] <= Len(Image[w])
    BY <1>1, <1>3 DEF Shape, Own, WorkerInv, Counters
  <1>5. k \in Nat /\ done[w] + k <= total[w] /\ k <= Chunk
    BY <1>2, <1>4, ChunkAssumption DEF read_capped, Smaller
  <1>6. (k = 0 /\ ~err /\ srclen[w] = Len(Image[w])) => done[w] = total[w]
    BY <1>2, <1>4, ChunkAssumption DEF read_capped, Smaller
  <1>7. /\ pc' \in [Workers -> Labels] /\ rc' \in [Workers -> {0, -1}]
        /\ pc'[w] = IF k > 0 THEN "write" ELSE "sync"
        /\ (k = 0 /\ rc'[w] = 0) => ~err
        /\ k > 0 => rc'[w] = 0
        /\ \A v \in Workers \ {w} : pc'[v] = pc[v] /\ rc'[v] = rc[v]
    <2>1. CASE k > 0
      <3>1. pc' = [pc EXCEPT ![w] = "write"] /\ rc' = rc
        BY <1>2, <2>1 DEF Goto
      <3>2. rc[w] = 0
        BY <1>1, <1>3 DEF Own, WorkerInv
      <3>3. QED
        BY <1>1, <2>1, <3>1, <3>2 DEF Shape, Labels
    <2>2. CASE ~(k > 0)
      <3>1. /\ pc' = [pc EXCEPT ![w] = "sync"]
            /\ rc' = [rc EXCEPT ![w] = IF ferr'[w] THEN -1 ELSE 0]
        BY <1>2, <2>2
      <3>2. ferr'[w] = (ferr[w] \/ err)
        BY <1>1, <1>2 DEF Shape
      <3>3. pc' \in [Workers -> Labels] /\ rc' \in [Workers -> {0, -1}]
        BY <1>1, <3>1 DEF Shape, Labels
      <3>4. rc'[w] = 0 => ~err
        BY <1>1, <3>1, <3>2 DEF Shape
      <3>5. QED
        BY <1>1, <1>5, <2>2, <3>1, <3>3, <3>4 DEF Shape
    <2>3. QED
      BY <2>1, <2>2
  <1>8. /\ n' \in [Workers -> Nat] /\ off' \in [Workers -> Nat]
        /\ ferr' \in [Workers -> BOOLEAN]
        /\ n'[w] = k /\ off'[w] = 0
        /\ \A v \in Workers \ {w} : n'[v] = n[v] /\ off'[v] = off[v]
    BY <1>1, <1>2, <1>5 DEF Shape
  <1>9. Shape'
    BY <1>1, <1>3, <1>7, <1>8 DEF Shape
  <1>10. Frame(w)
    BY <1>3, <1>7, <1>8 DEF Frame
  <1>11. WorkerInv(w)' /\ Counters(w)'
    <2>1. /\ opts[w].yes /\ ~opts[w].dry_run /\ vdone[w] = 0 /\ vdone[w] <= total[w]
      BY <1>1, <1>3 DEF Own, WorkerInv, Counters, Begun, Holding
    <2>2. (pc'[w] = "sync" /\ rc'[w] = 0 /\ ~(srclen[w] < Len(Image[w]))) =>
            done[w] = total[w]
      BY <1>1, <1>4, <1>5, <1>6, <1>7
    <2>3. pc'[w] \in {"write", "sync"} /\ (pc'[w] = "write" => rc'[w] = 0)
      BY <1>7
    <2>4. QED
      BY <1>1, <1>3, <1>4, <1>5, <1>8, <2>1, <2>2, <2>3
      DEF WorkerInv, Counters, Begun, Holding, Shrunk
  <1>12. Own(w)'
    BY <1>1, <1>3, <1>4, <1>7, <1>8, <1>11 DEF Own, Begun, Holding
  <1>13. QED
    BY <1>9, <1>10, <1>12, Combine

LEMMA WriteSomeIInv ==
  ASSUME IInv, NEW w \in Workers, WriteSome(w)
  PROVE  IInv'
  <1>1. Shape /\ Own(w) /\ Len(Image[w]) \in Nat
    BY IInvIsOwn, ImageAssumption
  <1>2. PICK k \in 1..(n[w] - off[w]) :
          /\ done[w] + off[w] + k <= Cap
          /\ dst' = Written(w, k)
          /\ cached' = cached \cup Range(w, k)
          /\ \/ bad' = bad \ Range(w, k)
             \/ \E j \in 1..Cap : bad' = (bad \ Range(w, k)) \cup {j}
          /\ IF off[w] + k = n[w]
               THEN /\ done' = [done EXCEPT ![w] = @ + n[w]]
                    /\ n'    = [n EXCEPT ![w] = 0]
                    /\ off'  = [off EXCEPT ![w] = 0]
                    /\ Goto(w, "read")
               ELSE /\ off' = [off EXCEPT ![w] = @ + k]
                    /\ UNCHANGED <<done, n, pc, rc>>
    BY DEF WriteSome
  <1>3. /\ pc[w] = "write"
        /\ UNCHANGED <<reg, lock, srclen, opts, total, ferr, vdone>>
    BY DEF WriteSome
  <1>4. /\ total[w] \in Nat /\ done[w] \in Nat /\ n[w] \in Nat /\ off[w] \in Nat
        /\ done[w] + n[w] <= total[w] /\ total[w] <= Len(Image[w])
        /\ k \in Nat /\ off[w] + k <= n[w]
    BY <1>1, <1>2, <1>3 DEF Shape, Own, Counters
  <1>5. Written(w, k) \in [1..Cap -> Data \cup {Blank}]
    <2>1. ASSUME NEW i \in 1..Cap, i \in Range(w, k)
          PROVE  Image[w][i] \in Data
      <3>0. Len(Image[w]) \in Nat /\ i \in Nat /\ i >= 1
        BY <1>1, CapAssumption
      <3>1. i \in 1..Len(Image[w])
        <4> DEFINE L == Len(Image[w])
        <4>1. L \in Nat /\ total[w] <= L
          BY <1>4, <3>0
        <4>a. /\ total[w] \in Nat /\ done[w] \in Nat /\ n[w] \in Nat
              /\ off[w] \in Nat /\ k \in Nat
              /\ done[w] + n[w] <= total[w] /\ off[w] + k <= n[w]
          BY <1>4
        <4>b. done[w] + off[w] + k <= total[w] /\ done[w] + off[w] + k \in Nat
          BY <4>a
        <4>2. i <= done[w] + off[w] + k
          BY <1>4, <2>1, <3>0 DEF Range
        <4> HIDE DEF L
        <4>3. i \in 1..L
          BY <3>0, <4>1, <4>a, <4>b, <4>2
        <4>4. QED
          BY <4>3 DEF L
      <3>2. Image[w] \in Seq(Data)
        BY ImageAssumption
      <3>3. QED
        BY <3>1, <3>2
    <2>2. QED
      BY <1>1, <2>1 DEF Written, Shape
  <1>6. /\ dst' \in [1..Cap -> Data \cup {Blank}]
        /\ bad' \in SUBSET (1..Cap) /\ cached' \in SUBSET (1..Cap)
    <2>1. Range(w, k) \subseteq 1..Cap
      BY <1>2, <1>4, CapAssumption DEF Range
    <2>2. QED
      BY <1>1, <1>2, <1>5, <2>1 DEF Shape
  <1>8. /\ pc' \in [Workers -> Labels] /\ rc' \in [Workers -> {0, -1}]
        /\ done' \in [Workers -> Nat] /\ n' \in [Workers -> Nat]
        /\ off' \in [Workers -> Nat]
        /\ \A v \in Workers \ {w} : /\ pc'[v] = pc[v] /\ rc'[v] = rc[v]
                                    /\ done'[v] = done[v] /\ n'[v] = n[v]
                                    /\ off'[v] = off[v]
    <2>1. CASE off[w] + k = n[w]
      <3>1. done[w] + n[w] \in Nat
        BY <1>4
      <3>2. /\ done' = [done EXCEPT ![w] = @ + n[w]] /\ n' = [n EXCEPT ![w] = 0]
            /\ off' = [off EXCEPT ![w] = 0] /\ pc' = [pc EXCEPT ![w] = "read"]
            /\ rc' = rc
        BY <1>2, <2>1 DEF Goto
      <3>3. QED
        BY <1>1, <3>1, <3>2 DEF Shape, Labels
    <2>2. CASE off[w] + k # n[w]
      <3>1. off[w] + k \in Nat
        BY <1>4
      <3>2. QED
        BY <1>1, <1>2, <2>2, <3>1 DEF Shape, Goto, Labels
    <2>3. QED
      BY <2>1, <2>2
  <1>9. /\ pc'[w] \in {"read", "write"} /\ (pc'[w] = "read" => n'[w] = 0)
        /\ rc'[w] = 0
        /\ done'[w] + off'[w] = done[w] + off[w] + k
        /\ done'[w] + n'[w] = done[w] + n[w] /\ off'[w] <= n'[w] /\ n'[w] <= Chunk
    <2>0. rc[w] = 0 /\ n[w] <= Chunk /\ Chunk \in Nat
      BY <1>1, <1>3, ChunkAssumption DEF Own, WorkerInv, Counters
    <2>1. CASE off[w] + k = n[w]
      <3>1. /\ done'[w] = done[w] + n[w] /\ n'[w] = 0 /\ off'[w] = 0
            /\ pc'[w] = "read" /\ rc' = rc
        BY <1>1, <1>2, <2>1 DEF Shape, Goto
      <3>2. QED
        BY <1>4, <2>0, <2>1, <3>1
    <2>2. CASE off[w] + k # n[w]
      <3>1. /\ off'[w] = off[w] + k /\ done' = done /\ n' = n
            /\ pc' = pc /\ rc' = rc
        BY <1>1, <1>2, <2>2 DEF Shape
      <3>2. QED
        BY <1>3, <1>4, <2>0, <3>1
    <2>3. QED
      BY <2>1, <2>2
  <1>10. Shape'
    BY <1>1, <1>3, <1>6, <1>8 DEF Shape
  <1>11. ~reg => lock = w
    BY <1>1, <1>3 DEF Own, Holding
  <1>12. Frame(w)
    BY <1>3, <1>8, <1>11 DEF Frame
  <1>13. WorkerInv(w)' /\ Counters(w)'
    <2>1. /\ opts[w].yes /\ ~opts[w].dry_run /\ vdone[w] = 0 /\ vdone[w] <= total[w]
          /\ srclen[w] <= Len(Image[w])
      BY <1>1, <1>3 DEF Own, WorkerInv, Counters, Begun, Holding
    <2>2. QED
      BY <1>1, <1>3, <1>4, <1>9, <2>1 DEF WorkerInv, Counters, Begun, Holding, Shrunk
  <1>14. ASSUME ~reg, NEW i \in 1..(done'[w] + off'[w])
         PROVE  dst'[i] = Image[w][i]
    <2>1. i \in 1..Cap /\ dst' = Written(w, k)
      BY <1>2, <1>4, <1>9, <1>14, CapAssumption
    <2>2. CASE i \in 1..(done[w] + off[w])
      BY <1>1, <1>3, <1>4, <1>14, <2>1, <2>2, CapAssumption
      DEF Own, Begun, Written, Range
    <2>3. CASE i \notin 1..(done[w] + off[w])
      BY <1>4, <1>9, <2>1, <2>3, CapAssumption DEF Written, Range
    <2>4. QED
      BY <2>2, <2>3
  <1>15. Own(w)'
    <2>1. /\ reg' = reg /\ lock' = lock /\ pc'[w] # "end" /\ pc'[w] # "verify"
          /\ pc'[w] \in Holding
      BY <1>3, <1>9 DEF Holding
    <2>2. ~reg' => ((pc'[w] \in Holding) <=> (lock' = w))
      BY <1>11, <2>1
    <2>3. ~reg' =>
             \A i \in 1..(done'[w] + off'[w]) : dst'[i] = Image[w][i]
      BY <1>14, <2>1
    <2>4. QED
      BY <1>13, <2>1, <2>2, <2>3 DEF Own
  <1>16. QED
    BY <1>10, <1>12, <1>15, Combine

LEMMA WriteFailsIInv ==
  ASSUME IInv, NEW w \in Workers, WriteFails(w)
  PROVE  IInv'
  <1>1. Shape /\ Own(w)
    BY IInvIsOwn
  <1>2. Shape'
    BY <1>1 DEF Shape, WriteFails, Return, Goto, Close, target, store, locals, Labels
  <1>3. Frame(w)
    BY <1>1 DEF Shape, Frame, WriteFails, Return, Goto, Close, target, store, locals
  <1>4. Own(w)'
    BY <1>1 DEF Shape, Own, Counters, WorkerInv, Shrunk, Begun, Holding, WriteFails, Return, Goto, Close, target, store, locals
  <1>5. QED
    BY <1>2, <1>3, <1>4, Combine

LEMMA SyncIInv ==
  ASSUME IInv, NEW w \in Workers, Sync(w)
  PROVE  IInv'
  <1>1. Shape /\ Own(w)
    BY IInvIsOwn
  <1>2. Shape'
    BY <1>1 DEF Shape, Sync, Return, Goto, Close, target, store, locals, Labels
  <1>3. Frame(w)
    BY <1>1, BlankAssumption DEF Shape, Own, Holding, Frame, Sync, Return, Goto, Close, target, store, locals
  <1>4. /\ pc[w] = "sync" /\ pc'[w] \in {"end", "verify"}
        /\ (pc'[w] = "end" /\ rc'[w] = 0) => rc[w] = 0
        /\ pc'[w] = "verify" => rc'[w] = 0 /\ rc[w] = 0 /\ lock' = lock
        /\ pc'[w] = "end" => lock' # w
        /\ UNCHANGED <<reg, dst, bad, srclen, opts, total, done, n, off, vdone>>
    BY <1>1, BlankAssumption DEF Shape, Sync, Return, Goto, Close, locals
  <1>5. /\ vdone[w] = 0 /\ ~opts[w].dry_run
        /\ (rc[w] = 0 /\ ~Shrunk(w)) => done[w] = total[w]
    BY <1>1, <1>4 DEF Own, WorkerInv, Holding
  <1>6. WorkerInv(w)' /\ Counters(w)'
    BY <1>1, <1>4, <1>5 DEF Own, WorkerInv, Counters, Shrunk, Begun, Holding
  <1>7. Own(w)'
    BY <1>1, <1>4, <1>5, <1>6 DEF Own, Shrunk, Begun, Holding
  <1>8. QED
    BY <1>2, <1>3, <1>7, Combine

LEMMA VerifyChunkIInv ==
  ASSUME IInv, NEW w \in Workers, VerifyChunk(w)
  PROVE  IInv'
  <1>1. Shape /\ Own(w) /\ Len(Image[w]) \in Nat
    BY IInvIsOwn, ImageAssumption
  <1>2. PICK k \in 0..read_capped(w, vdone[w]), err \in BOOLEAN :
          /\ ~err => k = read_capped(w, vdone[w])
          /\ ferr' = [ferr EXCEPT ![w] = @ \/ err]
          /\ IF k > 0 /\ Matches(w, vdone[w], k)
               THEN /\ vdone' = [vdone EXCEPT ![w] = @ + k]
                    /\ UNCHANGED <<pc, rc, lock>>
               ELSE /\ Return(w, IF k = 0 THEN 0 ELSE -1)
                    /\ Close(w)
                    /\ UNCHANGED vdone
    BY DEF VerifyChunk
  <1>3. /\ pc[w] = "verify"
        /\ UNCHANGED <<reg, dst, bad, cached, srclen, opts, total, done, n, off>>
    BY DEF VerifyChunk, store
  <1>4. /\ srclen[w] \in Nat /\ total[w] \in Nat /\ vdone[w] \in Nat
        /\ vdone[w] <= total[w]
    BY <1>1, <1>3 DEF Shape, Own, Counters
  <1>5. k \in Nat /\ vdone[w] + k <= total[w]
    BY <1>2, <1>4, ChunkAssumption DEF read_capped, Smaller
  <1>6. ferr' \in [Workers -> BOOLEAN]
    BY <1>1, <1>2 DEF Shape
  <1>7. CASE k > 0 /\ Matches(w, vdone[w], k)
    <2>1. /\ vdone' \in [Workers -> Nat] /\ vdone'[w] = vdone[w] + k
          /\ \A v \in Workers \ {w} : vdone'[v] = vdone[v]
          /\ UNCHANGED <<pc, rc, lock>>
      <3>1. vdone' = [vdone EXCEPT ![w] = @ + k] /\ UNCHANGED <<pc, rc, lock>>
        BY <1>2, <1>7
      <3>2. vdone[w] + k \in Nat
        BY <1>4, <1>5
      <3>3. QED
        BY <1>1, <3>1, <3>2 DEF Shape
    <2>2. Shape'
      BY <1>1, <1>3, <1>6, <2>1 DEF Shape
    <2>3. Frame(w)
      BY <1>3, <2>1 DEF Frame
    <2>4. WorkerInv(w)' /\ Counters(w)'
      BY <1>1, <1>3, <1>5, <2>1 DEF Own, WorkerInv, Counters, Begun, Holding, Shrunk
    <2>5. ASSUME ~reg, NEW i \in 1..vdone'[w]
          PROVE  dst[i] = Image[w][i] /\ (i \in bad => i \in cached)
      BY <1>1, <1>3, <1>4, <1>5, <1>7, <2>1, <2>5 DEF Own, Matches
    <2>6. Own(w)'
      BY <1>1, <1>3, <2>1, <2>4, <2>5 DEF Own, Begun, Holding, Shrunk
    <2>7. QED
      BY <2>2, <2>3, <2>6, Combine
  <1>8. CASE ~(k > 0 /\ Matches(w, vdone[w], k))
    <2>1. /\ Return(w, IF k = 0 THEN 0 ELSE -1) /\ Close(w)
          /\ UNCHANGED vdone
      BY <1>2, <1>8
    <2>2. /\ pc' \in [Workers -> Labels] /\ rc' \in [Workers -> {0, -1}]
          /\ pc'[w] = "end"
          /\ \A v \in Workers \ {w} : pc'[v] = pc[v] /\ rc'[v] = rc[v]
      BY <1>1, <2>1 DEF Shape, Return, Labels
    <2>3. /\ lock' \in Workers \cup {None} /\ lock' # w
          /\ \A v \in Workers \ {w} : (lock' = v) <=> (lock = v)
      BY <1>1, <2>1, BlankAssumption DEF Shape, Close
    <2>4. Shape'
      BY <1>1, <1>3, <1>6, <2>1, <2>2, <2>3 DEF Shape
    <2>5. Frame(w)
      BY <1>3, <2>1, <2>2, <2>3 DEF Frame
    <2>6. WorkerInv(w)' /\ Counters(w)'
      BY <1>1, <1>3, <2>1, <2>2 DEF Own, WorkerInv, Counters, Begun, Holding, Shrunk
    <2>7. rc[w] = 0
      BY <1>1, <1>3 DEF Own, WorkerInv
    <2>8. Own(w)'
      BY <1>1, <1>3, <2>1, <2>2, <2>3, <2>6, <2>7
      DEF Own, WorkerInv, Begun, Holding, Shrunk
    <2>9. QED
      BY <2>4, <2>5, <2>8, Combine
  <1>9. QED
    BY <1>7, <1>8

LEMMA VerifyFailsIInv ==
  ASSUME IInv, NEW w \in Workers, VerifyFails(w)
  PROVE  IInv'
  <1>1. Shape /\ Own(w)
    BY IInvIsOwn
  <1>2. Shape'
    BY <1>1 DEF Shape, VerifyFails, Return, Goto, Close, target, store, locals, Labels
  <1>3. Frame(w)
    BY <1>1, BlankAssumption DEF Shape, Frame, VerifyFails, Return, Goto, Close, target, store, locals
  <1>4. Own(w)'
    BY <1>1, BlankAssumption DEF Shape, Own, Counters, WorkerInv, Shrunk, Begun, Holding, VerifyFails, Return, Goto, Close, target, store, locals
  <1>5. QED
    BY <1>2, <1>3, <1>4, Combine

LEMMA KilledIInv ==
  ASSUME IInv, NEW w \in Workers, Killed(w)
  PROVE  IInv'
  <1>1. Shape /\ Own(w)
    BY IInvIsOwn
  <1>2. Shape'
    BY <1>1 DEF Shape, Killed, Return, Goto, Close, target, store, locals, Labels
  <1>3. Frame(w)
    BY <1>1, BlankAssumption DEF Shape, Frame, Killed, Return, Goto, Close, target, store, locals
  <1>4. Own(w)'
    BY <1>1, BlankAssumption DEF Shape, Own, Counters, WorkerInv, Shrunk, Begun, Holding, Killed, Return, Goto, Close, target, store, locals
  <1>5. QED
    BY <1>2, <1>3, <1>4, Combine

LEMMA SourceShrinksIInv ==
  ASSUME IInv, NEW w \in Workers, SourceShrinks(w)
  PROVE  IInv'
  <1>1. Shape /\ Own(w)
    BY IInvIsOwn
  <1>2. Shape'
    <2>1. srclen' \in [Workers -> Nat]
      BY <1>1 DEF Shape, SourceShrinks
    <2>2. QED
      BY <1>1, <2>1 DEF Shape, SourceShrinks, target, store, locals
  <1>3. Frame(w)
    BY <1>1 DEF Shape, Frame, SourceShrinks, Return, Goto, Close, target, store, locals
  <1>4. /\ UNCHANGED <<reg, dst, bad, cached, lock, opts, pc, total, done, n, off,
                       vdone, rc>>
        /\ pc[w] # "end" /\ srclen'[w] < Len(Image[w])
    BY <1>1, ImageAssumption DEF Shape, SourceShrinks, target, store, locals
  <1>5. Counters(w)' /\ WorkerInv(w)' /\ Shrunk(w)'
    <2>1. Len(Image[w]) \in Nat /\ srclen'[w] \in Nat
      BY <1>2, ImageAssumption DEF Shape
    <2>2. QED
      BY <1>1, <1>4, <2>1 DEF Own, Counters, WorkerInv, Shrunk
  <1>6. Own(w)'
    BY <1>1, <1>4, <1>5 DEF Own
  <1>7. QED
    BY <1>2, <1>3, <1>6, Combine

LEMMA InitIInv == Init => IInv
  <1> SUFFICES ASSUME Init PROVE IInv
    OBVIOUS
  <1>1. \A w \in Workers : Len(Image[w]) \in Nat
    BY ImageAssumption
  <1>2. Shape
    BY <1>1, CapAssumption DEF Init, Shape, Labels
  <1>3. ASSUME NEW w \in Workers PROVE Own(w)
    BY <1>1, BlankAssumption, ChunkAssumption
    DEF Init, Own, Counters, WorkerInv, Shrunk, Begun, Holding
  <1>4. QED
    BY <1>2, <1>3, IInvIsOwn

LEMMA NextIInv == IInv /\ [Next]_vars => IInv'
  <1> SUFFICES ASSUME IInv, [Next]_vars PROVE IInv'
    OBVIOUS
  <1>1. ASSUME NEW w \in Workers, Step(w) PROVE IInv'
    BY <1>1, CheckArgumentsIInv, DryReadIInv, OpenTargetIInv, CheckCapacityIInv,
       ReadChunkIInv, WriteSomeIInv, WriteFailsIInv, SyncIInv, VerifyChunkIInv,
       VerifyFailsIInv DEF Step
  <1>2. ASSUME NEW w \in Workers, Killed(w) \/ SourceShrinks(w) PROVE IInv'
    BY <1>2, KilledIInv, SourceShrinksIInv
  <1>3. CASE UNCHANGED vars
    BY <1>3 DEF vars, IInv, TypeOK, Shape, Counters, OneWriter, WrittenPrefix, SuccessIsComplete,
                VerifiedSoFar, WorkerInv, Shrunk
  <1>4. QED
    BY <1>1, <1>2, <1>3 DEF Next, Finished

(* The inductive invariant holds in every state a set of rufux processes can *)
(* reach on one target (writer.c:28-203).                                    *)
THEOREM InductiveInvariant == Spec => []IInv
  BY InitIInv, NextIInv, PTL DEF Spec

(* Every variable keeps its type and every counter its limit: no chunk       *)
(* outgrows its buffer and none the budget (writer.c:18-26, 124-200).        *)
THEOREM TypeCorrect == Spec => []TypeOK
  <1>1. IInv => TypeOK
    BY DEF IInv
  <1>2. QED
    BY <1>1, InductiveInvariant, PTL

(* At most one process works on a block device (writer.c:97-107).            *)
THEOREM MutualExclusion == Spec => []OneWriter
  <1>1. IInv => OneWriter
    BY DEF IInv
  <1>2. QED
    BY <1>1, InductiveInvariant, PTL

(* Whatever the chunk size and wherever writes fall short, the target holds  *)
(* the beginning of the image and nothing shifted (writer.c:133-148).        *)
THEOREM PrefixWritten == Spec => []WrittenPrefix
  <1>1. IInv => WrittenPrefix
    BY DEF IInv
  <1>2. QED
    BY <1>1, InductiveInvariant, PTL

(* A successful write copied all of the payload (writer.c:133-152).          *)
THEOREM CompleteOnSuccess == Spec => []SuccessIsComplete
  <1>1. IInv => SuccessIsComplete
    BY DEF IInv
  <1>2. QED
    BY <1>1, InductiveInvariant, PTL

LEMMA OthersStay ==
  ASSUME Shape, NEW v \in Workers, Step(v) \/ Killed(v) \/ SourceShrinks(v),
         NEW w \in Workers \ {v}
  PROVE  pc'[w] = pc[w]
  BY DEF Shape, Step, CheckArguments, DryRead, OpenTarget, CheckCapacity, ReadChunk,
         WriteSome, WriteFails, Sync, VerifyChunk, VerifyFails, Killed, SourceShrinks,
         Return, Goto

LEMMA VerifyEnds ==
  ASSUME IInv, NEW w \in Workers, VerifyChunk(w)
  PROVE  VerifiedEnd(w)
  <1> SUFFICES ASSUME pc[w] = "verify", pc'[w] = "end", rc'[w] = 0, ~reg
               PROVE  /\ \A i \in 1..vdone[w] :
                           dst[i] = Image[w][i] /\ (i \in bad => i \in cached)
                      /\ ferr'[w] \/ Shrunk(w) \/ vdone[w] = total[w]
    BY Zenon DEF VerifiedEnd
  <1>1. Shape /\ Own(w) /\ Len(Image[w]) \in Nat
    BY IInvIsOwn, ImageAssumption
  <1>2. PICK k \in 0..read_capped(w, vdone[w]), err \in BOOLEAN :
          /\ ~err => k = read_capped(w, vdone[w])
          /\ ferr' = [ferr EXCEPT ![w] = @ \/ err]
          /\ IF k > 0 /\ Matches(w, vdone[w], k)
               THEN UNCHANGED pc
               ELSE Return(w, IF k = 0 THEN 0 ELSE -1)
    BY DEF VerifyChunk
  <1>3. Return(w, IF k = 0 THEN 0 ELSE -1)
    BY <1>2
  <1>4. rc'[w] = IF k = 0 THEN 0 ELSE -1
    BY <1>1, <1>3 DEF Return, Shape
  <1>5. k = 0
    BY <1>4
  <1>6. ferr'[w] = (ferr[w] \/ err)
    BY <1>1, <1>2 DEF Shape
  <1>7. /\ srclen[w] \in Nat /\ total[w] \in Nat /\ vdone[w] \in Nat
        /\ vdone[w] <= total[w] /\ total[w] <= Len(Image[w])
    BY <1>1 DEF Shape, Own, Counters
  <1>8. (~err /\ ~Shrunk(w)) => vdone[w] = total[w]
    BY <1>1, <1>2, <1>5, <1>7, ChunkAssumption DEF read_capped, Smaller, Shrunk
  <1>9. QED
    BY <1>1, <1>6, <1>8 DEF Own

(* When verification reports success, every unit of the payload is the last  *)
(* thing written to its place, and the medium holds it unless the page cache *)
(* answered the read (writer.c:165-200).                                     *)
THEOREM VerifiedIsCopied == Spec => VerifiedCopy
  <1>1. ASSUME IInv, [Next]_vars, NEW w \in Workers
        PROVE  VerifiedEnd(w)
    <2>1. Shape
      BY <1>1, IInvIsOwn
    <2>2. CASE UNCHANGED vars \/ Finished
      BY <2>2 DEF vars, Finished, VerifiedEnd
    <2>3. ASSUME NEW v \in Workers, v # w, Step(v) \/ Killed(v) \/ SourceShrinks(v)
          PROVE  VerifiedEnd(w)
      BY <2>1, <2>3, OthersStay DEF VerifiedEnd
    <2>4. ASSUME Killed(w) \/ SourceShrinks(w) PROVE VerifiedEnd(w)
      BY <2>1, <2>4 DEF Shape, Killed, SourceShrinks, Return, VerifiedEnd
    <2>5. ASSUME Step(w), ~VerifyChunk(w) PROVE VerifiedEnd(w)
      BY <2>1, <2>5 DEF Shape, Step, CheckArguments, DryRead, OpenTarget, CheckCapacity,
         ReadChunk, WriteSome, WriteFails, Sync, VerifyFails, Return, VerifiedEnd
    <2>6. QED
      BY <1>1, <2>2, <2>3, <2>4, <2>5, VerifyEnds DEF Next
  <1>2. IInv /\ [Next]_vars => [\A w \in Workers : VerifiedEnd(w)]_vars
    BY <1>1
  <1>3. QED
    BY <1>2, InductiveInvariant, PTL DEF Spec, VerifiedCopy

LEMMA WritePayload ==
  ASSUME IInv, NEW w \in Workers, WriteSome(w)
  PROVE  PayloadStep
  <1> SUFFICES ASSUME ~reg, NEW i \in 1..Cap, dst'[i] # dst[i]
               PROVE  lock = w /\ opts[w].yes /\ ~opts[w].dry_run /\ i <= total[w]
    BY DEF PayloadStep
  <1>1. Shape /\ Own(w) /\ pc[w] = "write"
    BY IInvIsOwn DEF WriteSome
  <1>2. lock = w /\ opts[w].yes /\ ~opts[w].dry_run
    BY <1>1 DEF Own, WorkerInv, Holding
  <1>3. PICK k \in 1..(n[w] - off[w]) : dst' = Written(w, k)
    BY DEF WriteSome
  <1>5. i \in done[w] + off[w] + 1 .. done[w] + off[w] + k
    BY <1>1, <1>3 DEF Written, Range, Shape
  <1>6. /\ total[w] \in Nat /\ done[w] \in Nat /\ n[w] \in Nat /\ off[w] \in Nat
        /\ done[w] + n[w] <= total[w]
    BY <1>1 DEF Shape, Own, Counters
  <1>7. done[w] + off[w] + k \in Nat /\ done[w] + off[w] + k <= total[w]
    BY <1>3, <1>6
  <1>8. i <= total[w]
    BY <1>5, <1>6, <1>7, CapAssumption
  <1>9. QED
    BY <1>2, <1>8

(* Only the payload of the consenting lock holder reaches a block device     *)
(* (writer.c:18-26, 86-90).                                                  *)
THEOREM PayloadOnly == Spec => OnlyPayloadWritten
  <1>1. ASSUME IInv, [Next]_vars PROVE [PayloadStep]_vars
    <2>1. CASE UNCHANGED vars \/ Finished
      BY <2>1 DEF Finished
    <2>2. ASSUME NEW w \in Workers, WriteSome(w) PROVE PayloadStep
      BY <1>1, <2>2, WritePayload
    <2>3. ASSUME NEW w \in Workers, Step(w) \/ Killed(w) \/ SourceShrinks(w),
                 ~WriteSome(w)
          PROVE  PayloadStep
      BY <2>3 DEF Step, CheckArguments, DryRead, OpenTarget, CheckCapacity, ReadChunk,
         WriteFails, Sync, VerifyChunk, VerifyFails, Killed, SourceShrinks, target,
         store, PayloadStep
    <2>4. QED
      BY <1>1, <2>1, <2>2, <2>3 DEF Next
  <1>2. QED
    BY <1>1, InductiveInvariant, PTL DEF Spec, OnlyPayloadWritten
=============================================================================
