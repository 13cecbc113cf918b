--------------------------- MODULE DownloadProofs ---------------------------
(***************************************************************************)
(* The safety of the download client for any number of runs, of images and *)
(* of units, and any limits of attempts and retries.                       *)
(*                                                                         *)
(* The invariant has two halves that hardly meet.  One is about the        *)
(* sessions: a reference to a SKU belongs to a session that is registered, *)
(* until the handle is closed.  The other is about the files: as long as   *)
(* downloads do not overlap, the one that is on has no finished image      *)
(* beside it, and its .part is a beginning of its image, exactly as long   *)
(* as curl believes.                                                       *)
(***************************************************************************)
EXTENDS Download, FiniteSetTheorems, SequenceTheorems, TLAPS

Units == Images \X (1..N)

(* The variables of a run, one by one. *)
Control ==
  /\ pc \in [Runs -> Labels] /\ job \in [Runs -> JobType]
  /\ rc \in [Runs -> {"none", "failed", "killed", "printed", "ok"}]

Sessions ==
  /\ sess \in [Runs -> 1..2] /\ attempt \in [Runs -> 0..Attempts]
  /\ known \in [Runs -> SUBSET (1..2)] /\ others \in [Runs -> BOOLEAN]
  /\ refs \in [Runs -> Seq(SkuRefs)] /\ asked \in [Runs -> SUBSET SkuRefs]
  /\ links \in [Runs -> Seq(Images)]

Children ==
  /\ url \in [Runs -> Images \cup {"none"}]
  /\ curl \in [Runs -> {"none", "young", "armed", "get", "ok", "bad"}]
  /\ fd \in [Runs -> Inodes \cup {"none"}]
  /\ off \in [Runs -> Nat] /\ pos \in [Runs -> Nat] /\ retries \in [Runs -> 0..MaxRetry]

Files ==
  /\ data \in [Inodes -> Seq(Units)]
  /\ part \in Inodes \cup {"none"} /\ final \in Inodes \cup {"none"}
  /\ mixed \in BOOLEAN

(* References are those of registered sessions, links are asked for only    *)
(* with them, and neither outgrows its array.                               *)
Registered ==
  \A p \in Runs :
    /\ pc[p] = "skus" => sess[p] \in known[p]
    /\ Len(refs[p]) <= MaxRefs /\ Len(links[p]) <= MaxLinks
    /\ \A n \in DOMAIN refs[p] : /\ refs[p][n].sess \in known[p]
                                 /\ refs[p][n].sku.product = refs[p][n].sess
    /\ IsFiniteSet(asked[p]) /\ asked[p] \subseteq Range(refs[p])

(* There is no curl and no result before the fork, and from the choice of a *)
(* link on the image is one of the architecture asked for.                  *)
Staged ==
  \A p \in Runs :
    /\ pc[p] \notin {"wait", "rename", "end"} => curl[p] = "none" /\ rc[p] = "none"
    /\ pc[p] = "rename" => curl[p] = "ok"
    /\ (pc[p] \in {"fetch"} \cup Fetch \/ curl[p] # "none" \/ rc[p] = "ok") =>
         /\ url[p] \in Images
         /\ job[p].want # "any" => Arch[url[p]] = job[p].want

(* File f is a beginning of image i. *)
Beginning(f, i) ==
  Len(data[f]) <= N /\ \A n \in 1..Len(data[f]) : data[f][n] = <<i, n>>

(* One download at a time, and only as long as there is no image. *)
Alone ==
  \A p \in Runs : Fetching(p) => final = "none" /\ \A q \in Runs : Fetching(q) => p = q

(* What curl has open, and how far it is. *)
Writing ==
  \A p \in Runs : curl[p] = "get" =>
    \/ fd[p] = "none" /\ off[p] = 0 /\ pos[p] = 0 /\ Size(part) = 0
    \/ /\ fd[p] = part /\ part # "none" /\ Beginning(part, url[p])
       /\ pos[p] = Len(data[part]) /\ off[p] <= pos[p]

(* A transfer that succeeded, and a run that did. *)
Complete ==
  \A p \in Runs :
    /\ pc[p] \in {"wait", "rename"} /\ curl[p] = "ok" =>
         part # "none" /\ Len(data[part]) = N /\ Beginning(part, url[p])
    /\ rc[p] = "ok" =>
         final # "none" /\ Len(data[final]) = N /\ Beginning(final, url[p])

(* The .part is the beginning of some image. *)
PartIs == part # "none" => \E i \in Images : Beginning(part, i)

Unmixed == ~mixed => Alone /\ Writing /\ Complete /\ PartIs

IInv == Control /\ Sessions /\ Children /\ Files /\ Registered /\ Staged /\ Unmixed
-----------------------------------------------------------------------------
(* Sequences. *)

(* add_sku keeps what was there, up to two references, and takes the rest   *)
(* from the session it is in.                                               *)
LEMMA AddSkusIs ==
  ASSUME Sessions, NEW p \in Runs, Len(refs[p]) <= MaxRefs, NEW k \in 0..2
  PROVE  /\ AddSkus(p, k) \in Seq(SkuRefs) /\ Len(AddSkus(p, k)) <= MaxRefs
         /\ \A n \in DOMAIN AddSkus(p, k) :
              \/ \E j \in DOMAIN refs[p] : AddSkus(p, k)[n] = refs[p][j]
              \/ /\ AddSkus(p, k)[n].sess = sess[p]
                 /\ AddSkus(p, k)[n].sku.product = sess[p]
         /\ Range(refs[p]) \subseteq Range(AddSkus(p, k))
  <1> DEFINE old == refs[p]
             new == [n \in 1..k |-> [sess |-> sess[p], sku |-> Sku(sess[p], n)]]
             all == old \o new
             m   == IF Len(old) + k > MaxRefs THEN MaxRefs ELSE Len(old) + k
             got == SubSeq(all, 1, m)
  <1>0. sess[p] \in 1..2 /\ old \in Seq(SkuRefs) /\ Len(old) \in Nat /\ DOMAIN old = 1..Len(old)
    BY LenProperties DEF Sessions
  <1>1. \A n \in 1..k : /\ new[n] \in SkuRefs
                        /\ new[n].sess = sess[p] /\ new[n].sku.product = sess[p]
    BY <1>0 DEF SkuRefs, Sku
  <1>2. new \in Seq(SkuRefs) /\ Len(new) = k
    BY <1>1
  <1> HIDE DEF new
  <1>3. /\ all \in Seq(SkuRefs) /\ Len(all) = Len(old) + k
        /\ \A i \in 1..(Len(old) + k) :
             all[i] = IF i <= Len(old) THEN old[i] ELSE new[i - Len(old)]
    BY <1>0, <1>2, ConcatProperties
  <1>m. m \in Nat /\ m <= MaxRefs /\ m <= Len(old) + k /\ Len(old) <= m
    BY <1>0 DEF MaxRefs
  <1> HIDE DEF all, m
  <1>4. \A i \in 1..m : all[i] \in SkuRefs
    BY <1>0, <1>3, <1>m, ElementOfSeq
  <1>5. /\ got \in Seq(SkuRefs) /\ Len(got) = m /\ DOMAIN got = 1..m
        /\ \A i \in 1..m : got[i] = all[i]
    <2>1. /\ got \in Seq(SkuRefs) /\ Len(got) = IF 1 <= m THEN m - 1 + 1 ELSE 0
          /\ \A i \in 1..(m - 1 + 1) : got[i] = all[1 + i - 1]
      BY <1>4, <1>m, SubSeqProperties
    <2>2. DOMAIN got = 1..Len(got)
      BY <2>1, LenProperties
    <2>3. QED
      BY <2>1, <2>2, <1>m
  <1> HIDE DEF got
  <1>6. AddSkus(p, k) = got
    BY DEF AddSkus, got, all, m, new
  <1>7. \A n \in 1..m : \/ \E j \in DOMAIN old : got[n] = old[j]
                        \/ got[n].sess = sess[p] /\ got[n].sku.product = sess[p]
    <2>1. TAKE n \in 1..m
    <2>2. CASE n <= Len(old)
      <3>1. n \in DOMAIN old /\ n \in 1..(Len(old) + k)
        BY <1>0, <1>m, <2>2
      <3>2. got[n] = old[n]
        BY <1>3, <1>5, <2>2, <3>1
      <3>3. QED
        BY <3>1, <3>2
    <2>3. CASE n > Len(old)
      <3>1. n - Len(old) \in 1..k /\ got[n] = new[n - Len(old)]
        BY <1>0, <1>3, <1>m, <1>5, <2>3
      <3>2. QED
        BY <1>1, <3>1
    <2>4. QED
      BY <1>0, <1>m, <2>2, <2>3
  <1>8. \A j \in DOMAIN old : j \in DOMAIN got /\ got[j] = old[j]
    BY <1>0, <1>3, <1>m, <1>5
  <1>9. QED
    BY <1>5, <1>6, <1>7, <1>8, <1>m DEF Range

(* Links are added as long as there is room. *)
LEMMA AddLinksIs ==
  ASSUME NEW s \in Seq(Images), NEW k \in Nat, NEW q \in [1..k -> Images]
  PROVE  AddLinks(s, q) \in Seq(Images) /\ Len(AddLinks(s, q)) <= MaxLinks
  <1> DEFINE all == s \o q
             m == IF Len(s) + Len(q) > MaxLinks THEN MaxLinks ELSE Len(s) + Len(q)
  <1>1. q \in Seq(Images) /\ Len(q) = k /\ Len(s) \in Nat
    BY LenProperties
  <1>2. all \in Seq(Images) /\ Len(all) = Len(s) + Len(q)
    BY <1>1, ConcatProperties
  <1>3. m \in Nat /\ m <= MaxLinks /\ m <= Len(s) + Len(q)
    BY <1>1, DownloadAssumption
  <1> HIDE DEF all, m
  <1>4. \A i \in 1..m : all[i] \in Images
    BY <1>1, <1>2, <1>3, ElementOfSeq
  <1>5. /\ SubSeq(all, 1, m) \in Seq(Images)
        /\ Len(SubSeq(all, 1, m)) = IF 1 <= m THEN m - 1 + 1 ELSE 0
    BY <1>3, <1>4, SubSeqProperties
  <1>6. Len(SubSeq(all, 1, m)) <= MaxLinks
    BY <1>3, <1>5, DownloadAssumption
  <1>7. QED
    BY <1>5, <1>6 DEF AddLinks, all, m

(* main's choice is one of the links, of the architecture asked for. *)
LEMMA ChoiceIs ==
  ASSUME NEW q \in Seq(Images), q # <<>>, Len(q) <= MaxLinks,
         NEW w \in {"any", "x64", "ARM64"}, NEW i \in Choice(w, q)
  PROVE  i \in Images /\ (w # "any" => Arch[i] = w)
  <1> DEFINE fits == {n \in DOMAIN q : Arch[q[n]] = (IF w = "any" THEN "x64" ELSE w)}
             top == CHOOSE n \in fits : \A m \in fits : m <= n
  <1>0. DOMAIN q = 1..Len(q) /\ Len(q) \in 1..4 /\ \A n \in 1..Len(q) : q[n] \in Images
    <2>1. DOMAIN q = 1..Len(q) /\ Len(q) \in Nat /\ q \in [1..Len(q) -> Images]
      BY LenProperties
    <2>2. Len(q) \in Nat \ {0}
      BY EmptySeq
    <2>3. MaxLinks \in Int /\ MaxLinks <= 4
      BY DownloadAssumption
    <2>4. ASSUME NEW l \in Nat \ {0}, l <= MaxLinks
          PROVE  l \in 1..4
      BY <2>3, <2>4
    <2>5. Len(q) \in 1..4
      BY <2>2, <2>4
    <2>6. QED
      BY <2>1, <2>5
  <1>1. CASE fits # {}
    <2>1. fits \subseteq 1..4
      BY <1>0
    <2> HIDE DEF fits
    <2>2. \E n \in fits : \A m \in fits : m <= n
      <3>1. CASE 4 \in fits
        BY <2>1, <3>1
      <3>2. CASE 4 \notin fits /\ 3 \in fits
        BY <2>1, <3>2
      <3>3. CASE 4 \notin fits /\ 3 \notin fits /\ 2 \in fits
        BY <2>1, <3>3
      <3>4. CASE 4 \notin fits /\ 3 \notin fits /\ 2 \notin fits
        <4>1. PICK n \in fits : TRUE
          BY <1>1
        <4>2. \A m \in fits : m = 1
          BY <2>1, <3>4
        <4>3. QED
          BY <4>1, <4>2
      <3>5. QED
        BY <3>1, <3>2, <3>3, <3>4
    <2>3. top \in fits
      BY <2>2
    <2> HIDE DEF top
    <2>4. i = q[top]
      BY <1>1 DEF Choice, fits, top
    <2>5. QED
      BY <1>0, <2>3, <2>4 DEF fits
  <1>2. CASE fits = {}
    <2>1. w = "any" /\ i = q[1]
      BY <1>2 DEF Choice
    <2>2. QED
      BY <1>0, <2>1
  <1>3. QED
    BY <1>1, <1>2

-----------------------------------------------------------------------------
(* The session half. *)

(* A run that closes its handle has no sessions to account for. *)
LEMMA CloseKeeps ==
  ASSUME Sessions, Registered, NEW p \in Runs, Close(p),
         pc'[p] # "skus", \A q \in Runs \ {p} : pc'[q] = pc[q]
  PROVE  Sessions' /\ Registered'
  <1>0. <<>> \in Seq(SkuRefs) /\ <<>> \in Seq(Images) /\ Len(<<>>) = 0 /\ DOMAIN <<>> = {}
        /\ IsFiniteSet({})
    BY FS_EmptySet
  <1>1. Sessions'
    <2>1. sess' \in [Runs -> 1..2] /\ attempt' \in [Runs -> 0..Attempts]
      BY DownloadAssumption DEF Sessions, Close, Set
    <2>2. known' \in [Runs -> SUBSET (1..2)] /\ others' \in [Runs -> BOOLEAN]
      BY DEF Sessions, Close, Set
    <2>3. refs' \in [Runs -> Seq(SkuRefs)] /\ links' \in [Runs -> Seq(Images)]
      BY <1>0 DEF Sessions, Close, Set
    <2>4. asked' \in [Runs -> SUBSET SkuRefs]
      BY DEF Sessions, Close, Set
    <2>5. QED
      BY <2>1, <2>2, <2>3, <2>4 DEF Sessions
  <1>2. Registered'
    <2>1. /\ refs'[p] = <<>> /\ links'[p] = <<>> /\ asked'[p] = {}
          /\ \A q \in Runs \ {p} : /\ refs'[q] = refs[q] /\ links'[q] = links[q]
                                   /\ asked'[q] = asked[q] /\ known'[q] = known[q]
                                   /\ sess'[q] = sess[q]
      BY DEF Sessions, Close, Set
    <2>2. SUFFICES ASSUME NEW q \in Runs
                   PROVE  /\ pc'[q] = "skus" => sess'[q] \in known'[q]
                          /\ Len(refs'[q]) <= MaxRefs /\ Len(links'[q]) <= MaxLinks
                          /\ \A n \in DOMAIN refs'[q] :
                               /\ refs'[q][n].sess \in known'[q]
                               /\ refs'[q][n].sku.product = refs'[q][n].sess
                          /\ IsFiniteSet(asked'[q]) /\ asked'[q] \subseteq Range(refs'[q])
      BY DEF Registered
    <2>3. CASE q = p
      <3>1. Len(refs'[q]) <= MaxRefs /\ Len(links'[q]) <= MaxLinks
        BY <1>0, <2>1, <2>3, DownloadAssumption DEF MaxRefs
      <3>2. DOMAIN refs'[q] = {} /\ asked'[q] = {}
        BY <1>0, <2>1, <2>3
      <3>3. QED
        BY <1>0, <2>3, <3>1, <3>2
    <2>4. CASE q # p
      BY <2>1, <2>4 DEF Registered
    <2>5. QED
      BY <2>3, <2>4
  <1>3. QED
    BY <1>1, <1>2

(* A run that goes on without touching its session. *)
LEMMA SessionKeeps ==
  ASSUME Sessions, Registered, NEW p \in Runs,
         UNCHANGED <<sess, attempt, known, others, refs, asked, links>>,
         pc'[p] # "skus", \A q \in Runs \ {p} : pc'[q] = pc[q]
  PROVE  Sessions' /\ Registered'
  BY DEF Sessions, Registered

(* The steps of the fetch, and those of curl, leave the sessions alone. *)
LEMMA FetchSessions ==
  ASSUME IInv, NEW p \in Runs,
         Check(p) \/ Fork(p) \/ Reap(p) \/ Rename(p) \/ Transfer(p)
  PROVE  Sessions' /\ Registered'
  <1>1. /\ UNCHANGED <<sess, attempt, known, others, refs, asked, links>>
        /\ \A q \in Runs \ {p} : pc'[q] = pc[q]
        /\ pc'[p] # "skus" \/ pc'[p] = pc[p]
    BY DEF IInv, Control, Check, Fork, Reap, Rename, Transfer, Arm, CurlBegin, CurlData,
       CurlRetry, CurlExit, session, Go, Fail, Set
  <1>2. QED
    BY <1>1 DEF IInv, Sessions, Registered

(* The steps that use a session. *)
LEMMA WorkSessions ==
  ASSUME IInv, NEW p \in Runs,
         \/ Start(p) \/ Register(p, "tags", "mdt") \/ Register(p, "mdt", "ovdf")
         \/ Register(p, "ovdf", "skus") \/ GiveUp(p) \/ SkuList(p) \/ SkuRetry(p)
         \/ ListLanguages(p) \/ AskLinks(p) \/ PickLink(p) \/ Killed(p)
  PROVE  Sessions' /\ Registered'
  <1>0. Control /\ Sessions /\ Registered
    BY DEF IInv
  <1>p. \A q \in Runs \ {p} : pc'[q] = pc[q]
    BY <1>0 DEF Control, Start, Register, GiveUp, SkuList, SkuRetry, ListLanguages,
       AskLinks, PickLink, Killed, Go, Fail, Set
  <1>1. CASE GiveUp(p) \/ ListLanguages(p) \/ PickLink(p) \/ Killed(p)
    <2>1. Close(p) /\ pc'[p] # "skus"
      BY <1>0, <1>1 DEF Control, GiveUp, ListLanguages, PickLink, Killed, Go, Fail, Set
    <2>2. QED
      BY <1>0, <1>p, <2>1, CloseKeeps
  <1>2. CASE Start(p)
    BY <1>0, <1>p, <1>2 DEF Start, Control, Sessions, Registered, Go, Set
  <1>3. CASE Register(p, "tags", "mdt") \/ Register(p, "mdt", "ovdf")
    BY <1>0, <1>p, <1>3 DEF Register, Control, Sessions, Registered, Go, Set
  <1>4. CASE Register(p, "ovdf", "skus")
    <2>1. /\ UNCHANGED <<sess, attempt, others, refs, asked, links>>
          /\ known' = [known EXCEPT ![p] = known[p] \cup {sess[p]}]
      BY <1>4 DEF Register, Set
    <2>2. Sessions'
      BY <1>0, <2>1 DEF Sessions
    <2>3. /\ sess[p] \in known'[p] /\ \A q \in Runs : known[q] \subseteq known'[q]
      BY <1>0, <2>1 DEF Sessions
    <2>4. Registered'
      BY <1>0, <1>p, <2>1, <2>3 DEF Registered
    <2>5. QED
      BY <2>2, <2>4
  <1>5. CASE SkuRetry(p)
    <2>1. /\ UNCHANGED <<pc, sess, known, others, refs, asked, links>>
          /\ attempt' = [attempt EXCEPT ![p] = attempt[p] + 1] /\ attempt[p] < Attempts
      BY <1>5 DEF SkuRetry, Set
    <2>2. attempt' \in [Runs -> 0..Attempts]
      BY <1>0, <2>1, DownloadAssumption DEF Sessions
    <2>3. QED
      BY <1>0, <2>1, <2>2 DEF Sessions, Registered
  <1>6. CASE SkuList(p)
    <2>1. PICK k \in 0..2, o \in BOOLEAN :
            /\ refs' = [refs EXCEPT ![p] = AddSkus(p, k)]
            /\ others' = [others EXCEPT ![p] = others[p] \/ o]
            /\ \/ /\ attempt' = [attempt EXCEPT ![p] = attempt[p] + 1]
                  /\ UNCHANGED <<pc, sess>>
               \/ /\ attempt' = [attempt EXCEPT ![p] = 0]
                  /\ \/ /\ sess[p] < job[p].ids /\ pc' = [pc EXCEPT ![p] = "tags"]
                        /\ sess' = [sess EXCEPT ![p] = sess[p] + 1]
                     \/ pc' = [pc EXCEPT ![p] = "links"] /\ UNCHANGED sess
      BY <1>6 DEF SkuList, Go, Set
    <2>2. /\ UNCHANGED <<known, asked, links>> /\ attempt[p] < Attempts /\ pc[p] = "skus"
          /\ sess[p] \in known[p] /\ Len(refs[p]) <= MaxRefs
      BY <1>0, <1>6 DEF SkuList, Registered
    <2>3. attempt' \in [Runs -> 0..Attempts]
      <3>1. attempt[p] \in 0..Attempts /\ attempt \in [Runs -> 0..Attempts]
        BY <1>0 DEF Sessions
      <3>2. attempt[p] + 1 \in 0..Attempts /\ 0 \in 0..Attempts
        BY <2>2, <3>1, DownloadAssumption
      <3>3. QED
        BY <2>1, <3>1, <3>2
    <2>4. sess' \in [Runs -> 1..2]
      <3>1. job[p].ids \in 1..2 /\ sess[p] \in 1..2
        BY <1>0 DEF Control, JobType, Sessions
      <3>2. sess[p] < job[p].ids => sess[p] + 1 \in 1..2
        BY <3>1
      <3>3. QED
        BY <1>0, <2>1, <3>2 DEF Sessions
    <2>5. others' \in [Runs -> BOOLEAN]
      BY <1>0, <2>1 DEF Sessions
    <2>6. refs' \in [Runs -> Seq(SkuRefs)]
      BY <1>0, <2>1, <2>2, AddSkusIs DEF Sessions
    <2>7. Sessions'
      BY <1>0, <2>2, <2>3, <2>4, <2>5, <2>6 DEF Sessions
    <2>8. /\ refs'[p] = AddSkus(p, k) /\ \A q \in Runs \ {p} : refs'[q] = refs[q]
          /\ \A q \in Runs \ {p} : sess'[q] = sess[q]
          /\ pc'[p] = "skus" => sess'[p] = sess[p]
      BY <1>0, <2>1, <2>2 DEF Sessions, Control
    <2> DEFINE got == AddSkus(p, k)
    <2>g. /\ Len(got) <= MaxRefs /\ Range(refs[p]) \subseteq Range(got)
          /\ \A n \in DOMAIN got : \/ \E j \in DOMAIN refs[p] : got[n] = refs[p][j]
                                   \/ got[n].sess = sess[p] /\ got[n].sku.product = sess[p]
      <3>1. k \in 0..2 /\ Len(refs[p]) <= MaxRefs /\ Sessions
        BY <1>0, <2>1, <2>2
      <3>2. QED
        BY <3>1, AddSkusIs
    <2> HIDE DEF got
    <2>r. refs'[p] = got
      BY <2>8 DEF got
    <2>9. Registered'
      <3>1. SUFFICES ASSUME NEW q \in Runs
                     PROVE  /\ pc'[q] = "skus" => sess'[q] \in known'[q]
                            /\ Len(refs'[q]) <= MaxRefs /\ Len(links'[q]) <= MaxLinks
                            /\ \A n \in DOMAIN refs'[q] :
                                 /\ refs'[q][n].sess \in known'[q]
                                 /\ refs'[q][n].sku.product = refs'[q][n].sess
                            /\ IsFiniteSet(asked'[q]) /\ asked'[q] \subseteq Range(refs'[q])
        BY DEF Registered
      <3>2. CASE q = p
        <4>1. \A n \in DOMAIN got : got[n].sess \in known[p] /\ got[n].sku.product = got[n].sess
          <5>1. TAKE n \in DOMAIN got
          <5>2. CASE \E j \in DOMAIN refs[p] : got[n] = refs[p][j]
            BY <1>0, <5>2 DEF Registered
          <5>3. CASE got[n].sess = sess[p] /\ got[n].sku.product = sess[p]
            BY <2>2, <5>3
          <5>4. QED
            BY <2>g, <5>2, <5>3
        <4>2. Len(links[p]) <= MaxLinks /\ IsFiniteSet(asked[p]) /\ asked[p] \subseteq Range(refs[p])
          BY <1>0 DEF Registered
        <4>3. asked[p] \subseteq Range(got)
          BY <4>2, <2>g
        <4>4. pc'[p] = "skus" => sess'[p] \in known'[p]
          BY <2>2, <2>8
        <4>5. QED
          BY <2>2, <2>g, <2>r, <3>2, <4>1, <4>2, <4>3, <4>4
      <3>3. CASE q # p
        BY <1>0, <1>p, <2>2, <2>8, <3>3 DEF Registered
      <3>4. QED
        BY <3>2, <3>3
    <2>10. QED
      BY <2>7, <2>9
  <1>7. CASE AskLinks(p)
    <2> DEFINE r == refs[p][Cardinality(asked[p]) + 1]
    <2>1. /\ UNCHANGED <<pc, sess, attempt, known, others, refs>>
          /\ asked' = [asked EXCEPT ![p] = asked[p] \cup {r}]
          /\ Cardinality(asked[p]) < Len(refs[p])
      BY <1>7 DEF AskLinks, Set
    <2>2. r \in Range(refs[p]) /\ r \in SkuRefs
      <3>1. Cardinality(asked[p]) \in Nat
        BY <1>0, FS_CardinalityType DEF Registered
      <3>2. refs[p] \in Seq(SkuRefs) /\ DOMAIN refs[p] = 1..Len(refs[p]) /\ Len(refs[p]) \in Nat
        BY <1>0, LenProperties DEF Sessions
      <3>3. Cardinality(asked[p]) + 1 \in 1..Len(refs[p])
        BY <2>1, <3>1, <3>2
      <3>4. QED
        BY <3>2, <3>3, ElementOfSeq DEF Range
    <2> HIDE DEF r
    <2>3. links' \in [Runs -> Seq(Images)] /\ \A q \in Runs : Len(links'[q]) <= MaxLinks
      <3>1. PICK k \in 0..PerReply : \E q \in [1..k -> Images] :
              links' = [links EXCEPT ![p] = AddLinks(links[p], q)]
        BY <1>7 DEF AskLinks, Set
      <3>2. PICK q \in [1..k -> Images] : links' = [links EXCEPT ![p] = AddLinks(links[p], q)]
        BY <3>1
      <3> DEFINE s == AddLinks(links[p], q)
      <3>3. s \in Seq(Images) /\ Len(s) <= MaxLinks
        <4>1. links[p] \in Seq(Images) /\ k \in Nat
          BY <1>0, DownloadAssumption DEF Sessions
        <4>2. QED
          BY <4>1, AddLinksIs
      <3> HIDE DEF s
      <3>4. links' = [links EXCEPT ![p] = s]
        BY <3>2 DEF s
      <3>5. QED
        BY <1>0, <3>3, <3>4 DEF Sessions, Registered
    <2>4. asked' \in [Runs -> SUBSET SkuRefs]
      BY <1>0, <2>1, <2>2 DEF Sessions
    <2>5. Sessions'
      BY <1>0, <2>1, <2>3, <2>4 DEF Sessions
    <2>6. \A q \in Runs : IsFiniteSet(asked'[q]) /\ asked'[q] \subseteq Range(refs[q])
      <3>1. IsFiniteSet(asked[p] \cup {r})
        BY <1>0, FS_AddElement DEF Registered
      <3>2. QED
        BY <1>0, <2>1, <2>2, <3>1 DEF Sessions, Registered
    <2>7. Registered'
      BY <1>0, <2>1, <2>3, <2>6 DEF Registered
    <2>8. QED
      BY <2>5, <2>7
  <1>8. QED
    BY <1>1, <1>2, <1>3, <1>4, <1>5, <1>6, <1>7

-----------------------------------------------------------------------------
(* Types, and what a run has been through. *)

(* A step of a run moves its own counter and result, and only the start     *)
(* says what it is asked for.                                               *)
LEMMA StepControl ==
  ASSUME Control, NEW p \in Runs, Work(p) \/ Transfer(p) \/ Killed(p)
  PROVE  /\ Control'
         /\ \A q \in Runs \ {p} : pc'[q] = pc[q] /\ rc'[q] = rc[q] /\ job'[q] = job[q]
  <1>1. CASE \/ Start(p) \/ Register(p, "tags", "mdt") \/ Register(p, "mdt", "ovdf")
             \/ Register(p, "ovdf", "skus")
    BY <1>1, DownloadAssumption DEF Control, Labels, Session, Fetch, Start, Register, Go, Set
  <1>2. CASE GiveUp(p) \/ ListLanguages(p) \/ PickLink(p) \/ Killed(p)
    BY <1>2 DEF Control, Labels, Session, Fetch, GiveUp, ListLanguages, PickLink, Killed, Go, Fail, Set
  <1>3. CASE SkuList(p) \/ SkuRetry(p) \/ AskLinks(p)
    BY <1>3 DEF Control, Labels, Session, Fetch, SkuList, SkuRetry, AskLinks, Go, Set
  <1>4. CASE Check(p) \/ Fork(p) \/ Reap(p) \/ Rename(p)
    BY <1>4 DEF Control, Labels, Session, Fetch, Check, Fork, Reap, Rename, Go, Fail, Set
  <1>5. CASE Transfer(p)
    BY <1>5 DEF Control, Transfer, Arm, CurlBegin, CurlData, CurlRetry, CurlExit
  <1>6. QED
    BY <1>1, <1>2, <1>3, <1>4, <1>5 DEF Work

(* The steps that leave curl and the files alone, apart from the choice of  *)
(* a link.                                                                  *)
Sessional(p) ==
  \/ Start(p) \/ Register(p, "tags", "mdt") \/ Register(p, "mdt", "ovdf")
  \/ Register(p, "ovdf", "skus") \/ GiveUp(p) \/ SkuList(p) \/ SkuRetry(p)
  \/ ListLanguages(p) \/ AskLinks(p) \/ PickLink(p)

(* They touch neither, and are taken by runs that have no curl. *)
LEMMA SessionalKeeps ==
  ASSUME NEW p \in Runs, Sessional(p)
  PROVE  /\ UNCHANGED <<curl, fd, off, pos, retries, data, part, final, mixed>>
         /\ pc[p] \in {"idle"} \cup Session
  BY DEF Sessional, Start, Register, GiveUp, SkuList, SkuRetry, ListLanguages, AskLinks,
     PickLink, Session, child, files

(* The link a run fetches is one of those it was given. *)
LEMMA SessionalUrl ==
  ASSUME IInv, NEW p \in Runs, Sessional(p)
  PROVE  /\ url' \in [Runs -> Images \cup {"none"}]
         /\ \A q \in Runs \ {p} : url'[q] = url[q]
         /\ pc'[p] \notin Fetch /\ rc'[p] # "ok"
         /\ pc'[p] # "end" => rc'[p] = "none"
         /\ pc'[p] = "fetch" => /\ url'[p] \in Images
                                /\ job'[p].want # "any" => Arch[url'[p]] = job'[p].want
  <1>1. CASE PickLink(p)
    <2>1. links[p] \in Seq(Images) /\ links[p] # <<>> /\ Len(links[p]) <= MaxLinks
      BY <1>1 DEF IInv, Sessions, Registered, PickLink
    <2>2. job[p].want \in {"any", "x64", "ARM64"} /\ job' = job
      BY <1>1 DEF IInv, Control, JobType, PickLink
    <2>3. \A i \in Choice(job[p].want, links[p]) :
            i \in Images /\ (job[p].want # "any" => Arch[i] = job[p].want)
      BY <2>1, <2>2, ChoiceIs
    <2>4. rc[p] = "none" /\ rc \in [Runs -> {"none", "failed", "killed", "printed", "ok"}]
          /\ pc \in [Runs -> Labels] /\ url \in [Runs -> Images \cup {"none"}]
      BY <1>1 DEF IInv, Control, Children, Staged, PickLink
    <2>5. CASE /\ \E i \in Choice(job[p].want, links[p]) : Set(url, p, i)
               /\ IF job[p].goal = "iso" THEN Go(p, "fetch")
                  ELSE Set(pc, p, "end") /\ Set(rc, p, "printed")
      <3>1. PICK i \in Choice(job[p].want, links[p]) : url' = [url EXCEPT ![p] = i]
        BY <2>5 DEF Set
      <3>2. i \in Images /\ (job[p].want # "any" => Arch[i] = job[p].want)
        BY <2>3
      <3>3. \/ pc' = [pc EXCEPT ![p] = "fetch"] /\ rc' = rc
            \/ pc' = [pc EXCEPT ![p] = "end"] /\ rc' = [rc EXCEPT ![p] = "printed"]
        BY <2>5 DEF Go, Set
      <3>4. QED
        BY <2>2, <2>4, <3>1, <3>2, <3>3 DEF Fetch
    <2>6. CASE Fail(p) /\ UNCHANGED url
      BY <2>4, <2>6 DEF Fail, Set, Fetch
    <2>7. QED
      BY <1>1, <2>5, <2>6 DEF PickLink
  <1>2. CASE Sessional(p) /\ ~PickLink(p)
    <2>1. UNCHANGED url /\ url \in [Runs -> Images \cup {"none"}]
      BY <1>2 DEF IInv, Children, Sessional, Start, Register, GiveUp, SkuList, SkuRetry,
         ListLanguages, AskLinks
    <2>2. rc[p] = "none" /\ rc \in [Runs -> {"none", "failed", "killed", "printed", "ok"}]
          /\ pc \in [Runs -> Labels]
      BY SessionalKeeps DEF IInv, Control, Staged, Session
    <2>3. /\ pc'[p] \notin {"fetch"} \cup Fetch /\ rc'[p] # "ok"
          /\ pc'[p] # "end" => rc'[p] = "none"
      BY <1>2, <2>2 DEF Sessional, Start, Register, GiveUp, SkuList, SkuRetry,
         ListLanguages, AskLinks, Go, Fail, Set, Fetch
    <2>4. QED
      BY <2>1, <2>3
  <1>3. QED
    BY <1>1, <1>2

(* A curl that starts is at the end of the .part. *)
LEMMA SizeIs ==
  ASSUME Files
  PROVE  Size(part) \in Nat /\ (Size(part) > 0 => part \in Inodes)
  <1>1. CASE part = "none"
    BY <1>1 DEF Size
  <1>2. CASE part # "none"
    <2>1. part \in Inodes /\ data[part] \in Seq(Units)
      BY <1>2 DEF Files
    <2>2. QED
      BY <1>2, <2>1, LenProperties DEF Size
  <1>3. QED
    BY <1>1, <1>2

(* The child's variables keep their types, and those of the others change   *)
(* with nothing this run does.                                              *)
LEMMA StepChildren ==
  ASSUME IInv, NEW p \in Runs, Work(p) \/ Transfer(p) \/ Killed(p)
  PROVE  /\ Children'
         /\ \A q \in Runs \ {p} :
              /\ url'[q] = url[q] /\ curl'[q] = curl[q] /\ fd'[q] = fd[q]
              /\ off'[q] = off[q] /\ pos'[q] = pos[q] /\ retries'[q] = retries[q]
  <1>0. Control /\ Children /\ Files
    BY DEF IInv
  <1>1. CASE Sessional(p)
    BY <1>0, <1>1, SessionalKeeps, SessionalUrl DEF Children
  <1>2. CASE Check(p) \/ Fork(p) \/ Reap(p) \/ Rename(p) \/ Killed(p)
    BY <1>0, <1>2 DEF Children, Check, Fork, Reap, Rename, Killed, Set, child
  <1>3. CASE Arm(p) \/ CurlExit(p)
    BY <1>0, <1>3 DEF Children, Arm, CurlExit, Set
  <1>4. CASE CurlBegin(p)
    <2>1. /\ UNCHANGED <<url, retries>> /\ curl' = [curl EXCEPT ![p] = "get"]
          /\ off' = [off EXCEPT ![p] = Size(part)] /\ pos' = [pos EXCEPT ![p] = Size(part)]
          /\ fd' = [fd EXCEPT ![p] = IF Size(part) > 0 THEN part ELSE "none"]
      BY <1>4 DEF CurlBegin, Set
    <2>2. Size(part) \in Nat /\ (Size(part) > 0 => part \in Inodes)
      BY <1>0, SizeIs
    <2>3. QED
      BY <1>0, <2>1, <2>2 DEF Children
  <1>5. CASE CurlData(p)
    <2>1. /\ UNCHANGED <<url, curl, off, retries>>
          /\ pos' = [pos EXCEPT ![p] = pos[p] + 1]
          /\ fd' = [fd EXCEPT ![p] = IF fd[p] # "none" THEN fd[p]
                                     ELSE IF part # "none" THEN part ELSE p]
      BY <1>5 DEF CurlData, Set
    <2>2. pos' \in [Runs -> Nat]
      BY <1>0, <2>1 DEF Children
    <2>3. fd' \in [Runs -> Inodes \cup {"none"}]
      BY <1>0, <2>1 DEF Children, Files, Inodes
    <2>4. QED
      BY <1>0, <2>1, <2>2, <2>3 DEF Children
  <1>6. CASE CurlRetry(p)
    <2>1. /\ UNCHANGED <<url, curl, off, fd>> /\ retries[p] < MaxRetry
          /\ pos' = [pos EXCEPT ![p] = off[p]]
          /\ retries' = [retries EXCEPT ![p] = retries[p] + 1]
      BY <1>6 DEF CurlRetry, Set
    <2>2. retries[p] \in 0..MaxRetry /\ off[p] \in Nat
      BY <1>0 DEF Children
    <2>3. retries[p] + 1 \in 0..MaxRetry
      BY <2>1, <2>2, DownloadAssumption
    <2>4. QED
      BY <1>0, <2>1, <2>2, <2>3 DEF Children
  <1>7. QED
    BY <1>1, <1>2, <1>3, <1>4, <1>5, <1>6 DEF Work, Transfer, Sessional

(* What a run has been through stays true. *)
LEMMA StepStaged ==
  ASSUME IInv, NEW p \in Runs, Work(p) \/ Transfer(p) \/ Killed(p)
  PROVE  Staged'
  <1>0. Control /\ Children /\ Staged
    BY DEF IInv
  <1>1. \A q \in Runs \ {p} : /\ pc'[q] = pc[q] /\ rc'[q] = rc[q] /\ job'[q] = job[q]
                              /\ url'[q] = url[q] /\ curl'[q] = curl[q]
    BY <1>0, StepControl, StepChildren
  <1> DEFINE Now == /\ pc[p] \notin {"wait", "rename", "end"} => curl[p] = "none" /\ rc[p] = "none"
                    /\ pc[p] = "rename" => curl[p] = "ok"
                    /\ (pc[p] \in {"fetch"} \cup Fetch \/ curl[p] # "none" \/ rc[p] = "ok") =>
                         /\ url[p] \in Images
                         /\ job[p].want # "any" => Arch[url[p]] = job[p].want
  <1>2. Now
    BY <1>0 DEF Staged
  <1>3. CASE Sessional(p)
    <2>1. curl'[p] = "none"
      BY <1>2, <1>3, SessionalKeeps DEF Session
    <2>2. Now'
      BY <1>3, <2>1, SessionalUrl DEF Fetch
    <2>3. QED
      BY <1>0, <1>1, <2>2 DEF Staged
  <1>4. CASE Check(p) \/ Fork(p) \/ Reap(p) \/ Rename(p) \/ Killed(p)
    <2>1. UNCHANGED <<url, job>>
      BY <1>4 DEF Check, Fork, Reap, Rename, Killed
    <2>2. Now'
      BY <1>0, <1>2, <1>4, <2>1 DEF Check, Fork, Reap, Rename, Killed, Go, Fail, Set, Fetch, child,
         Control, Children
    <2>3. QED
      BY <1>0, <1>1, <2>2 DEF Staged
  <1>5. CASE Transfer(p)
    <2>1. /\ UNCHANGED <<url, job, pc, rc>>
          /\ curl[p] \in {"young", "armed", "get"}
      BY <1>5 DEF Transfer, Arm, CurlBegin, CurlData, CurlRetry, CurlExit
    <2>2. pc[p] # "rename"
      BY <1>2, <2>1
    <2>3. Now'
      BY <1>2, <2>1, <2>2
    <2>4. QED
      BY <1>0, <1>1, <2>3 DEF Staged
  <1>6. QED
    BY <1>3, <1>4, <1>5 DEF Work, Sessional

(* The file a unit is written to, and what it held that stays. *)
Target(p) == IF fd[p] # "none" THEN fd[p] ELSE IF part # "none" THEN part ELSE p
Held(p)   == IF fd[p] # "none" THEN data[Target(p)] ELSE <<>>
Unit(p)   == <<url[p], pos[p] + 1>>

(* One more unit. *)
LEMMA Grows ==
  ASSUME IInv, NEW p \in Runs, CurlData(p)
  PROVE  /\ Target(p) \in Inodes /\ Held(p) \in Seq(Units) /\ Unit(p) \in Units
         /\ Append(Held(p), Unit(p)) \in Seq(Units) /\ url[p] \in Images
         /\ data' = [data EXCEPT ![Target(p)] = Append(Held(p), Unit(p))]
         /\ part' = IF fd[p] = "none" THEN Target(p) ELSE part
         /\ fd' = [fd EXCEPT ![p] = Target(p)] /\ pos' = [pos EXCEPT ![p] = pos[p] + 1]
         /\ pos[p] \in Nat /\ pos[p] < N /\ curl[p] = "get"
         /\ UNCHANGED <<pc, rc, url, curl, off, final, mixed>>
  <1>1. Target(p) \in Inodes
    BY DEF IInv, Children, Files, Inodes, Target
  <1>2. Held(p) \in Seq(Units)
    BY <1>1 DEF IInv, Files, Held
  <1>3. pos[p] \in Nat /\ pos[p] < N /\ curl[p] = "get" /\ url[p] \in Images
    BY DEF IInv, Children, Staged, CurlData
  <1>4. pos[p] + 1 \in 1..N
    BY <1>3, DownloadAssumption
  <1>5. Unit(p) \in Units
    BY <1>3, <1>4 DEF Units, Unit
  <1>6. Append(Held(p), Unit(p)) \in Seq(Units)
    BY <1>2, <1>5, AppendProperties
  <1>7. /\ data' = [data EXCEPT ![Target(p)] = Append(Held(p), Unit(p))]
        /\ part' = IF fd[p] = "none" THEN Target(p) ELSE part
        /\ fd' = [fd EXCEPT ![p] = Target(p)] /\ pos' = [pos EXCEPT ![p] = pos[p] + 1]
        /\ UNCHANGED <<pc, rc, url, curl, off, final, mixed>>
    BY DEF CurlData, Set, Target, Held, Unit
  <1>8. QED
    BY <1>1, <1>2, <1>3, <1>5, <1>6, <1>7

(* What a retry leaves of a file. *)
LEMMA Cut ==
  ASSUME NEW s \in Seq(Units), NEW n \in Nat
  PROVE  LET m == IF n < Len(s) THEN n ELSE Len(s)
             t == SubSeq(s, 1, m)
         IN /\ t \in Seq(Units) /\ Len(t) = m /\ \A i \in 1..m : t[i] = s[i]
  <1> DEFINE m == IF n < Len(s) THEN n ELSE Len(s)
  <1>1. Len(s) \in Nat /\ \A i \in 1..Len(s) : s[i] \in Units
    BY LenProperties, ElementOfSeq
  <1>2. m \in Nat /\ m <= Len(s)
    BY <1>1
  <1> HIDE DEF m
  <1>3. \A i \in 1..m : s[i] \in Units
    BY <1>1, <1>2
  <1>4. /\ SubSeq(s, 1, m) \in Seq(Units)
        /\ Len(SubSeq(s, 1, m)) = IF 1 <= m THEN m - 1 + 1 ELSE 0
        /\ \A i \in 1..(m - 1 + 1) : SubSeq(s, 1, m)[i] = s[1 + i - 1]
    BY <1>2, <1>3, SubSeqProperties
  <1>5. Len(SubSeq(s, 1, m)) = m /\ \A i \in 1..m : SubSeq(s, 1, m)[i] = s[i]
    BY <1>2, <1>4
  <1>6. QED
    BY <1>4, <1>5 DEF m

Least(p) == IF off[p] < Len(data[fd[p]]) THEN off[p] ELSE Len(data[fd[p]])
Rest(p)  == SubSeq(data[fd[p]], 1, Least(p))

(* A retry cuts the open file, if there is one. *)
LEMMA Shrinks ==
  ASSUME IInv, NEW p \in Runs, CurlRetry(p), fd[p] # "none"
  PROVE  /\ data' = [data EXCEPT ![fd[p]] = Rest(p)]
         /\ fd[p] \in Inodes /\ data[fd[p]] \in Seq(Units) /\ Rest(p) \in Seq(Units)
         /\ Len(Rest(p)) = Least(p) /\ \A i \in 1..Least(p) : Rest(p)[i] = data[fd[p]][i]
  <1>1. fd[p] \in Inodes /\ off[p] \in Nat /\ data \in [Inodes -> Seq(Units)]
    BY DEF IInv, Children, Files
  <1>2. data[fd[p]] \in Seq(Units)
    BY <1>1
  <1>3. data' = [data EXCEPT ![fd[p]] = Rest(p)]
    BY DEF CurlRetry, Rest, Least
  <1>4. /\ Rest(p) \in Seq(Units) /\ Len(Rest(p)) = Least(p)
        /\ \A i \in 1..Least(p) : Rest(p)[i] = data[fd[p]][i]
    BY <1>1, <1>2, Cut DEF Rest, Least
  <1>5. QED
    BY <1>1, <1>2, <1>3, <1>4

(* The files are made of units. *)
LEMMA StepFiles ==
  ASSUME IInv, NEW p \in Runs, Work(p) \/ Transfer(p) \/ Killed(p)
  PROVE  Files'
  <1>0. Files
    BY DEF IInv
  <1>1. CASE Sessional(p)
    BY <1>0, <1>1, SessionalKeeps DEF Files
  <1>2. CASE Check(p) \/ Fork(p) \/ Reap(p) \/ Rename(p) \/ Killed(p)
    BY <1>0, <1>2 DEF Files, Check, Fork, Reap, Rename, Killed, files
  <1>3. CASE Arm(p) \/ CurlExit(p) \/ CurlBegin(p)
    BY <1>0, <1>3 DEF Files, Arm, CurlExit, CurlBegin, files
  <1>4. CASE CurlData(p)
    BY <1>0, <1>4, Grows DEF Files
  <1>5. CASE CurlRetry(p)
    <2>1. UNCHANGED <<part, final, mixed>>
      BY <1>5 DEF CurlRetry
    <2>2. CASE fd[p] = "none"
      BY <1>0, <1>5, <2>1, <2>2 DEF CurlRetry, Files
    <2>3. CASE fd[p] # "none"
      BY <1>0, <1>5, <2>1, <2>3, Shrinks DEF Files
    <2>4. QED
      BY <2>2, <2>3
  <1>6. QED
    BY <1>1, <1>2, <1>3, <1>4, <1>5 DEF Work, Transfer, Sessional

-----------------------------------------------------------------------------
(* The file half. *)

(* Nothing is put right once downloads have been mixed up. *)
LEMMA MixedStays ==
  ASSUME NEW p \in Runs, Work(p) \/ Transfer(p) \/ Killed(p), ~mixed'
  PROVE  ~mixed
  BY DEF Work, Transfer, Killed, Start, Register, GiveUp, SkuList, SkuRetry, ListLanguages,
     AskLinks, PickLink, Check, Fork, Reap, Rename, Arm, CurlBegin, CurlData, CurlRetry, CurlExit

(* A step that leaves the files alone, and after which its run is no nearer *)
(* to them than before.                                                     *)
Aside(p) ==
  /\ UNCHANGED <<data, part, final>>
  /\ Fetching(p)' => Fetching(p)
  /\ curl'[p] = "get" => /\ curl[p] = "get" /\ url'[p] = url[p] /\ fd'[p] = fd[p]
                         /\ off'[p] = off[p] /\ pos'[p] = pos[p]
  /\ pc'[p] \in {"wait", "rename"} /\ curl'[p] = "ok" =>
       pc[p] \in {"wait", "rename"} /\ curl[p] = "ok" /\ url'[p] = url[p]
  /\ rc'[p] = "ok" => rc[p] = "ok" /\ url'[p] = url[p]

(* Such a step keeps everything. *)
LEMMA AsideKeeps ==
  ASSUME IInv, ~mixed, NEW p \in Runs, Work(p) \/ Transfer(p) \/ Killed(p), Aside(p)
  PROVE  Alone' /\ Writing' /\ Complete' /\ PartIs'
  <1>0. Alone /\ Writing /\ Complete /\ PartIs
    BY DEF IInv, Unmixed
  <1>1. \A q \in Runs \ {p} :
          /\ pc'[q] = pc[q] /\ rc'[q] = rc[q] /\ url'[q] = url[q] /\ curl'[q] = curl[q]
          /\ fd'[q] = fd[q] /\ off'[q] = off[q] /\ pos'[q] = pos[q]
    BY StepControl, StepChildren DEF IInv
  <1>2. \A q \in Runs : Fetching(q)' => Fetching(q)
    BY <1>1 DEF Aside, Fetching
  <1>3. Alone'
    BY <1>0, <1>2 DEF Alone, Aside
  <1>4. Writing'
    BY <1>0, <1>1 DEF Writing, Aside, Beginning, Size
  <1>5. Complete'
    BY <1>0, <1>1 DEF Complete, Aside, Beginning
  <1>6. PartIs'
    BY <1>0 DEF PartIs, Aside, Beginning
  <1>7. QED
    BY <1>3, <1>4, <1>5, <1>6

(* The steps that stay aside. *)
LEMMA StaysAside ==
  ASSUME IInv, NEW p \in Runs,
         \/ Sessional(p) \/ Fork(p) \/ Reap(p) \/ Killed(p) \/ Arm(p)
         \/ (Check(p) \/ Rename(p)) /\ Fail(p) /\ UNCHANGED <<part, final>>
         \/ CurlExit(p) /\ curl'[p] = "bad"
  PROVE  Aside(p)
  <1>0. Control /\ Children /\ Staged
    BY DEF IInv
  <1>1. CASE Sessional(p)
    <2>1. curl[p] = "none" /\ UNCHANGED <<data, part, final, curl>>
      BY <1>0, <1>1, SessionalKeeps DEF Staged, Session
    <2>2. pc'[p] \notin Fetch /\ rc'[p] # "ok"
      BY <1>1, SessionalUrl
    <2>3. QED
      BY <2>1, <2>2 DEF Aside, Fetching, Fetch
  <1>s. pc[p] \notin {"wait", "rename", "end"} => curl[p] = "none" /\ rc[p] = "none"
    BY <1>0 DEF Staged
  <1>2. CASE Fork(p)
    BY <1>0, <1>2, <1>s DEF Fork, Aside, Fetching, Fetch, Control, Children, Go, Fail, Set, files
  <1>3. CASE Reap(p)
    BY <1>0, <1>3 DEF Reap, Aside, Fetching, Fetch, Control, Children, Go, Fail, Set, files, child
  <1>4. CASE Killed(p)
    BY <1>0, <1>4 DEF Killed, Aside, Fetching, Fetch, Control, Children, Set, files
  <1>5. CASE Arm(p)
    BY <1>0, <1>5 DEF Arm, Aside, Fetching, Fetch, Control, Children, Set, files
  <1>6. CASE (Check(p) \/ Rename(p)) /\ Fail(p) /\ UNCHANGED <<part, final>>
    BY <1>0, <1>6 DEF Check, Rename, Aside, Fetching, Fetch, Control, Children, Fail, Set, files, child
  <1>7. CASE CurlExit(p) /\ curl'[p] = "bad"
    BY <1>0, <1>7 DEF CurlExit, Aside, Fetching, Fetch, Control, Children, Set, files
  <1>8. QED
    BY <1>1, <1>2, <1>3, <1>4, <1>5, <1>6, <1>7

(* The look at the directory: nobody else is at it. *)
LEMMA CheckKeeps ==
  ASSUME IInv, ~mixed, ~mixed', NEW p \in Runs, Check(p)
  PROVE  Alone' /\ Writing' /\ Complete' /\ PartIs'
  <1>1. CASE Fail(p) /\ UNCHANGED <<part, final>>
    BY <1>1, StaysAside, AsideKeeps DEF Work
  <1>2. CASE final = "none" /\ Go(p, "fork") /\ ~\E q \in Runs \ {p} : Fetching(q)
    <2>0. Writing /\ Complete /\ PartIs /\ Control
      BY DEF IInv, Unmixed
    <2>1. UNCHANGED <<url, curl, fd, off, pos, data, part, final, rc>>
      BY <1>2 DEF Check, child, files, Go
    <2>2. pc' = [pc EXCEPT ![p] = "fork"]
      BY <1>2 DEF Go, Set
    <2>3. \A q \in Runs \ {p} : ~Fetching(q)'
      BY <1>2, <2>0, <2>1, <2>2 DEF Fetching, Control
    <2>4. Alone'
      BY <1>2, <2>1, <2>3 DEF Alone
    <2>5. Writing'
      BY <2>0, <2>1 DEF Writing, Beginning, Size
    <2>6. Complete'
      BY <2>0, <2>1, <2>2 DEF Complete, Beginning, Control
    <2>7. PartIs'
      BY <2>0, <2>1 DEF PartIs, Beginning
    <2>8. QED
      BY <2>4, <2>5, <2>6, <2>7
  <1>3. QED
    BY <1>1, <1>2 DEF Check, files

(* A run that is at the files is there alone, and without an image. *)
LEMMA OnlyOne ==
  ASSUME IInv, ~mixed, NEW p \in Runs, Fetching(p)
  PROVE  /\ final = "none" /\ \A q \in Runs : rc[q] # "ok"
         /\ \A q \in Runs \ {p} : pc[q] \notin Fetch /\ curl[q] \notin {"young", "armed", "get"}
  BY DEF IInv, Unmixed, Alone, Complete, Fetching

(* A step of the only one: what has to be seen of it. *)
LEMMA OnlyStep ==
  ASSUME IInv, ~mixed, NEW p \in Runs, Fetching(p), Transfer(p)
  PROVE  /\ \A q \in Runs \ {p} : ~Fetching(q)' /\ curl'[q] # "get" /\ pc'[q] \notin {"wait", "rename"}
         /\ \A q \in Runs : rc'[q] # "ok"
         /\ Alone'
  <1>1. \A q \in Runs \ {p} : pc'[q] = pc[q] /\ curl'[q] = curl[q]
    BY StepControl, StepChildren DEF IInv
  <1>2. UNCHANGED <<rc, final>>
    BY DEF Transfer, Arm, CurlBegin, CurlData, CurlRetry, CurlExit, files
  <1>3. /\ final = "none" /\ \A q \in Runs : rc[q] # "ok"
        /\ \A q \in Runs \ {p} : pc[q] \notin Fetch /\ curl[q] \notin {"young", "armed", "get"}
    BY OnlyOne
  <1>4. \A q \in Runs \ {p} : ~Fetching(q)'
    BY <1>1, <1>3 DEF Fetching
  <1>5. QED
    BY <1>1, <1>2, <1>3, <1>4 DEF Alone, Fetch

(* curl exits. *)
LEMMA ExitKeeps ==
  ASSUME IInv, ~mixed, NEW p \in Runs, CurlExit(p)
  PROVE  Alone' /\ Writing' /\ Complete' /\ PartIs'
  <1>0. Control /\ Children /\ Files /\ Writing /\ PartIs
    BY DEF IInv, Unmixed
  <1>1. CASE curl'[p] = "bad"
    BY <1>1, StaysAside, AsideKeeps DEF Transfer
  <1>2. CASE curl'[p] = "ok" /\ curl[p] = "get" /\ pos[p] >= N
    <2>1. Fetching(p) /\ Transfer(p)
      BY <1>2 DEF Fetching, Transfer
    <2>2. UNCHANGED <<pc, rc, url, fd, off, pos, data, part, final>>
      BY DEF CurlExit, files
    <2>3. /\ \A q \in Runs \ {p} : curl'[q] # "get" /\ pc'[q] \notin {"wait", "rename"}
          /\ \A q \in Runs : rc'[q] # "ok"
          /\ Alone'
      BY <2>1, OnlyStep
    <2>4. pos[p] # 0
      BY <1>2, DownloadAssumption
    <2>5. part # "none" /\ Beginning(part, url[p]) /\ pos[p] = Len(data[part])
      BY <1>0, <1>2, <2>4 DEF Writing
    <2>6. Len(data[part]) \in Nat
      BY <1>0, <2>5, LenProperties DEF Files
    <2>7. Len(data[part]) = N
      BY <1>2, <2>5, <2>6, DownloadAssumption DEF Beginning
    <2>8. Writing'
      BY <1>2, <2>3 DEF Writing
    <2>9. Complete'
      BY <2>2, <2>3, <2>5, <2>7 DEF Complete, Beginning
    <2>10. PartIs'
      BY <1>0, <2>2 DEF PartIs, Beginning
    <2>11. QED
      BY <2>3, <2>8, <2>9, <2>10
  <1>3. QED
    BY <1>0, <1>1, <1>2 DEF CurlExit, Set, Children

(* curl starts where the .part of its own image ends. *)
LEMMA BeginKeeps ==
  ASSUME IInv, ~mixed, ~mixed', NEW p \in Runs, CurlBegin(p)
  PROVE  Alone' /\ Writing' /\ Complete' /\ PartIs'
  <1>0. Control /\ Children /\ Files /\ PartIs
    BY DEF IInv, Unmixed
  <1>1. Fetching(p) /\ Transfer(p)
    BY DEF Fetching, Transfer, CurlBegin
  <1>2. UNCHANGED <<pc, rc, url, data, part, final>>
    BY DEF CurlBegin, files
  <1>3. /\ \A q \in Runs \ {p} : curl'[q] # "get" /\ pc'[q] \notin {"wait", "rename"}
        /\ \A q \in Runs : rc'[q] # "ok"
        /\ Alone'
    BY <1>1, OnlyStep
  <1>4. /\ off'[p] = Size(part) /\ pos'[p] = Size(part) /\ curl'[p] = "get"
        /\ fd'[p] = IF Size(part) > 0 THEN part ELSE "none"
        /\ \A n \in 1..Size(part) : data[part][n][1] = url[p]
    BY <1>0 DEF CurlBegin, Set, Children
  <1>5. Size(part) \in Nat /\ (Size(part) > 0 => part \in Inodes)
    BY <1>0, SizeIs
  <1>n. "none" \notin Inodes
    BY DownloadAssumption DEF Inodes
  <1>6. ASSUME Size(part) > 0 PROVE Writing'
    <2>1. part # "none" /\ Size(part) = Len(data[part])
      BY <1>5, <1>6, <1>n DEF Size
    <2>2. PICK i \in Images : Beginning(part, i)
      BY <1>0, <2>1 DEF PartIs
    <2>3. 1 \in 1..Len(data[part])
      BY <1>5, <1>6, <2>1
    <2>4. i = url[p]
      BY <1>4, <2>1, <2>2, <2>3 DEF Beginning
    <2>5. Beginning(part, url[p])'
      BY <1>2, <2>2, <2>4 DEF Beginning
    <2>6. QED
      BY <1>2, <1>3, <1>4, <1>5, <1>6, <2>1, <2>5 DEF Writing
  <1>7. ASSUME Size(part) = 0 PROVE Writing'
    BY <1>2, <1>3, <1>4, <1>7 DEF Writing, Size
  <1>8. Complete'
    BY <1>3, <1>4 DEF Complete
  <1>9. PartIs'
    BY <1>0, <1>2 DEF PartIs, Beginning
  <1>10. QED
    BY <1>3, <1>5, <1>6, <1>7, <1>8, <1>9

(* A unit more of the right image, at the right place. *)
LEMMA DataKeeps ==
  ASSUME IInv, ~mixed, NEW p \in Runs, CurlData(p)
  PROVE  Alone' /\ Writing' /\ Complete' /\ PartIs'
  <1>0. Control /\ Children /\ Files /\ Writing
    BY DEF IInv, Unmixed
  <1>1. curl[p] = "get" /\ Fetching(p) /\ Transfer(p)
    BY DEF Fetching, Transfer, CurlData
  <1>2. /\ \A q \in Runs \ {p} : curl'[q] # "get" /\ pc'[q] \notin {"wait", "rename"}
        /\ \A q \in Runs : rc'[q] # "ok"
        /\ Alone'
    BY <1>1, OnlyStep
  <1>3. /\ Target(p) \in Inodes /\ Held(p) \in Seq(Units) /\ Unit(p) \in Units
        /\ url[p] \in Images
        /\ data' = [data EXCEPT ![Target(p)] = Append(Held(p), Unit(p))]
        /\ part' = IF fd[p] = "none" THEN Target(p) ELSE part
        /\ fd' = [fd EXCEPT ![p] = Target(p)] /\ pos' = [pos EXCEPT ![p] = pos[p] + 1]
        /\ pos[p] \in Nat /\ pos[p] < N
        /\ UNCHANGED <<url, curl, off>>
    BY Grows
  <1>n. "none" \notin Inodes
    BY DownloadAssumption DEF Inodes
  <1>4. /\ Len(Held(p)) = pos[p] /\ off[p] <= pos[p] /\ part' = Target(p)
        /\ \A n \in 1..pos[p] : Held(p)[n] = <<url[p], n>>
    <2>1. CASE fd[p] = "none"
      <3>1. off[p] = 0 /\ pos[p] = 0
        BY <1>0, <1>1, <2>1 DEF Writing
      <3>2. Held(p) = <<>> /\ part' = Target(p)
        BY <1>3, <2>1 DEF Held
      <3>3. QED
        BY <3>1, <3>2
    <2>2. CASE fd[p] # "none"
      <3>1. /\ fd[p] = part /\ Beginning(part, url[p])
            /\ pos[p] = Len(data[part]) /\ off[p] <= pos[p]
        BY <1>0, <1>1, <2>2 DEF Writing
      <3>2. Held(p) = data[part] /\ Target(p) = part /\ part' = part
        BY <1>3, <2>2, <3>1 DEF Held, Target
      <3>3. QED
        BY <3>1, <3>2 DEF Beginning
    <2>3. QED
      BY <2>1, <2>2
  <1> DEFINE new == data'[Target(p)]
  <1>5. /\ new = Append(Held(p), Unit(p))
        /\ Len(new) = pos[p] + 1
        /\ \A n \in 1..pos[p] : new[n] = Held(p)[n]
        /\ new[pos[p] + 1] = Unit(p)
    <2>1. new = Append(Held(p), Unit(p))
      BY <1>0, <1>3 DEF Files
    <2>2. /\ Len(Append(Held(p), Unit(p))) = Len(Held(p)) + 1
          /\ \A n \in 1..Len(Held(p)) : Append(Held(p), Unit(p))[n] = Held(p)[n]
          /\ Append(Held(p), Unit(p))[Len(Held(p)) + 1] = Unit(p)
      BY <1>3, AppendProperties
    <2>3. QED
      BY <1>4, <2>1, <2>2
  <1>6. Beginning(part, url[p])'
    <2>1. Len(new) <= N
      BY <1>3, <1>5, DownloadAssumption
    <2>2. ASSUME NEW n \in 1..Len(new) PROVE new[n] = <<url[p], n>>
      <3>1. n \in 1..pos[p] \/ n = pos[p] + 1
        BY <1>3, <1>5
      <3>2. QED
        BY <1>4, <1>5, <3>1 DEF Unit
    <2>3. QED
      BY <1>3, <1>4, <2>1, <2>2 DEF Beginning
  <1>7. Writing'
    <2>1. /\ fd'[p] = part' /\ part' # "none" /\ pos'[p] = pos[p] + 1 /\ off'[p] = off[p]
          /\ off[p] \in Nat /\ Len(data'[part']) = pos[p] + 1
      BY <1>0, <1>3, <1>4, <1>5, <1>n DEF Children
    <2>2. off'[p] <= pos'[p]
      BY <1>3, <1>4, <2>1
    <2>3. QED
      BY <1>2, <1>6, <2>1, <2>2 DEF Writing
  <1>8. Complete'
    BY <1>1, <1>2, <1>3 DEF Complete
  <1>9. PartIs'
    BY <1>3, <1>6 DEF PartIs
  <1>10. QED
    BY <1>2, <1>7, <1>8, <1>9

(* A retry goes back to where the attempt began. *)
LEMMA RetryKeeps ==
  ASSUME IInv, ~mixed, NEW p \in Runs, CurlRetry(p)
  PROVE  Alone' /\ Writing' /\ Complete' /\ PartIs'
  <1>0. Control /\ Children /\ Files /\ Writing /\ PartIs
    BY DEF IInv, Unmixed
  <1>1. curl[p] = "get" /\ Fetching(p) /\ Transfer(p)
    BY DEF Fetching, Transfer, CurlRetry
  <1>2. /\ \A q \in Runs \ {p} : curl'[q] # "get" /\ pc'[q] \notin {"wait", "rename"}
        /\ \A q \in Runs : rc'[q] # "ok"
        /\ Alone'
    BY <1>1, OnlyStep
  <1>3. /\ UNCHANGED <<url, curl, fd, off, part>> /\ pos'[p] = off[p]
    BY <1>0 DEF CurlRetry, Set, Children
  <1>4. Complete'
    BY <1>1, <1>2, <1>3 DEF Complete
  <1>5. CASE fd[p] = "none"
    <2>1. off[p] = 0 /\ Size(part) = 0 /\ data' = data
      BY <1>0, <1>1, <1>5 DEF Writing, CurlRetry
    <2>2. Writing'
      BY <1>2, <1>3, <1>5, <2>1 DEF Writing, Size
    <2>3. PartIs'
      BY <1>0, <1>3, <2>1 DEF PartIs, Beginning
    <2>4. QED
      BY <1>2, <1>4, <2>2, <2>3
  <1>6. CASE fd[p] # "none"
    <2>1. /\ fd[p] = part /\ part # "none" /\ Beginning(part, url[p])
          /\ pos[p] = Len(data[part]) /\ off[p] <= pos[p] /\ off[p] \in Nat /\ pos[p] \in Nat
      BY <1>0, <1>1, <1>6 DEF Writing, Children
    <2>2. Least(p) = off[p]
      BY <2>1 DEF Least
    <2>3. /\ data'[part] = Rest(p) /\ Len(Rest(p)) = off[p]
          /\ \A i \in 1..off[p] : Rest(p)[i] = data[part][i]
      <3>1. data' = [data EXCEPT ![part] = Rest(p)] /\ part \in Inodes
        BY <1>6, <2>1, Shrinks
      <3>2. QED
        BY <1>0, <1>6, <2>1, <2>2, <3>1, Shrinks DEF Files
    <2>4. Beginning(part, url[p])'
      <3>1. off[p] <= N /\ \A i \in 1..off[p] : data[part][i] = <<url[p], i>>
        BY <2>1, DownloadAssumption DEF Beginning
      <3>2. QED
        BY <1>3, <2>3, <3>1 DEF Beginning
    <2>5. Writing'
      <3>1. pos'[p] = Len(data'[part']) /\ off'[p] <= pos'[p]
        BY <1>3, <2>1, <2>3
      <3>2. QED
        BY <1>2, <1>3, <2>1, <2>4, <3>1 DEF Writing
    <2>6. PartIs'
      <3>1. url'[p] \in Images
        BY <1>1, <1>3 DEF IInv, Staged
      <3>2. QED
        BY <2>4, <3>1 DEF PartIs
    <2>7. QED
      BY <1>2, <1>4, <2>5, <2>6
  <1>7. QED
    BY <1>5, <1>6

(* The image gets its name. *)
LEMMA RenameKeeps ==
  ASSUME IInv, ~mixed, NEW p \in Runs, Rename(p)
  PROVE  Alone' /\ Writing' /\ Complete' /\ PartIs'
  <1>0. Control /\ Staged /\ Complete
    BY DEF IInv, Unmixed
  <1>1. CASE Fail(p) /\ UNCHANGED <<part, final>>
    BY <1>1, StaysAside, AsideKeeps DEF Work
  <1>2. CASE /\ part # "none" /\ final' = part /\ part' = "none"
             /\ Set(pc, p, "end") /\ Set(rc, p, "ok")
    <2>1. /\ UNCHANGED <<url, curl, data>> /\ pc[p] = "rename" /\ Fetching(p)
          /\ pc' = [pc EXCEPT ![p] = "end"] /\ rc' = [rc EXCEPT ![p] = "ok"]
      BY <1>2 DEF Rename, child, Fetching, Fetch, Set
    <2>2. curl[p] = "ok" /\ Len(data[part]) = N /\ Beginning(part, url[p])
      BY <1>0, <2>1 DEF Staged, Complete
    <2>3. /\ \A q \in Runs : rc[q] # "ok"
          /\ \A q \in Runs \ {p} : pc[q] \notin Fetch /\ curl[q] \notin {"young", "armed", "get"}
      BY <2>1, OnlyOne
    <2>4. /\ pc'[p] = "end" /\ \A q \in Runs \ {p} : pc'[q] = pc[q] /\ rc'[q] # "ok"
      BY <1>0, <2>1, <2>3 DEF Control
    <2>5. \A q \in Runs : pc'[q] \notin Fetch /\ curl'[q] \notin {"young", "armed", "get"}
      BY <2>1, <2>2, <2>3, <2>4 DEF Fetch
    <2>6. Alone'
      BY <2>5 DEF Alone, Fetching
    <2>7. Writing'
      BY <2>5 DEF Writing
    <2>8. Complete'
      BY <1>2, <2>1, <2>2, <2>4, <2>5 DEF Complete, Beginning, Fetch
    <2>9. PartIs'
      BY <1>2 DEF PartIs
    <2>10. QED
      BY <2>6, <2>7, <2>8, <2>9
  <1>3. QED
    BY <1>1, <1>2 DEF Rename

-----------------------------------------------------------------------------
(* The theorems. *)

(* Every state the runs can reach together satisfies the invariant. *)
THEOREM Invariance == Spec => []IInv
  <1>1. Init => IInv
    <2> SUFFICES ASSUME Init PROVE IInv
      OBVIOUS
    <2>0. <<>> \in Seq(SkuRefs) /\ <<>> \in Seq(Images) /\ <<>> \in Seq(Units)
          /\ Len(<<>>) = 0 /\ DOMAIN <<>> = {} /\ IsFiniteSet({})
      BY FS_EmptySet
    <2>1. Control
      BY DEF Init, Control, Labels, Session, Fetch, JobType
    <2>2. Sessions
      <3>1. 0 \in 0..Attempts
        BY DownloadAssumption
      <3>2. QED
        BY <2>0, <3>1 DEF Init, Sessions
    <2>3. Children
      <3>1. 0 \in 0..MaxRetry
        BY DownloadAssumption
      <3>2. QED
        BY <3>1 DEF Init, Children
    <2>4. Files
      BY <2>0 DEF Init, Files
    <2>5. Registered
      BY <2>0, DownloadAssumption DEF Init, Registered, MaxRefs
    <2>6. Staged
      BY DEF Init, Staged, Fetch
    <2>7. Unmixed
      BY DEF Init, Unmixed, Alone, Writing, Complete, PartIs, Fetching, Fetch
    <2>8. QED
      BY <2>1, <2>2, <2>3, <2>4, <2>5, <2>6, <2>7 DEF IInv
  <1>2. IInv /\ [Next]_vars => IInv'
    <2> SUFFICES ASSUME IInv, [Next]_vars PROVE IInv'
      OBVIOUS
    <2>1. ASSUME NEW p \in Runs, Work(p) \/ Transfer(p) \/ Killed(p) PROVE IInv'
      <3>1. Control' /\ Children' /\ Files' /\ Staged'
        BY <2>1, StepControl, StepChildren, StepFiles, StepStaged DEF IInv
      <3>2. Sessions' /\ Registered'
        BY <2>1, FetchSessions, WorkSessions DEF Work
      <3>3. ASSUME ~mixed' PROVE Alone' /\ Writing' /\ Complete' /\ PartIs'
        <4>1. ~mixed
          BY <2>1, <3>3, MixedStays
        <4>2. CASE Sessional(p) \/ Fork(p) \/ Reap(p) \/ Killed(p) \/ Arm(p)
          BY <2>1, <4>1, <4>2, StaysAside, AsideKeeps
        <4>3. CASE Check(p) \/ Rename(p)
          BY <3>3, <4>1, <4>3, CheckKeeps, RenameKeeps
        <4>4. CASE CurlBegin(p) \/ CurlData(p) \/ CurlRetry(p) \/ CurlExit(p)
          BY <3>3, <4>1, <4>4, BeginKeeps, DataKeeps, RetryKeeps, ExitKeeps
        <4>5. QED
          BY <2>1, <4>2, <4>3, <4>4 DEF Work, Transfer, Sessional
      <3>4. QED
        BY <3>1, <3>2, <3>3 DEF IInv, Unmixed
    <2>2. CASE UNCHANGED vars
      <3>1. UNCHANGED <<pc, rc, job, sess, attempt, known, others, refs, asked, links, url,
                        curl, fd, off, pos, retries, data, part, final, mixed>>
        BY <2>2 DEF vars, session, child, files
      <3>2. Control' /\ Sessions' /\ Children' /\ Files'
        BY <3>1 DEF IInv, Control, Sessions, Children, Files
      <3>3. Registered' /\ Staged'
        BY <3>1 DEF IInv, Registered, Staged
      <3>4. Unmixed'
        BY <3>1 DEF IInv, Unmixed, Alone, Writing, Complete, PartIs, Fetching, Beginning, Size
      <3>5. QED
        BY <3>2, <3>3, <3>4 DEF IInv
    <2>3. QED
      BY <2>1, <2>2 DEF Next, Finished
  <1>3. QED
    BY <1>1, <1>2, PTL DEF Spec

(* What is in a sequence is of its type. *)
LEMMA RangeIs ==
  ASSUME NEW S, NEW s \in Seq(S)
  PROVE  Range(s) \subseteq S
  <1>1. DOMAIN s = 1..Len(s) /\ \A n \in 1..Len(s) : s[n] \in S
    BY LenProperties, ElementOfSeq
  <1>2. QED
    BY <1>1 DEF Range

(* Attempts, retries, references and links stay within their limits, for    *)
(* whatever limits (msdl.c:164-173, 229, 382).                              *)
THEOREM TypeCorrect == Spec => []TypeOK
  <1>1. IInv => TypeOK
    <2> SUFFICES ASSUME IInv PROVE TypeOK
      OBVIOUS
    <2>1. \A p \in Runs : /\ Len(refs[p]) <= MaxRefs /\ Range(refs[p]) \subseteq SkuRefs
                          /\ asked[p] \subseteq Range(refs[p])
                          /\ Len(links[p]) <= MaxLinks /\ Range(links[p]) \subseteq Images
      BY RangeIs DEF IInv, Sessions, Registered
    <2>2. \A f \in Inodes : Range(data[f]) \subseteq Images \X (1..N)
      BY RangeIs DEF IInv, Files, Units
    <2>3. QED
      BY <2>1, <2>2 DEF IInv, TypeOK, Control, Sessions, Children, Files
  <1>2. QED
    BY <1>1, Invariance, PTL

(* Links are asked for only in a registered session, and with a SKU of its  *)
(* own product, for any number of runs and attempts (msdl.c:164-203,        *)
(* 217-248, 325-332).                                                       *)
THEOREM SessionsMatch == Spec => []SessionMatches
  <1>1. IInv => SessionMatches
    BY DEF IInv, Registered, SessionMatches, Range
  <1>2. QED
    BY <1>1, Invariance, PTL

(* A run that reports success has left the whole of the right image, for    *)
(* images of any length and any number of runs, kills and retries           *)
(* (msdl.c:367-424).                                                        *)
THEOREM SuccessIsImage == Spec => []FetchedIsImage
  <1>1. IInv => FetchedIsImage
    <2> SUFFICES ASSUME IInv, NEW p \in Runs, rc[p] = "ok", ~mixed
                 PROVE  /\ final # "none" /\ data[final] = Whole(url[p])
                        /\ job[p].want # "any" => Arch[url[p]] = job[p].want
      BY DEF FetchedIsImage
    <2>1. final # "none" /\ Len(data[final]) = N /\ Beginning(final, url[p])
      BY DEF IInv, Unmixed, Complete
    <2>2. data[final] \in Seq(Units) /\ N \in Nat
      BY <2>1, DownloadAssumption DEF IInv, Files
    <2>3. data[final] \in [1..N -> Units]
      BY <2>1, <2>2, LenProperties
    <2>4. \A n \in 1..N : data[final][n] = <<url[p], n>>
      BY <2>1, <2>2 DEF Beginning
    <2>5. data[final] = Whole(url[p])
      BY <2>3, <2>4 DEF Whole
    <2>6. job[p].want # "any" => Arch[url[p]] = job[p].want
      BY DEF IInv, Staged
    <2>7. QED
      BY <2>1, <2>5, <2>6
  <1>2. QED
    BY <1>1, Invariance, PTL

(* What a step may do to the files, while downloads are not mixed up: one   *)
(* that touches them is of a run that is at them, so that there is no image *)
(* yet.                                                                     *)
LEMMA Touches ==
  ASSUME IInv, NEW p \in Runs, Work(p) \/ Transfer(p) \/ Killed(p), ~mixed'
  PROVE  \/ UNCHANGED <<data, part, final>>
         \/ final = "none" /\ (CurlData(p) \/ CurlRetry(p) \/ (Rename(p) /\ final' = part))
  <1>0. ~mixed
    BY MixedStays
  <1>1. CASE Sessional(p)
    BY <1>1, SessionalKeeps
  <1>2. CASE \/ Check(p) \/ Fork(p) \/ Reap(p) \/ Killed(p)
             \/ Arm(p) \/ CurlBegin(p) \/ CurlExit(p)
    BY <1>2 DEF Check, Fork, Reap, Killed, Arm, CurlBegin, CurlExit, files
  <1>3. CASE CurlData(p) \/ CurlRetry(p)
    <2>1. Fetching(p)
      BY <1>3 DEF Fetching, CurlData, CurlRetry
    <2>2. QED
      BY <1>0, <1>3, <2>1, OnlyOne
  <1>4. CASE Rename(p)
    <2>1. Fetching(p)
      BY <1>4 DEF Fetching, Fetch, Rename
    <2>2. QED
      BY <1>0, <1>4, <2>1, OnlyOne DEF Rename
  <1>5. QED
    BY <1>1, <1>2, <1>3, <1>4 DEF Work, Transfer, Sessional

(* No step replaces or writes to an image that is there, unless downloads   *)
(* overlapped: neither a second run nor a curl that outlived its own        *)
(* (msdl.c:381).                                                            *)
THEOREM ExistingIsKept == Spec => ExistingKept
  <1> DEFINE A == (final # "none" /\ ~mixed') => final' = final /\ data'[final] = data[final]
  <1>1. IInv /\ [Next]_vars => [A]_vars
    <2> SUFFICES ASSUME IInv, Next, final # "none", ~mixed'
                 PROVE  final' = final /\ data'[final] = data[final]
      OBVIOUS
    <2>1. ASSUME NEW p \in Runs, Work(p) \/ Transfer(p) \/ Killed(p)
          PROVE  final' = final /\ data'[final] = data[final]
      BY <2>1, Touches
    <2>2. CASE Finished
      BY <2>2 DEF Finished, vars, files
    <2>3. QED
      BY <2>1, <2>2 DEF Next
  <1>2. QED
    BY <1>1, Invariance, PTL DEF Spec, ExistingKept

(* A .part is never lost: it becomes the image, or it stays and gets        *)
(* shorter only by what the attempt that is retried had added to it         *)
(* (msdl.c:417).                                                            *)
THEOREM PartIsResumable == Spec => Resumable
  <1> DEFINE Kept == \/ final' = part
                     \/ /\ part' = part
                        /\ \/ Len(data'[part]) >= Len(data[part])
                           \/ \E p \in Runs : retries'[p] # retries[p] /\ Len(data'[part]) >= off[p]
             A == (part # "none" /\ ~mixed') =>
                    \/ final' = part
                    \/ /\ part' = part
                       /\ \/ Len(data'[part]) >= Len(data[part])
                          \/ \E p \in Runs : retries'[p] # retries[p] /\ Len(data'[part]) >= off[p]
  <1>1. IInv /\ [Next]_vars => [A]_vars
    <2> SUFFICES ASSUME IInv, Next, part # "none", ~mixed' PROVE Kept
      OBVIOUS
    <2>0. data[part] \in Seq(Units) /\ part \in Inodes /\ Len(data[part]) \in Nat
      BY LenProperties DEF IInv, Files
    <2>1. ASSUME NEW p \in Runs, Work(p) \/ Transfer(p) \/ Killed(p) PROVE Kept
      <3>0. ~mixed
        BY <2>1, MixedStays
      <3>1. CASE UNCHANGED <<data, part, final>>
        BY <2>0, <3>1
      <3>2. CASE Rename(p) /\ final' = part
        BY <3>2
      <3>3. CASE CurlData(p)
        <4>1. /\ Held(p) \in Seq(Units) /\ Unit(p) \in Units
              /\ data' = [data EXCEPT ![Target(p)] = Append(Held(p), Unit(p))]
              /\ part' = (IF fd[p] = "none" THEN Target(p) ELSE part) /\ curl[p] = "get"
          BY <3>3, Grows
        <4>2. Len(Append(Held(p), Unit(p))) = Len(Held(p)) + 1 /\ Len(Held(p)) \in Nat
          BY <4>1, AppendProperties, LenProperties
        <4>3. CASE fd[p] = "none"
          <5>1. Len(data[part]) = 0 /\ Target(p) = part
            BY <3>0, <4>1, <4>3 DEF IInv, Unmixed, Writing, Size, Target
          <5>2. part' = part /\ data'[part] = Append(Held(p), Unit(p))
            BY <2>0, <4>1, <4>3, <5>1 DEF IInv, Files
          <5>3. QED
            BY <4>2, <5>1, <5>2
        <4>4. CASE fd[p] # "none"
          <5>1. fd[p] = part
            BY <3>0, <4>1, <4>4 DEF IInv, Unmixed, Writing
          <5>2. Target(p) = part /\ Held(p) = data[part]
            BY <4>4, <5>1 DEF Target, Held
          <5>3. part' = part /\ data'[part] = Append(Held(p), Unit(p))
            BY <2>0, <4>1, <4>4, <5>2 DEF IInv, Files
          <5>4. QED
            BY <4>2, <5>2, <5>3
        <4>5. QED
          BY <4>3, <4>4
      <3>4. CASE CurlRetry(p)
        <4>1. /\ part' = part /\ retries'[p] = retries[p] + 1 /\ retries[p] \in Nat
              /\ curl[p] = "get"
          BY <3>4, DownloadAssumption DEF CurlRetry, IInv, Children, Set
        <4>2. CASE fd[p] = "none"
          BY <2>0, <3>4, <4>1, <4>2 DEF CurlRetry
        <4>3. CASE fd[p] # "none"
          <5>1. fd[p] = part /\ off[p] <= Len(data[part]) /\ off[p] \in Nat
            BY <3>0, <4>1, <4>3 DEF IInv, Unmixed, Writing, Children
          <5>2. Least(p) = off[p]
            BY <2>0, <5>1 DEF Least
          <5>3. data' = [data EXCEPT ![part] = Rest(p)] /\ Len(Rest(p)) = off[p]
            BY <3>4, <4>3, <5>1, <5>2, Shrinks
          <5>4. Len(data'[part]) = off[p]
            BY <2>0, <5>3 DEF IInv, Files
          <5>5. retries'[p] # retries[p] /\ Len(data'[part]) >= off[p]
            BY <4>1, <5>1, <5>4
          <5>6. QED
            BY <4>1, <5>5
        <4>4. QED
          BY <4>2, <4>3
      <3>5. QED
        BY <2>1, <3>1, <3>2, <3>3, <3>4, Touches
    <2>2. CASE Finished
      BY <2>0, <2>2 DEF Finished, vars, files
    <2>3. QED
      BY <2>1, <2>2 DEF Next
  <1>2. QED
    BY <1>1, Invariance, PTL DEF Spec, Resumable
=============================================================================
