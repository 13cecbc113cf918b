------------------------------ MODULE Download ------------------------------
(***************************************************************************)
(* "rufux download-windows" (src/linux/msdl.c, main.c).  A run registers   *)
(* one session per product id with Microsoft's service, asks in each       *)
(* session for the SKUs of the edition, asks for download links with the   *)
(* SKUs of one language, and leaves the transfer to a curl child that      *)
(* resumes "<name>.part" and is renamed to "<name>" in the end.            *)
(*                                                                         *)
(* Each run is a process of its own.  Runs share the two names in the      *)
(* output directory and nothing else; a run may be killed at any moment,   *)
(* and curl may outlive it.                                                *)
(***************************************************************************)
EXTENDS Integers, Sequences, FiniteSets, Functions

CONSTANTS
  Runs,       \* the runs that may be started, together or one after another
  Jobs,       \* what a run may be asked for: the number of products, the architecture,
              \* and the image itself, its link (--url-only) or the languages (--list-langs)
  Images,     \* the images the links lead to; all of them have the same file name
  Arch,       \* the architecture of each image
  N,          \* the number of units in an image
  MaxLinks,   \* places for links in main: 4; fewer as a bound
  PerReply,   \* bound: links in one reply of the service
  Attempts,   \* how often the SKU list is asked for in a session: 3
  MaxRetry    \* how often curl starts again after a transient error: 3

JobType == [ids : 1..2, want : {"any", "x64", "ARM64"}, goal : {"iso", "url", "langs"}]

ASSUME DownloadAssumption ==
  /\ Jobs \subseteq JobType
  /\ N \in Nat \ {0} /\ MaxLinks \in 1..4 /\ PerReply \in Nat
  /\ Attempts \in Nat \ {0} /\ MaxRetry \in Nat
  /\ Arch \in [Images -> {"x64", "ARM64"}]
  /\ "old" \notin Runs /\ "none" \notin Runs

VARIABLES
  pc, rc,     \* of each run; rc is "none" while it lasts
  job,        \* what a run was asked for
  sess,       \* the session it is working on (h->nsess)
  attempt,    \* SKU queries made in this session
  known,      \* sessions the service has been shown all three registration requests of
  others,     \* h->nlangs counts a language other than the one wanted
  refs,       \* the wanted language's SkuRefs: the session, and the SKU with its product
  asked,      \* SkuRefs the service was asked for links with
  links,      \* the links it answered with
  url,        \* the image the chosen link leads to
  curl,       \* the child: "none", "young" (no death signal yet), "armed", "get", "ok", "bad"
  fd,         \* the file it has open
  off, pos,   \* where it resumed, and how far it has come
  retries,
  data,       \* the content of each file: image and number of every unit
  part, final,\* the files the two names lead to
  mixed       \* history: two downloads overlapped, or a .part of another image was resumed

session == <<sess, attempt, known, others, refs, asked, links>>
child   == <<curl, fd, off, pos, retries>>
files   == <<data, part, final>>
vars    == <<pc, rc, job, session, url, child, files, mixed>>

Inodes == Runs \cup {"old"}
MaxRefs  == 2     \* SkuRef d[2]

Whole(i) == [n \in 1..N |-> <<i, n>>]
Size(f)  == IF f = "none" THEN 0 ELSE Len(data[f])

(* A SKU belongs to the product it was listed for; a product may list two   *)
(* for one language.                                                        *)
Sku(s, k) == [product |-> s, n |-> k]
SkuRefs   == [sess : 1..2, sku : [product : 1..2, n : 1..2]]

Session == {"tags", "mdt", "ovdf", "skus", "links"}
Fetch   == {"fork", "wait", "rename"}
Labels  == {"idle", "end"} \cup Session \cup {"fetch"} \cup Fetch

-----------------------------------------------------------------------------
Set(f, p, v) == f' = [f EXCEPT ![p] = v]
Go(p, l)     == Set(pc, p, l) /\ UNCHANGED rc
Fail(p)      == Set(pc, p, "end") /\ Set(rc, p, "failed")

(* rufux_msdl_open up to the first request. *)
Start(p) ==
  /\ pc[p] = "idle"
  /\ \E j \in Jobs : Set(job, p, j)
  /\ Go(p, "tags") /\ Set(sess, p, 1)
  /\ UNCHANGED <<attempt, known, others, refs, asked, links, url, child, files, mixed>>

(* The three requests that make a session known; each may fail, and mdt.js  *)
(* may hold no token.                                                       *)
Register(p, l, next) ==
  /\ pc[p] = l
  /\ Go(p, next)
  /\ IF l = "ovdf" THEN Set(known, p, known[p] \cup {sess[p]}) ELSE UNCHANGED known
  /\ UNCHANGED <<job, sess, attempt, others, refs, asked, links, url, child, files, mixed>>

(* rufux_msdl_close: the handle is gone, and with it the sessions and the   *)
(* list; so is the cookie file, which nothing else reads.                   *)
Close(p) ==
  /\ Set(sess, p, 1) /\ Set(attempt, p, 0) /\ Set(known, p, {}) /\ Set(others, p, FALSE)
  /\ Set(refs, p, <<>>) /\ Set(asked, p, {}) /\ Set(links, p, <<>>)

(* Any failed request, a reply to the link query that cannot be used, the   *)
(* ban, a language that is not on the list: rufux_msdl_close, and out.      *)
GiveUp(p) ==
  /\ pc[p] \in Session
  /\ Fail(p) /\ Close(p)
  /\ UNCHANGED <<job, url, child, files, mixed>>

\* Mutant: all SKUs are taken to be of the first session.
AddSkus_first_session(p, k) ==
  SubSeq(refs[p] \o [n \in 1..k |-> [sess |-> 1, sku |-> Sku(sess[p], n)]], 1,
         IF Len(refs[p]) + k > MaxRefs THEN MaxRefs ELSE Len(refs[p]) + k)

(* add_sku for the wanted language: the reply names it k times, and only    *)
(* two references are kept.                                                 *)
AddSkus(p, k) ==
  SubSeq(refs[p] \o [n \in 1..k |-> [sess |-> sess[p], sku |-> Sku(sess[p], n)]], 1,
         IF Len(refs[p]) + k > MaxRefs THEN MaxRefs ELSE Len(refs[p]) + k)

(* A list of SKUs.  It counts if any language is known by now, of this or   *)
(* of the session before.                                                   *)
SkuList(p) ==
  /\ pc[p] = "skus" /\ attempt[p] < Attempts
  /\ \E k \in 0..2, o \in BOOLEAN :
       LET got == AddSkus(p, k)
           any == got # <<>> \/ others[p] \/ o
       IN /\ Set(refs, p, got) /\ Set(others, p, others[p] \/ o)
          /\ IF ~any
               THEN Set(attempt, p, attempt[p] + 1) /\ UNCHANGED <<pc, rc, sess>>
             ELSE /\ Set(attempt, p, 0)
                  /\ IF sess[p] < job[p].ids
                       THEN Go(p, "tags") /\ Set(sess, p, sess[p] + 1)
                       ELSE Go(p, "links") /\ UNCHANGED sess
  /\ UNCHANGED <<job, known, asked, links, url, child, files, mixed>>

\* Mutant: the attempts are counted in a circle.
SkuRetry_forever(p) ==
  /\ pc[p] = "skus" /\ attempt[p] < Attempts
  /\ Set(attempt, p, (attempt[p] + 1) % Attempts)
  /\ UNCHANGED <<pc, rc, job, sess, known, others, refs, asked, links, url, child, files, mixed>>

(* An unreadable reply, or an error of the service other than the ban. *)
SkuRetry(p) ==
  /\ pc[p] = "skus" /\ attempt[p] < Attempts
  /\ Set(attempt, p, attempt[p] + 1)
  /\ UNCHANGED <<pc, rc, job, sess, known, others, refs, asked, links, url, child, files, mixed>>

(* --list-langs: the names are printed and the session is closed. *)
ListLanguages(p) ==
  /\ pc[p] = "links" /\ job[p].goal = "langs"
  /\ Close(p) /\ Set(pc, p, "end") /\ Set(rc, p, "printed")
  /\ UNCHANGED <<job, url, child, files, mixed>>

\* Mutant: the size of the array is not looked at.
AddLinks_unbounded(s, q) == s \o q

(* The https links of a reply are added to the array until it is full. *)
AddLinks(s, q) ==
  SubSeq(s \o q, 1, IF Len(s) + Len(q) > MaxLinks THEN MaxLinks ELSE Len(s) + Len(q))

(* rufux_msdl_links: one query for each reference, with its own session.    *)
(* Links that are not https are passed over.                                *)
AskLinks(p) ==
  /\ pc[p] = "links" /\ job[p].goal # "langs" /\ Cardinality(asked[p]) < Len(refs[p])
  /\ LET r == refs[p][Cardinality(asked[p]) + 1]
     IN Set(asked, p, asked[p] \cup {r})
  /\ \E n \in 0..PerReply : \E q \in [1..n -> Images] : Set(links, p, AddLinks(links[p], q))
  /\ UNCHANGED <<pc, rc, job, sess, attempt, known, others, refs, url, child, files, mixed>>

(* main's choice among the links: the last one that fits, else the first    *)
(* unless an architecture was asked for.                                    *)
Choice(w, q) ==
  LET fits == {n \in DOMAIN q : Arch[q[n]] = (IF w = "any" THEN "x64" ELSE w)}
  IN IF fits # {} THEN {q[CHOOSE n \in fits : \A m \in fits : m <= n]}
     ELSE IF w = "any" THEN {q[1]} ELSE {}

(* All links are there: the session is closed and one link chosen, which    *)
(* --url-only prints.                                                       *)
PickLink(p) ==
  /\ pc[p] = "links" /\ refs[p] # <<>> /\ Cardinality(asked[p]) = Len(refs[p])
  /\ links[p] # <<>>
  /\ Close(p)
  /\ \/ /\ \E i \in Choice(job[p].want, links[p]) : Set(url, p, i)
        /\ IF job[p].goal = "iso" THEN Go(p, "fetch")
           ELSE Set(pc, p, "end") /\ Set(rc, p, "printed")
     \/ Choice(job[p].want, links[p]) = {} /\ Fail(p) /\ UNCHANGED url
  /\ UNCHANGED <<job, child, files, mixed>>

-----------------------------------------------------------------------------
(* The download is between its look at the directory and its end. *)
Fetching(p) == pc[p] \in Fetch \/ curl[p] \in {"young", "armed", "get"}

\* Mutant: a file that is there is no obstacle.
Check_overwrites(p) ==
  /\ pc[p] = "fetch"
  /\ \/ Fail(p) /\ UNCHANGED mixed
     \/ Go(p, "fork") /\ mixed' = (mixed \/ \E q \in Runs \ {p} : Fetching(q))
  /\ UNCHANGED <<job, session, url, child, files>>

(* rufux_msdl_fetch up to fork: refused if the file is there already, or    *)
(* for a missing curl or directory.                                         *)
Check(p) ==
  /\ pc[p] = "fetch"
  /\ \/ Fail(p) /\ UNCHANGED mixed
     \/ /\ final = "none" /\ Go(p, "fork")
        /\ mixed' = (mixed \/ \E q \in Runs \ {p} : Fetching(q))
  /\ UNCHANGED <<job, session, url, child, files>>

Fork(p) ==
  /\ pc[p] = "fork"
  /\ \/ Fail(p) /\ UNCHANGED curl
     \/ Go(p, "wait") /\ Set(curl, p, "young")
  /\ UNCHANGED <<job, session, url, fd, off, pos, retries, files, mixed>>

(* The child asks for a death signal.  It comes too late if the parent died *)
(* before.                                                                  *)
Arm(p) ==
  /\ curl[p] = "young" /\ Set(curl, p, "armed")
  /\ UNCHANGED <<pc, rc, job, session, url, fd, off, pos, retries, files, mixed>>

\* Mutant: curl runs without "-C -".
CurlBegin_from_zero(p) ==
  /\ curl[p] = "armed"
  /\ Set(curl, p, "get") /\ Set(off, p, 0) /\ Set(pos, p, 0)
  /\ Set(fd, p, "none")
  /\ UNCHANGED <<pc, rc, job, session, url, retries, files, mixed>>

(* curl -C - -o part (external): the size of the .part is the offset asked  *)
(* for, and the file is opened for appending; without one it is created     *)
(* when the first data comes.                                               *)
CurlBegin(p) ==
  /\ curl[p] = "armed"
  /\ Set(curl, p, "get")
  /\ Set(off, p, Size(part)) /\ Set(pos, p, Size(part))
  /\ Set(fd, p, IF Size(part) > 0 THEN part ELSE "none")
  /\ mixed' = (mixed \/ \E n \in 1..Size(part) : data[part][n][1] # url[p])
  /\ UNCHANGED <<pc, rc, job, session, url, retries, files>>

(* One more unit at the end of the open file; creating truncates. *)
CurlData(p) ==
  /\ curl[p] = "get" /\ pos[p] < N
  /\ LET f == IF fd[p] # "none" THEN fd[p] ELSE IF part # "none" THEN part ELSE p
         old == IF fd[p] # "none" THEN data[f] ELSE <<>>
     IN /\ data' = [data EXCEPT ![f] = Append(old, <<url[p], pos[p] + 1>>)]
        /\ Set(fd, p, f)
        /\ part' = IF fd[p] = "none" THEN f ELSE part
  /\ Set(pos, p, pos[p] + 1)
  /\ UNCHANGED <<pc, rc, job, session, url, curl, off, retries, final, mixed>>

(* --retry: what this attempt added is cut off again. *)
CurlRetry(p) ==
  /\ curl[p] = "get" /\ retries[p] < MaxRetry
  /\ Set(retries, p, retries[p] + 1) /\ Set(pos, p, off[p])
  /\ IF fd[p] = "none" THEN UNCHANGED data
     ELSE data' = [data EXCEPT ![fd[p]] = SubSeq(@, 1, IF off[p] < Len(@) THEN off[p] ELSE Len(@))]
  /\ UNCHANGED <<pc, rc, job, session, url, curl, fd, off, part, final, mixed>>

(* curl exits: 0 at the end of the image.  An offset at or behind the end   *)
(* is answered with 416, which curl takes for success or not, depending on  *)
(* its version.                                                             *)
CurlExit(p) ==
  /\ curl[p] \in {"young", "armed", "get"}
  /\ \/ Set(curl, p, "bad")
     \/ curl[p] = "get" /\ pos[p] >= N /\ Set(curl, p, "ok")
  /\ UNCHANGED <<pc, rc, job, session, url, fd, off, pos, retries, files, mixed>>

\* Mutant: the exit status of curl is not looked at.
Reap_any_status(p) ==
  /\ pc[p] = "wait" /\ curl[p] \in {"ok", "bad"}
  /\ Go(p, "rename")
  /\ UNCHANGED <<job, session, url, child, files, mixed>>

(* End of the pipe, waitpid, the exit status: on failure the .part stays. *)
Reap(p) ==
  /\ pc[p] = "wait" /\ curl[p] \in {"ok", "bad"}
  /\ IF curl[p] = "ok" THEN Go(p, "rename") ELSE Fail(p)
  /\ UNCHANGED <<job, session, url, child, files, mixed>>

(* rename replaces a file of the name; success is reported after it. *)
Rename(p) ==
  /\ pc[p] = "rename"
  /\ \/ Fail(p) /\ UNCHANGED <<part, final>>
     \/ /\ part # "none" /\ final' = part /\ part' = "none"
        /\ Set(pc, p, "end") /\ Set(rc, p, "ok")
  /\ UNCHANGED <<job, session, url, child, data, mixed>>

(* SIGKILL or SIGTERM.  An armed curl dies with its parent; the cookie file *)
(* stays behind.                                                            *)
Killed(p) ==
  /\ pc[p] \notin {"idle", "end"}
  /\ Set(pc, p, "end") /\ Set(rc, p, "killed")
  /\ Set(curl, p, IF curl[p] \in {"armed", "get"} THEN "bad" ELSE curl[p])
  /\ Close(p)
  /\ UNCHANGED <<job, url, fd, off, pos, retries, files, mixed>>

-----------------------------------------------------------------------------
Init ==
  /\ pc = [p \in Runs |-> "idle"] /\ rc = [p \in Runs |-> "none"]
  /\ job = [p \in Runs |-> [ids |-> 1, want |-> "any", goal |-> "iso"]]
  /\ sess = [p \in Runs |-> 1] /\ attempt = [p \in Runs |-> 0]
  /\ known = [p \in Runs |-> {}] /\ others = [p \in Runs |-> FALSE]
  /\ refs = [p \in Runs |-> <<>>] /\ asked = [p \in Runs |-> {}]
  /\ links = [p \in Runs |-> <<>>]
  /\ url = [p \in Runs |-> "none"]
  /\ curl = [p \in Runs |-> "none"] /\ fd = [p \in Runs |-> "none"]
  /\ off = [p \in Runs |-> 0] /\ pos = [p \in Runs |-> 0]
  /\ retries = [p \in Runs |-> 0]
  /\ data = [f \in Inodes |-> <<>>] /\ part = "none" /\ final = "none"
  /\ mixed = FALSE

Work(p) ==
  \/ Start(p)
  \/ Register(p, "tags", "mdt") \/ Register(p, "mdt", "ovdf") \/ Register(p, "ovdf", "skus")
  \/ GiveUp(p) \/ SkuList(p) \/ SkuRetry(p) \/ ListLanguages(p) \/ AskLinks(p) \/ PickLink(p)
  \/ Check(p) \/ Fork(p) \/ Reap(p) \/ Rename(p)

Transfer(p) == Arm(p) \/ CurlBegin(p) \/ CurlData(p) \/ CurlRetry(p) \/ CurlExit(p)

Finished == /\ \A p \in Runs : pc[p] = "end" /\ curl[p] \notin {"young", "armed", "get"}
            /\ UNCHANGED vars

Next == (\E p \in Runs : Work(p) \/ Transfer(p) \/ Killed(p)) \/ Finished

Spec == Init /\ [][Next]_vars

(* A run goes on until it ends: requests have a time limit (--max-time 30), *)
(* and curl either gets data or gives up.  Nothing makes a user start a run *)
(* or kill one.                                                             *)
FairSpec ==
  /\ Spec
  /\ \A p \in Runs : WF_vars(Work(p) /\ pc[p] # "idle") /\ WF_vars(Transfer(p))
-----------------------------------------------------------------------------
(* Attempts and retries stay within their limits, a language has at most    *)
(* two references, and links are asked for only with these.                 *)
TypeOK ==
  /\ pc \in [Runs -> Labels] /\ rc \in [Runs -> {"none", "failed", "killed", "printed", "ok"}] /\ job \in [Runs -> JobType]
  /\ sess \in [Runs -> 1..2] /\ attempt \in [Runs -> 0..Attempts]
  /\ known \in [Runs -> SUBSET (1..2)]
  /\ others \in [Runs -> BOOLEAN]
  /\ \A p \in Runs : /\ Len(refs[p]) <= MaxRefs /\ Range(refs[p]) \subseteq SkuRefs
                     /\ asked[p] \subseteq Range(refs[p])
                     /\ Len(links[p]) <= MaxLinks /\ Range(links[p]) \subseteq Images
  /\ url \in [Runs -> Images \cup {"none"}]
  /\ curl \in [Runs -> {"none", "young", "armed", "get", "ok", "bad"}]
  /\ fd \in [Runs -> Inodes \cup {"none"}]
  /\ off \in [Runs -> Nat] /\ pos \in [Runs -> Nat] /\ retries \in [Runs -> 0..MaxRetry]
  /\ \A f \in Inodes : Range(data[f]) \subseteq Images \X (1..N)
  /\ part \in Inodes \cup {"none"} /\ final \in Inodes \cup {"none"}
  /\ mixed \in BOOLEAN

(* Links are asked for only in a session the service has been shown all     *)
(* three registration requests of, and with a SKU of the product that       *)
(* session listed: with two products the sessions are not mixed up, however *)
(* often a query was repeated (msdl.c:164-203, 217-248, 325-332).           *)
SessionMatches ==
  \A p \in Runs : \A r \in asked[p] : r.sess \in known[p] /\ r.sku.product = r.sess

(* A run that reports success left the whole of the image it chose, of the  *)
(* architecture asked for, under the final name, whatever kills, retries    *)
(* and resumed parts came before; the exceptions are overlapping downloads  *)
(* and a .part of another image, which nothing detects (msdl.c:367-424).    *)
FetchedIsImage ==
  \A p \in Runs : (rc[p] = "ok" /\ ~mixed) =>
    /\ final # "none" /\ data[final] = Whole(url[p])
    /\ job[p].want # "any" => Arch[url[p]] = job[p].want

(* An image that is there is neither replaced nor written to, not even by a *)
(* curl that outlived its run, unless downloads overlapped (msdl.c:381).    *)
ExistingKept ==
  [][(final # "none" /\ ~mixed') => final' = final /\ data'[final] = data[final]]_vars

(* "The partial file was kept; run the same command to resume" (msdl.c:417):*)
(* the .part goes away only by becoming the image, and it gets shorter only *)
(* when curl drops what its own attempt had added.                          *)
Resumable ==
  [][(part # "none" /\ ~mixed') =>
       \/ final' = part
       \/ /\ part' = part
          /\ \/ Len(data'[part]) >= Len(data[part])
             \/ \E p \in Runs : retries'[p] # retries[p] /\ Len(data'[part]) >= off[p]]_vars

(* A run that was started ends: attempts and retries are bounded            *)
(* (msdl.c:229, 382-383).                                                   *)
Termination == \A p \in Runs : pc[p] # "idle" ~> pc[p] = "end"
=============================================================================
