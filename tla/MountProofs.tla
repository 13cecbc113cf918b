---------------------------- MODULE MountProofs ----------------------------
(* Proofs about Mount, for any number of commands, daemons, directories and  *)
(* events.  OneServer is not inductive: a daemon that opens the volume may   *)
(* drop the lock, so it must be known that the lock it drops is its own.     *)
(* What signals, unmounts and state files promise rests on a second part,    *)
(* Traced, which follows the pid of a daemon from hand to hand.              *)
EXTENDS Mount, TLAPS

\* A daemon that opens the volume or serves it has the lock.
Holding == \A d \in Daemons : daemon[d].phase \in {"open", "serve"} => lock = d

\* The daemons' types and the owner of the lock.
LockInv ==
    /\ daemon \in [Daemons -> [phase : Phases, stop : BOOLEAN]]
    /\ lock \in Daemons \cup {None}
    /\ Holding

\* A launch is tried at most twice: launches are counted from "fork" to the
\* removal of the directory, and a third is never begun.
Counted(k) ==
    /\ k.pc \in {"idle", "look", "exist", "force", "unstate", "mkdir", "ulook",
                  "unmount"} => k.tries = 0
    /\ k.pc = "fork" => k.tries <= 1

AllCounted == \A c \in Clients : Counted(client[c])

\* The inductive invariant.
IInv == TypeOK /\ AllCounted /\ LockInv

\* 0 is no pid.
LEMMA NoneIsNoDaemon == None \notin Daemons
  BY MountAssumption DEF None, Daemons

\* What a step does that moves one daemon to another phase, and takes the
\* lock from no other daemon that holds it.
LEMMA PhaseKeeps ==
  ASSUME LockInv, NEW d \in Daemons, NEW p \in Phases,
         daemon' = [daemon EXCEPT ![d].phase = p],
         lock' \in Daemons \cup {None},
         p \in {"open", "serve"} => lock' = d,
         lock \in Daemons \ {d} => lock' = lock
  PROVE  LockInv'
  <1>1. /\ daemon' \in [Daemons -> [phase : Phases, stop : BOOLEAN]]
        /\ daemon'[d].phase = p
        /\ \A o \in Daemons \ {d} : daemon'[o] = daemon[o]
    BY DEF LockInv
  <1>2. ASSUME NEW o \in Daemons, daemon'[o].phase \in {"open", "serve"}
        PROVE  lock' = o
    <2>1. CASE o = d
      BY <1>1, <1>2, <2>1
    <2>2. CASE o # d
      BY <1>1, <1>2, <2>2 DEF LockInv, Holding
    <2>3. QED
      BY <2>1, <2>2
  <1>3. QED
    BY <1>1, <1>2 DEF LockInv, Holding

\* A process that ends gives up its own lock and nobody else's.
LEMMA EndsKeeps ==
  ASSUME LockInv, NEW d \in Daemons, Ends(d)
  PROVE  LockInv'
  <1>1. daemon' = [daemon EXCEPT ![d].phase = "gone"] /\ "gone" \in Phases
    BY DEF Ends, Phases
  <1>2. /\ lock' \in Daemons \cup {None}
        /\ lock \in Daemons \ {d} => lock' = lock
    BY DEF Ends, LockInv
  <1>3. QED
    BY <1>1, <1>2, PhaseKeeps

\* Lock, OpenVolume, Relock, Serve, Stop and Die.
LEMMA DaemonStepKeeps ==
  ASSUME LockInv, NEW d \in Daemons, DaemonStep(d)
  PROVE  LockInv'
  <1>0. None \notin Daemons /\ {"open", "opened", "serve"} \subseteq Phases
    BY NoneIsNoDaemon DEF Phases
  <1>1. CASE Lock(d)
    <2>1. CASE lock = None
      <3>1. lock' = d /\ daemon' = [daemon EXCEPT ![d].phase = "open"]
        BY <1>1, <2>1 DEF Lock
      <3>2. QED
        BY <1>0, <2>1, <3>1, PhaseKeeps
    <2>2. CASE lock # None
      <3>1. Ends(d)
        BY <1>1, <2>2 DEF Lock
      <3>2. QED
        BY <3>1, EndsKeeps
    <2>3. QED
      BY <2>1, <2>2
  <1>2. CASE OpenVolume(d)
    <2>1. CASE lock' \in {d, None} /\ daemon' = [daemon EXCEPT ![d].phase = "opened"]
      <3>1. lock = d
        BY <1>2 DEF OpenVolume, LockInv, Holding
      <3>2. QED
        BY <1>0, <2>1, <3>1, PhaseKeeps
    <2>2. CASE Ends(d)
      BY <2>2, EndsKeeps
    <2>3. QED
      BY <1>2, <2>1, <2>2 DEF OpenVolume
  <1>3. CASE Relock(d)
    <2>1. CASE /\ lock \in {None, d} /\ lock' = d
               /\ daemon' = [daemon EXCEPT ![d].phase = "serve"]
      BY <1>0, <2>1, PhaseKeeps
    <2>2. CASE Ends(d)
      BY <2>2, EndsKeeps
    <2>3. QED
      BY <1>3, <2>1, <2>2 DEF Relock
  <1>4. CASE Serve(d)
    BY <1>4 DEF Serve, LockInv, Holding
  <1>5. CASE Stop(d) \/ Die(d)
    <2>1. Ends(d)
      BY <1>5 DEF Stop, Die
    <2>2. QED
      BY <2>1, EndsKeeps
  <1>6. QED
    BY <1>1, <1>2, <1>3, <1>4, <1>5 DEF DaemonStep

\* A command's new record keeps its type and its count.
LEMMA ClientKeeps ==
  ASSUME TypeOK, AllCounted,
         NEW c \in Clients, NEW k \in ClientType, Counted(k),
         client' = [client EXCEPT ![c] = k]
  PROVE  client' \in [Clients -> ClientType] /\ AllCounted'
  BY DEF TypeOK, AllCounted

\* Go, to a label where the count does not matter or is right.
LEMMA GoKeeps ==
  ASSUME TypeOK, AllCounted,
         NEW c \in Clients, NEW l \in Steps, Go(c, l),
         Counted([client[c] EXCEPT !.pc = l])
  PROVE  client' \in [Clients -> ClientType] /\ AllCounted'
  <1> DEFINE k == [client[c] EXCEPT !.pc = l]
  <1>1. client[c] \in ClientType
    BY DEF TypeOK
  <1>2. k \in ClientType
    BY <1>1 DEF ClientType
  <1>3. client' = [client EXCEPT ![c] = k]
    BY DEF Go
  <1>4. Counted(k)
    OBVIOUS
  <1> HIDE DEF k
  <1>5. QED
    BY <1>2, <1>3, <1>4, ClientKeeps

\* Return: the command is over.
LEMMA ReturnKeeps ==
  ASSUME TypeOK, AllCounted,
         NEW c \in Clients, NEW r \in {"none", "ok", "err", "died"}, Return(c, r)
  PROVE  client' \in [Clients -> ClientType] /\ AllCounted'
  <1> DEFINE k == [client[c] EXCEPT !.pc = "idle", !.res = r, !.dir = None, !.tries = 0]
  <1>1. client[c] \in ClientType
    BY DEF TypeOK
  <1>a. "idle" \in Steps /\ 0 \in 0 .. 2
    BY DEF Steps
  <1>2. k \in ClientType
    BY <1>1, <1>a DEF ClientType
  <1>3. k.pc = "idle" /\ k.tries = 0
    BY <1>1 DEF ClientType
  <1>4. client' = [client EXCEPT ![c] = k]
    BY DEF Return
  <1> HIDE DEF k
  <1>5. Counted(k)
    BY <1>3 DEF Counted
  <1>6. QED
    BY <1>2, <1>4, <1>5, ClientKeeps

\* A step that leaves daemons and lock alone keeps LockInv.
LEMMA LockUntouched ==
  ASSUME LockInv, UNCHANGED <<daemon, lock>>
  PROVE  LockInv'
  BY DEF LockInv, Holding

\* What is known of a command's record.
LEMMA Record ==
  ASSUME TypeOK, NEW c \in Clients
  PROVE  /\ client[c].pc \in Steps /\ client[c].tries \in 0 .. 2
         /\ client[c].dir \in Dirs \cup {None} /\ client[c].pid \in Daemons \cup {None}
         /\ AfterEnd(c) \in Steps
  <1>1. client[c] \in ClientType
    BY DEF TypeOK
  <1>2. /\ client[c].pc \in Steps /\ client[c].tries \in 0 .. 2
        /\ client[c].dir \in Dirs \cup {None} /\ client[c].pid \in Daemons \cup {None}
    BY <1>1 DEF ClientType
  <1>3. QED
    BY <1>2 DEF AfterEnd, Steps

\* After a daemon's end the count is right for wherever the command goes.
LEMMA AfterEndCounted ==
  ASSUME TypeOK, NEW c \in Clients
  PROVE  Counted([client[c] EXCEPT !.pc = AfterEnd(c)])
  <1> DEFINE k == [client[c] EXCEPT !.pc = AfterEnd(c)]
  <1>1. client[c] \in ClientType
    BY DEF TypeOK
  <1>2. k.pc = AfterEnd(c) /\ k.tries = client[c].tries
    BY <1>1 DEF ClientType
  <1> HIDE DEF k
  <1>3. QED
    <2>1. Counted(k)
      BY <1>2 DEF Counted, AfterEnd
    <2>2. QED
      BY <2>1 DEF k

\* A label at which any count may be.
LEMMA FreelyCounted ==
  ASSUME TypeOK, NEW c \in Clients,
         NEW l \in {"term", "wait", "killed", "rmdir", "ready", "stderr", "nfs", "write"}
  PROVE  Counted([client[c] EXCEPT !.pc = l])
  <1>1. client[c] \in ClientType
    BY DEF TypeOK
  <1>2. [client[c] EXCEPT !.pc = l].pc = l
    BY <1>1 DEF ClientType
  <1>3. QED
    BY <1>2 DEF Counted

\* A label before the first launch, when the count is 0.
LEMMA ZeroCounted ==
  ASSUME TypeOK, NEW c \in Clients, NEW l \in Steps, client[c].tries = 0
  PROVE  Counted([client[c] EXCEPT !.pc = l])
  <1>1. client[c] \in ClientType
    BY DEF TypeOK
  <1>2. [client[c] EXCEPT !.pc = l].tries = 0
    BY <1>1 DEF ClientType
  <1>3. QED
    BY <1>2 DEF Counted

\* A signal: the flag or the phase of one process changes, and it does not
\* begin to open or to serve.
LEMMA SignalKeeps ==
  ASSUME LockInv, NEW d, NEW q \in [phase : Phases, stop : BOOLEAN],
         daemon' = [daemon EXCEPT ![d] = q], UNCHANGED lock,
         d \in Daemons /\ q.phase \in {"open", "serve"} => q.phase = daemon[d].phase
  PROVE  LockInv'
  <1>1. daemon' \in [Daemons -> [phase : Phases, stop : BOOLEAN]]
    BY DEF LockInv
  <1>2. ASSUME NEW o \in Daemons, daemon'[o].phase \in {"open", "serve"}
        PROVE  lock' = o
    <2>1. CASE o = d
      BY <1>2, <2>1 DEF LockInv, Holding
    <2>2. CASE o # d
      BY <1>2, <2>2 DEF LockInv, Holding
    <2>3. QED
      BY <2>1, <2>2
  <1>3. QED
    BY <1>1, <1>2 DEF LockInv, Holding

\* The steps by which a command ends a daemon.
LEMMA EndingKeeps ==
  ASSUME IInv, NEW c \in Clients,
         Terminate(c) \/ Ended(c) \/ Timeout(c) \/ AfterKill(c)
  PROVE  IInv'
  <1>0. /\ TypeOK /\ AllCounted /\ LockInv
        /\ AfterEnd(c) \in Steps /\ client[c].pid \in Daemons \cup {None}
        /\ {"wait", "killed"} \subseteq Steps
    BY Record DEF IInv, Steps
  <1>1. CASE Terminate(c)
    <2> DEFINE d == client[c].pid
               q == [daemon[d] EXCEPT !.stop = TRUE]
    <2>1. CASE Alive(d)
      <3>1. d \in Daemons /\ daemon[d] \in [phase : Phases, stop : BOOLEAN]
        BY <1>0, <2>1 DEF Alive, TypeOK
      <3>2. Go(c, "wait") /\ daemon' = [daemon EXCEPT ![d] = q]
            /\ UNCHANGED <<lock, mount, dirs, state, dirty, unclean, stray, bounds>>
        BY <1>1, <2>1 DEF Terminate
      <3>3. q \in [phase : Phases, stop : BOOLEAN] /\ q.phase = daemon[d].phase
        BY <3>1
      <3> HIDE DEF d, q
      <3>4. LockInv'
        BY <1>0, <3>2, <3>3, SignalKeeps
      <3>5. client' \in [Clients -> ClientType] /\ AllCounted'
        BY <1>0, <3>2, FreelyCounted, GoKeeps
      <3>6. QED
        BY <1>0, <3>2, <3>4, <3>5 DEF IInv, TypeOK, LockInv, bounds
    <2>2. CASE ~Alive(d)
      <3>1. Go(c, AfterEnd(c)) /\ UNCHANGED <<world, bounds>>
        BY <1>1, <2>2 DEF Terminate, world
      <3>2. client' \in [Clients -> ClientType] /\ AllCounted'
        BY <1>0, <3>1, AfterEndCounted, GoKeeps
      <3>3. QED
        BY <1>0, <3>1, <3>2, LockUntouched DEF IInv, TypeOK, world, bounds
    <2>3. QED
      BY <2>1, <2>2
  <1>2. CASE Ended(c)
    <2>1. Go(c, AfterEnd(c)) /\ UNCHANGED <<world, bounds>>
      BY <1>2 DEF Ended
    <2>2. client' \in [Clients -> ClientType] /\ AllCounted'
      BY <1>0, <2>1, AfterEndCounted, GoKeeps
    <2>3. QED
      BY <1>0, <2>1, <2>2, LockUntouched DEF IInv, TypeOK, world, bounds
  <1>3. CASE Timeout(c)
    <2> DEFINE d == client[c].pid
               q == [daemon[d] EXCEPT !.phase = "dying"]
    <2>1. d \in Daemons /\ daemon[d] \in [phase : Phases, stop : BOOLEAN]
      BY <1>0, <1>3 DEF Timeout, Alive, TypeOK
    <2>2. /\ Go(c, "killed") /\ daemon' = [daemon EXCEPT ![d] = q]
          /\ unclean' = unclean \cup {d}
          /\ UNCHANGED <<lock, mount, dirs, state, dirty, stray, bounds>>
      BY <1>3 DEF Timeout
    <2>3. q \in [phase : Phases, stop : BOOLEAN] /\ q.phase = "dying"
      BY <2>1 DEF Phases
    <2> HIDE DEF d, q
    <2>4. LockInv'
      BY <1>0, <2>2, <2>3, SignalKeeps
    <2>5. client' \in [Clients -> ClientType] /\ AllCounted'
      BY <1>0, <2>2, FreelyCounted, GoKeeps
    <2>6. QED
      BY <1>0, <2>1, <2>2, <2>4, <2>5 DEF IInv, TypeOK, LockInv, bounds
  <1>4. CASE AfterKill(c)
    <2>1. UNCHANGED <<world, bounds>>
      BY <1>4 DEF AfterKill
    <2>2. CASE Return(c, "err")
      BY <1>0, <2>1, <2>2, ReturnKeeps, LockUntouched DEF IInv, TypeOK, world, bounds
    <2>3. CASE Go(c, AfterEnd(c))
      <3>1. client' \in [Clients -> ClientType] /\ AllCounted'
        BY <1>0, <2>3, AfterEndCounted, GoKeeps
      <3>2. QED
        BY <1>0, <2>1, <3>1, LockUntouched DEF IInv, TypeOK, world, bounds
    <2>4. QED
      BY <1>4, <2>2, <2>3 DEF AfterKill
  <1>5. QED
    BY <1>1, <1>2, <1>3, <1>4

\* The part of TypeOK that is neither about commands nor about LockInv.
Rest ==
    /\ mount \in [Dirs -> Daemons \cup {None}]
    /\ dirs \subseteq Dirs
    /\ state \in [Dirs -> Daemons \cup {None}]
    /\ dirty \subseteq Daemons /\ unclean \subseteq Daemons
    /\ stray \in BOOLEAN /\ overlap \in BOOLEAN
    /\ commands \in 0 .. MaxCommands /\ events \in 0 .. MaxEvents

\* A step that moves one command and leaves daemons and lock alone.
LEMMA CommandKeeps ==
  ASSUME IInv, UNCHANGED <<daemon, lock>>,
         client' \in [Clients -> ClientType] /\ AllCounted', Rest'
  PROVE  IInv'
  <1>1. LockInv'
    BY LockUntouched DEF IInv
  <1>2. QED
    BY <1>1 DEF IInv, TypeOK, Rest, LockInv

\* Nothing changed, nothing to show.
LEMMA RestUntouched ==
  ASSUME IInv, UNCHANGED <<mount, dirs, state, dirty, unclean, stray, bounds>>
  PROVE  Rest'
  BY DEF IInv, TypeOK, Rest, bounds

\* A command starts.
LEMMA BeginKeeps ==
  ASSUME IInv, NEW c \in Clients, BeginMount(c) \/ BeginUmount(c)
  PROVE  IInv'
  <1>1. PICK cmd \in {"mount", "umount"}, pc \in {"look", "ulook"} : Begin(c, cmd, pc)
    BY DEF BeginMount, BeginUmount
  <1> DEFINE k == [pc |-> pc, cmd |-> cmd, res |-> "none",
                   dir |-> None, pid |-> None, tries |-> 0]
  <1>2. client' = [client EXCEPT ![c] = k]
    BY <1>1 DEF Begin
  <1>3. k \in ClientType
    BY DEF ClientType, Steps
  <1>4. Counted(k)
    BY DEF Counted
  <1> HIDE DEF k
  <1>5. client' \in [Clients -> ClientType] /\ AllCounted'
    BY <1>2, <1>3, <1>4, ClientKeeps DEF IInv
  <1>6. overlap' \in BOOLEAN /\ commands' \in 0 .. MaxCommands /\ UNCHANGED <<world, events>>
    <2>1. overlap' = (overlap \/ \E o \in Clients \ {c} : client[o].pc # "idle")
      BY <1>1 DEF Begin
    <2>2. overlap' \in BOOLEAN
      BY <2>1, Zenon
    <2>3. QED
      BY <1>1, <2>2, MountAssumption DEF Begin, IInv, TypeOK
  <1>7. Rest' /\ UNCHANGED <<daemon, lock>>
    BY <1>6 DEF IInv, TypeOK, Rest, world
  <1>8. QED
    BY <1>5, <1>7, CommandKeeps

\* The steps that clean up the files of a mount.
LEMMA CleaningKeeps ==
  ASSUME IInv, NEW c \in Clients, RmDir(c) \/ UnlinkState(c)
  PROVE  IInv'
  <1>0. TypeOK /\ AllCounted /\ {"unstate", "look", "mkdir"} \subseteq Steps
    BY DEF IInv, Steps
  <1>1. CASE RmDir(c)
    <2>1. client' \in [Clients -> ClientType] /\ AllCounted'
      <3>1. CASE client[c].tries = 0 /\ Go(c, "unstate")
        BY <1>0, <3>1, ZeroCounted, GoKeeps
      <3>2. CASE Return(c, "err")
        BY <1>0, <3>2, ReturnKeeps
      <3>3. QED
        BY <1>1, <3>1, <3>2 DEF RmDir
    <2>2. Rest' /\ UNCHANGED <<daemon, lock>>
      BY <1>0, <1>1 DEF RmDir, TypeOK, Rest, bounds
    <2>3. QED
      BY <2>1, <2>2, CommandKeeps
  <1>2. CASE UnlinkState(c)
    <2>1. client[c].tries = 0
      BY <1>0, <1>2 DEF UnlinkState, AllCounted, Counted
    <2>2. client' \in [Clients -> ClientType] /\ AllCounted'
      <3>1. CASE Return(c, "ok")
        BY <1>0, <3>1, ReturnKeeps
      <3>2. CASE Go(c, "look") \/ Go(c, "mkdir")
        BY <1>0, <2>1, <3>2, ZeroCounted, GoKeeps
      <3>3. QED
        BY <1>2, <3>1, <3>2 DEF UnlinkState
    <2>3. Rest' /\ UNCHANGED <<daemon, lock>>
      BY <1>0, <1>2 DEF UnlinkState, TypeOK, Rest, bounds
    <2>4. QED
      BY <2>2, <2>3, CommandKeeps
  <1>3. QED
    BY <1>1, <1>2

\* A command takes a directory, and the pid of its state file, as its own.
LEMMA TakeKeeps ==
  ASSUME IInv, NEW c \in Clients, NEW l \in Steps, NEW m \in Dirs,
         NEW p \in Daemons \cup {None}, client[c].tries = 0,
         client' = [client EXCEPT ![c].pc = l, ![c].dir = m, ![c].pid = p]
  PROVE  client' \in [Clients -> ClientType] /\ AllCounted'
  <1> DEFINE k == [client[c] EXCEPT !.pc = l, !.dir = m, !.pid = p]
  <1>0. TypeOK /\ AllCounted
    BY DEF IInv
  <1>1. client[c] \in ClientType
    BY <1>0 DEF TypeOK
  <1>2. k \in ClientType /\ k.tries = 0
    BY <1>1 DEF ClientType
  <1>3. client' = [client EXCEPT ![c] = k]
    OBVIOUS
  <1> HIDE DEF k
  <1>4. Counted(k)
    BY <1>2 DEF Counted
  <1>5. QED
    BY <1>0, <1>2, <1>3, <1>4, ClientKeeps

\* The steps of rufux mount up to the launch.
LEMMA LookingKeeps ==
  ASSUME IInv, NEW c \in Clients, Look(c) \/ Exist(c) \/ ForceOff(c) \/ MkDir(c)
  PROVE  IInv'
  <1>0. /\ TypeOK /\ AllCounted
        /\ {"mkdir", "exist", "force", "term", "fork"} \subseteq Steps
    BY DEF IInv, Steps
  <1>z. client[c].tries = 0
    BY <1>0 DEF AllCounted, Counted, Look, Exist, ForceOff, MkDir
  <1>1. CASE Look(c)
    <2>1. client' \in [Clients -> ClientType] /\ AllCounted'
      <3>1. CASE Go(c, "mkdir")
        BY <1>0, <1>z, <3>1, ZeroCounted, GoKeeps
      <3>2. CASE \E m \in Dirs :
                   client' = [client EXCEPT ![c].pc = "exist", ![c].dir = m,
                                            ![c].pid = state[m]]
        <4>1. PICK m \in Dirs :
                client' = [client EXCEPT ![c].pc = "exist", ![c].dir = m,
                                         ![c].pid = state[m]]
          BY <3>2
        <4>2. state[m] \in Daemons \cup {None}
          BY <1>0 DEF TypeOK
        <4>3. QED
          BY <1>0, <1>z, <4>1, <4>2, TakeKeeps
      <3>3. QED
        BY <1>1, <3>1, <3>2 DEF Look
    <2>2. QED
      BY <1>1, <2>1, RestUntouched, CommandKeeps DEF Look, world
  <1>2. CASE Exist(c)
    <2>1. client' \in [Clients -> ClientType] /\ AllCounted'
      <3>1. CASE Return(c, "ok")
        BY <1>0, <3>1, ReturnKeeps
      <3>2. CASE Go(c, "force") \/ Go(c, "term")
        BY <1>0, <1>z, <3>2, ZeroCounted, GoKeeps
      <3>3. QED
        BY <1>2, <3>1, <3>2 DEF Exist
    <2>2. QED
      BY <1>2, <2>1, RestUntouched, CommandKeeps DEF Exist, world
  <1>3. CASE ForceOff(c)
    <2>1. client' \in [Clients -> ClientType] /\ AllCounted'
      <3>1. CASE Return(c, "err")
        BY <1>0, <3>1, ReturnKeeps
      <3>2. CASE Go(c, "term")
        BY <1>0, <1>z, <3>2, ZeroCounted, GoKeeps
      <3>3. QED
        BY <1>3, <3>1, <3>2 DEF ForceOff
    <2>2. Rest' /\ UNCHANGED <<daemon, lock>>
      BY <1>0, <1>3 DEF ForceOff, TypeOK, Rest, bounds
    <2>3. QED
      BY <2>1, <2>2, CommandKeeps
  <1>4. CASE MkDir(c)
    <2>1. CASE Return(c, "err") /\ UNCHANGED dirs
      <3>1. client' \in [Clients -> ClientType] /\ AllCounted'
        BY <1>0, <2>1, ReturnKeeps
      <3>2. QED
        BY <1>4, <2>1, <3>1, RestUntouched, CommandKeeps DEF MkDir
    <2>2. CASE \E m \in Dirs :
                 /\ dirs' = dirs \cup {m}
                 /\ client' = [client EXCEPT ![c].pc = "fork", ![c].dir = m]
      <3>1. PICK m \in Dirs :
              /\ dirs' = dirs \cup {m}
              /\ client' = [client EXCEPT ![c].pc = "fork", ![c].dir = m]
        BY <2>2
      <3> DEFINE k == [client[c] EXCEPT !.pc = "fork", !.dir = m]
      <3>2. client[c] \in ClientType
        BY <1>0 DEF TypeOK
      <3>3. k \in ClientType /\ k.tries = 0
        BY <1>0, <1>z, <3>2 DEF ClientType
      <3>4. client' = [client EXCEPT ![c] = k]
        BY <3>1
      <3> HIDE DEF k
      <3>5. Counted(k)
        BY <3>3 DEF Counted
      <3>6. client' \in [Clients -> ClientType] /\ AllCounted'
        BY <1>0, <3>3, <3>4, <3>5, ClientKeeps
      <3>7. Rest' /\ UNCHANGED <<daemon, lock>>
        BY <1>0, <1>4, <3>1 DEF MkDir, TypeOK, Rest, bounds
      <3>8. QED
        BY <3>6, <3>7, CommandKeeps
    <2>3. QED
      BY <1>4, <2>1, <2>2 DEF MkDir
  <1>5. QED
    BY <1>1, <1>2, <1>3, <1>4

\* The count goes up by one, at most to 2; a device is launched a second time.
LEMMA LaunchCounted ==
  ASSUME IInv, NEW c \in Clients, client[c].pc = "fork",
         NEW l \in Steps, l \in {"ready", "rmdir"} \/ (l = "fork" /\ client[c].tries = 0),
         NEW p \in Daemons \cup {None},
         client' = [client EXCEPT ![c].pc = l, ![c].pid = p, ![c].tries = @ + 1]
  PROVE  client' \in [Clients -> ClientType] /\ AllCounted'
  <1> DEFINE n == client[c].tries + 1
             k == [client[c] EXCEPT !.pc = l, !.pid = p, !.tries = n]
  <1>0. TypeOK /\ AllCounted
    BY DEF IInv
  <1>1. client[c] \in ClientType
    BY <1>0 DEF TypeOK
  <1>2. client[c].tries \in 0 .. 1
    BY <1>0, Record DEF AllCounted, Counted
  <1>a. n \in 0 .. 2 /\ (l = "fork" => n = 1)
    BY <1>2
  <1>4. client' = [client EXCEPT ![c] = k]
    OBVIOUS
  <1> HIDE DEF n
  <1>3. k \in ClientType /\ k.pc = l /\ k.tries = n
    BY <1>1, <1>a DEF ClientType
  <1> HIDE DEF k
  <1>5. Counted(k)
    BY <1>a, <1>3 DEF Counted
  <1>6. QED
    BY <1>0, <1>3, <1>4, <1>5, ClientKeeps

\* The steps of rufux mount from the launch on.
LEMMA LaunchKeeps ==
  ASSUME IInv, NEW c \in Clients,
         Fork(c) \/ Ready(c) \/ ReadErr(c) \/ MountNfs(c) \/ WriteState(c)
  PROVE  IInv'
  <1>0. /\ TypeOK /\ AllCounted /\ LockInv
        /\ {"fork", "ready", "stderr", "rmdir", "nfs", "term", "write"} \subseteq Steps
        /\ client[c] \in ClientType /\ client[c].pid \in Daemons \cup {None}
    BY Record DEF IInv, Steps, TypeOK
  <1>1. CASE Fork(c)
    <2>0. UNCHANGED <<lock, mount, dirs, state, dirty, unclean, stray, bounds>>
          /\ client[c].pc = "fork"
      BY <1>1 DEF Fork
    <2>1. CASE \E d \in Daemons :
                 /\ daemon[d].phase = "none"
                 /\ daemon' = [daemon EXCEPT ![d].phase = "start"]
                 /\ client' = [client EXCEPT ![c].pc = "ready", ![c].pid = d,
                                             ![c].tries = @ + 1]
      <3>1. PICK d \in Daemons :
              /\ daemon[d].phase = "none"
              /\ daemon' = [daemon EXCEPT ![d].phase = "start"]
              /\ client' = [client EXCEPT ![c].pc = "ready", ![c].pid = d,
                                          ![c].tries = @ + 1]
        BY <2>1
      <3>2. client' \in [Clients -> ClientType] /\ AllCounted'
        BY <1>0, <2>0, <3>1, LaunchCounted
      <3>3. LockInv'
        <4>1. "start" \in Phases /\ lock' \in Daemons \cup {None} /\ lock' = lock
          BY <1>0, <2>0 DEF LockInv, Phases
        <4>2. QED
          BY <1>0, <3>1, <4>1, PhaseKeeps
      <3>4. QED
        BY <2>0, <3>2, <3>3, RestUntouched DEF IInv, TypeOK, Rest, LockInv
    <2>2. CASE /\ client' = [client EXCEPT
                     ![c].pc = IF client[c].tries = 0 /\ IsDev THEN "fork" ELSE "rmdir",
                     ![c].tries = @ + 1]
               /\ UNCHANGED daemon
      <3> DEFINE l == IF client[c].tries = 0 /\ IsDev THEN "fork" ELSE "rmdir"
      <3>1. l \in Steps /\ (l \in {"ready", "rmdir"} \/ (l = "fork" /\ client[c].tries = 0))
        BY <1>0
      <3>2. client' = [client EXCEPT ![c].pc = l, ![c].pid = client[c].pid,
                                     ![c].tries = @ + 1]
        BY <1>0, <2>2 DEF TypeOK, ClientType
      <3> HIDE DEF l
      <3>3. client' \in [Clients -> ClientType] /\ AllCounted'
        BY <1>0, <2>0, <3>1, <3>2, LaunchCounted
      <3>4. QED
        BY <2>0, <2>2, <3>3, RestUntouched, CommandKeeps
    <2>3. QED
      BY <1>1, <2>1, <2>2 DEF Fork
  <1>2. CASE Ready(c) \/ ReadErr(c)
    <2>1. Go(c, "nfs") \/ Go(c, "stderr") \/ Go(c, "term")
      BY <1>2 DEF Ready, ReadErr
    <2>2. client' \in [Clients -> ClientType] /\ AllCounted'
      BY <1>0, <2>1, FreelyCounted, GoKeeps
    <2>3. QED
      BY <1>2, <2>2, RestUntouched, CommandKeeps DEF Ready, ReadErr, world
  <1>3. CASE MountNfs(c)
    <2>1. Go(c, "write") \/ Go(c, "term")
      BY <1>3 DEF MountNfs
    <2>2. client' \in [Clients -> ClientType] /\ AllCounted'
      BY <1>0, <2>1, FreelyCounted, GoKeeps
    <2>3. Rest' /\ UNCHANGED <<daemon, lock>>
      BY <1>0, <1>3 DEF MountNfs, TypeOK, Rest, bounds
    <2>4. QED
      BY <2>2, <2>3, CommandKeeps
  <1>4. CASE WriteState(c)
    <2>1. Return(c, "ok")
      BY <1>4 DEF WriteState
    <2>2. client' \in [Clients -> ClientType] /\ AllCounted'
      BY <1>0, <2>1, ReturnKeeps
    <2>3. Rest' /\ UNCHANGED <<daemon, lock>>
      <3>1. state' \in [Dirs -> Daemons \cup {None}]
        BY <1>0, <1>4 DEF WriteState, TypeOK
      <3>2. events' \in 0 .. MaxEvents
        BY <1>0, <1>4, MountAssumption DEF WriteState, TypeOK
      <3>3. stray' \in BOOLEAN
        BY <1>0, <1>4 DEF WriteState, TypeOK
      <3>4. UNCHANGED <<daemon, lock, mount, dirs, dirty, unclean, overlap, commands>>
        BY <1>4 DEF WriteState
      <3>5. QED
        BY <1>0, <3>1, <3>2, <3>3, <3>4 DEF TypeOK, Rest
    <2>4. QED
      BY <2>2, <2>3, CommandKeeps
  <1>5. QED
    BY <1>1, <1>2, <1>3, <1>4

\* The steps of rufux umount.
LEMMA UmountKeeps ==
  ASSUME IInv, NEW c \in Clients, LookUmount(c) \/ Unmount(c)
  PROVE  IInv'
  <1>0. TypeOK /\ AllCounted /\ {"term", "unmount"} \subseteq Steps
    BY DEF IInv, Steps
  <1>z. client[c].tries = 0
    BY <1>0 DEF AllCounted, Counted, LookUmount, Unmount
  <1>1. CASE LookUmount(c)
    <2>1. client' \in [Clients -> ClientType] /\ AllCounted'
      <3>1. CASE Return(c, "ok") \/ Return(c, "err")
        BY <1>0, <3>1, ReturnKeeps
      <3>2. CASE \E m \in Dirs :
                   client' = [client EXCEPT ![c].pc = "unmount", ![c].dir = m,
                                            ![c].pid = state[m]]
        <4>1. PICK m \in Dirs :
                client' = [client EXCEPT ![c].pc = "unmount", ![c].dir = m,
                                         ![c].pid = state[m]]
          BY <3>2
        <4>2. state[m] \in Daemons \cup {None}
          BY <1>0 DEF TypeOK
        <4>3. QED
          BY <1>0, <1>z, <4>1, <4>2, TakeKeeps
      <3>3. QED
        BY <1>1, <3>1, <3>2 DEF LookUmount
    <2>2. mount' \in [Dirs -> Daemons \cup {None}]
      BY <1>0, <1>1 DEF LookUmount, TypeOK
    <2>3. Rest' /\ UNCHANGED <<daemon, lock>>
      BY <1>0, <1>1, <2>2 DEF LookUmount, TypeOK, Rest, bounds
    <2>4. QED
      BY <2>1, <2>3, CommandKeeps
  <1>2. CASE Unmount(c)
    <2>1. client' \in [Clients -> ClientType] /\ AllCounted'
      <3>1. CASE Return(c, "err")
        BY <1>0, <3>1, ReturnKeeps
      <3>2. CASE Go(c, "term")
        BY <1>0, <1>z, <3>2, ZeroCounted, GoKeeps
      <3>3. QED
        BY <1>2, <3>1, <3>2 DEF Unmount
    <2>2. Rest' /\ UNCHANGED <<daemon, lock>>
      BY <1>0, <1>2 DEF Unmount, TypeOK, Rest, bounds
    <2>3. QED
      BY <2>1, <2>2, CommandKeeps
  <1>3. QED
    BY <1>1, <1>2

\* A command is killed, the user ejects the volume.
LEMMA SurroundingsKeep ==
  ASSUME IInv,
         (\E c \in Clients : Killed(c)) \/ (\E m \in Dirs : Eject(m))
  PROVE  IInv'
  <1>0. TypeOK /\ AllCounted
    BY DEF IInv
  <1>1. ASSUME NEW c \in Clients, Killed(c)
        PROVE  IInv'
    <2>1. Return(c, "died")
      BY <1>1 DEF Killed
    <2>2. client' \in [Clients -> ClientType] /\ AllCounted'
      BY <1>0, <2>1, ReturnKeeps
    <2>3. Rest' /\ UNCHANGED <<daemon, lock>>
      BY <1>0, <1>1, MountAssumption DEF Killed, Happens, TypeOK, Rest
    <2>4. QED
      BY <2>2, <2>3, CommandKeeps
  <1>2. ASSUME NEW m \in Dirs, Eject(m)
        PROVE  IInv'
    <2>1. client' \in [Clients -> ClientType] /\ AllCounted'
      BY <1>0, <1>2 DEF Eject, TypeOK, AllCounted
    <2>2. Rest' /\ UNCHANGED <<daemon, lock>>
      BY <1>0, <1>2, MountAssumption DEF Eject, Happens, TypeOK, Rest
    <2>3. QED
      BY <2>1, <2>2, CommandKeeps
  <1>3. QED
    BY <1>1, <1>2

\* A daemon's own step, or its crash.
LEMMA DaemonKeeps ==
  ASSUME IInv, NEW d \in Daemons, DaemonStep(d) \/ Crash(d)
  PROVE  IInv'
  <1>0. TypeOK /\ AllCounted /\ LockInv
    BY DEF IInv
  <1>1. LockInv'
    <2>1. CASE DaemonStep(d)
      BY <1>0, <2>1, DaemonStepKeeps
    <2>2. CASE Crash(d)
      BY <1>0, <2>2, EndsKeeps DEF Crash
    <2>3. QED
      BY <2>1, <2>2
  <1>2. client' = client
    BY DEF DaemonStep, Crash, Lock, OpenVolume, Relock, Serve, Stop, Die
  <1>3. Rest'
    <2>1. CASE Lock(d) \/ OpenVolume(d) \/ Relock(d) \/ Die(d)
      BY <2>1, RestUntouched DEF Lock, OpenVolume, Relock, Die
    <2>2. CASE Serve(d) \/ Stop(d)
      BY <1>0, <2>2 DEF Serve, Stop, TypeOK, Rest, bounds
    <2>3. CASE Crash(d)
      BY <1>0, <2>3, MountAssumption DEF Crash, Happens, TypeOK, Rest
    <2>4. QED
      BY <2>1, <2>2, <2>3 DEF DaemonStep
  <1>4. client' \in [Clients -> ClientType] /\ AllCounted'
    BY <1>0, <1>2 DEF TypeOK, AllCounted
  <1>5. QED
    BY <1>1, <1>3, <1>4 DEF IInv, TypeOK, Rest, LockInv

\* No command, no daemon, no lock.
LEMMA InitIInv == Init => IInv
  <1> SUFFICES ASSUME Init PROVE IInv
    OBVIOUS
  <1>1. client \in [Clients -> ClientType] /\ AllCounted
    BY DEF Init, ClientType, Steps, AllCounted, Counted
  <1>2. LockInv
    BY DEF Init, LockInv, Holding, Phases
  <1>3. Rest
    <2>1. /\ mount \in [Dirs -> Daemons \cup {None}]
          /\ state \in [Dirs -> Daemons \cup {None}]
      BY DEF Init
    <2>2. dirs \subseteq Dirs /\ dirty \subseteq Daemons /\ unclean \subseteq Daemons
      BY DEF Init
    <2>3. stray \in BOOLEAN /\ overlap \in BOOLEAN
      BY DEF Init
    <2>4. commands \in 0 .. MaxCommands /\ events \in 0 .. MaxEvents
      BY MountAssumption DEF Init
    <2>5. QED
      BY <2>1, <2>2, <2>3, <2>4 DEF Rest
  <1>4. QED
    BY <1>1, <1>2, <1>3 DEF IInv, TypeOK, Rest, LockInv

\* Every step of a command, a daemon or the surroundings keeps the inductive
\* invariant.
LEMMA NextIInv == IInv /\ [Next]_vars => IInv'
  <1> SUFFICES ASSUME IInv, [Next]_vars PROVE IInv'
    OBVIOUS
  <1>1. ASSUME NEW c \in Clients,
               BeginMount(c) \/ BeginUmount(c) \/ ClientStep(c) \/ Killed(c)
        PROVE  IInv'
    BY <1>1, BeginKeeps, EndingKeeps, CleaningKeeps, LookingKeeps, LaunchKeeps,
       UmountKeeps, SurroundingsKeep DEF ClientStep
  <1>2. ASSUME NEW d \in Daemons, DaemonStep(d) \/ Crash(d)
        PROVE  IInv'
    BY <1>2, DaemonKeeps
  <1>3. ASSUME NEW m \in Dirs, Eject(m)
        PROVE  IInv'
    BY <1>3, SurroundingsKeep
  <1>4. CASE Quiet \/ UNCHANGED vars
    BY <1>4 DEF Quiet, vars, IInv, TypeOK, AllCounted, LockInv, Holding
  <1>5. QED
    BY <1>1, <1>2, <1>3, <1>4 DEF Next

\* The inductive invariant holds in every state.
THEOREM Invariance == Spec => []IInv
  BY InitIInv, NextIInv, PTL DEF Spec

\* Commands, daemons, mounts and state files are always what the code can
\* make them; a launch is never tried a third time.
THEOREM TypeCorrect == Spec => []TypeOK
  <1>1. IInv => TypeOK
    BY DEF IInv
  <1>2. QED
    BY <1>1, Invariance, PTL

\* acquire_exclusive_dev_lock and the second lock after the volume was
\* opened: with any number of commands and daemons, crashes and kills, at
\* most one daemon serves the volume, and it has the lock.
THEOREM OneServerAlways == Spec => []OneServer
  <1>1. IInv => OneServer
    BY DEF IInv, LockInv, Holding, OneServer
  <1>2. QED
    BY <1>1, Invariance, PTL

-----------------------------------------------------------------------------
(* Signals, state files and what an unmount leaves.  A daemon is known by its *)
(* pid to the command that launched it, then to its state file, then to the   *)
(* commands that read that file; the stages never mix.                        *)

\* The steps at which a command means the daemon its pid names.
Holds(k) == k.pc \in {"exist", "force", "unmount", "ready", "stderr", "nfs", "write",
                      "term", "wait", "killed"}

\* A command between the start of its daemon and the state file.
Launching(k) ==
    \/ k.pc \in {"ready", "stderr", "nfs", "write"}
    \/ k.pc \in {"term", "wait", "killed"} /\ k.tries # 0

\* What a command knows of its daemon: it was started; it serves at most the
\* directory the command remembers, and none when a signal is due; it has
\* ended when the command removes its traces and when rufux umount succeeds.
Informed(k) ==
    \A d \in Daemons : k.pid = d =>
        /\ daemon[d].phase # "none" /\ k.pc # "ulook"
        /\ \A m \in Dirs : mount[m] = d =>
             /\ k.pc \in {"exist", "force", "unmount", "write"} => k.dir = m
             /\ k.pc \notin {"ready", "stderr", "nfs", "term", "wait", "killed"}
        /\ k.pc \in {"rmdir", "unstate"} /\ k.tries = 0 => daemon[d].phase = "gone"
        /\ k.pc = "killed" => daemon[d].phase \in {"dying", "gone"}
        /\ k.pc = "idle" /\ k.cmd = "umount" /\ k.res = "ok" => daemon[d].phase = "gone"

\* A command that nobody disturbs finds what it has read, and launches only
\* when there is no state file.
Undisturbed(k) ==
    ~overlap /\ ~stray =>
        /\ (k.pc \in {"exist", "force", "unmount", "term", "wait", "killed", "rmdir",
                      "unstate"} /\ k.tries = 0) => state[k.dir] = k.pid
        /\ k.pc \in {"mkdir", "fork"} \/ Launching(k) => \A m \in Dirs : state[m] = None

\* rufux mount and rufux umount take different ways; a launch is counted,
\* has a directory, and whoever holds a daemon has its pid.
OnItsWay(k) ==
    /\ \/ k.pc \in {"look", "exist", "force", "mkdir", "fork", "ready", "stderr", "nfs",
                    "write"}
       \/ k.tries # 0
       => k.cmd = "mount"
    /\ k.pc \in {"ready", "stderr", "nfs", "write"} => k.tries # 0
    /\ k.pc \in {"fork", "ready", "stderr", "nfs", "write"} \/ k.tries # 0 => k.dir \in Dirs
    /\ Holds(k) \/ (k.pc \in {"rmdir", "unstate"} /\ k.tries = 0) => k.pid \in Daemons

Sound(k) == Informed(k) /\ Undisturbed(k) /\ OnItsWay(k)

\* A daemon that was not started yet is neither mounted nor in a state file;
\* one that is serves the directory its state file is named after.
Placed ==
    \A d \in Daemons, m \in Dirs :
        /\ mount[m] = d \/ state[m] = d => daemon[d].phase # "none"
        /\ \A k \in Dirs : mount[m] = d /\ state[k] = d => k = m

\* Nobody else knows a daemon that is being launched.
Exclusive ==
    \A c \in Clients : Launching(client[c]) =>
        /\ \A m \in Dirs : state[m] # client[c].pid
        /\ \A o \in Clients \ {c} : Holds(client[o]) => client[o].pid # client[c].pid

\* Changes that are not on the device belong to a daemon that serves, or that
\* ended in a way that is on record.
Dirt ==
    \A d \in Daemons :
        /\ d \in dirty => daemon[d].phase \in {"serve", "dying", "gone"}
        /\ daemon[d].phase = "dying" => d \in unclean
        /\ daemon[d].phase = "gone" /\ d \in dirty => d \in unclean

\* Without overlap one command runs at a time.
Solo ==
    ~overlap => \A c, o \in Clients :
        client[c].pc # "idle" /\ client[o].pc # "idle" => c = o

\* Every daemon that lives, and is not about to die, is in a state file or
\* known to its launcher.
Living(d) == daemon[d].phase \notin {"none", "gone", "dying"}

Found ==
    ~overlap /\ ~stray => \A d \in Daemons : Living(d) =>
        \/ \E m \in Dirs : state[m] = d
        \/ \E c \in Clients : Launching(client[c]) /\ client[c].pid = d

Traced ==
    /\ \A c \in Clients : Sound(client[c])
    /\ Placed /\ Exclusive /\ Dirt /\ Solo /\ Found

\* 0 is neither a pid nor a directory.
LEMMA NoneIsNothing == None \notin Daemons /\ None \notin Dirs
  BY MountAssumption DEF None, Daemons, Dirs

\* What Go makes of a command.
LEMMA GoIs ==
  ASSUME TypeOK, NEW c \in Clients, NEW l, Go(c, l)
  PROVE  /\ client'[c].pc = l /\ client'[c].pid = client[c].pid
         /\ client'[c].dir = client[c].dir /\ client'[c].tries = client[c].tries
         /\ client'[c].cmd = client[c].cmd /\ client'[c].res = client[c].res
         /\ \A o \in Clients \ {c} : client'[o] = client[o]
  BY DEF TypeOK, ClientType, Go

\* What Return makes of a command.
LEMMA ReturnIs ==
  ASSUME TypeOK, NEW c \in Clients, NEW r, Return(c, r)
  PROVE  /\ client'[c].pc = "idle" /\ client'[c].pid = client[c].pid
         /\ client'[c].tries = 0
         /\ client'[c].cmd = client[c].cmd /\ client'[c].res = r
         /\ \A o \in Clients \ {c} : client'[o] = client[o]
  BY DEF TypeOK, ClientType, Return

\* How a daemon's phase may change once it was started.
Onward ==
    \A d \in Daemons :
        /\ daemon'[d].phase = "none" <=> daemon[d].phase = "none"
        /\ daemon[d].phase = "gone" => daemon'[d].phase = "gone"
        /\ daemon[d].phase = "dying" => daemon'[d].phase \in {"dying", "gone"}

\* A command that holds the daemon it held, or one of a state file, and gives
\* up its launch only when the daemon is on its way out.
Passes(c) ==
    /\ Sound(client[c])'
    /\ client[c].pc # "idle"
    /\ Launching(client'[c]) => Launching(client[c]) /\ client'[c].pid = client[c].pid
    /\ Holds(client'[c]) => \/ Holds(client[c]) /\ client'[c].pid = client[c].pid
                            \/ \E m \in Dirs : state[m] = client'[c].pid
    /\ Launching(client[c]) /\ ~Launching(client'[c]) /\ ~stray' =>
         \A d \in Daemons : d = client[c].pid => daemon'[d].phase \in {"none", "gone", "dying"}

\* The steps that change no state file, start no daemon and mount nothing.
LEMMA Traces ==
  ASSUME Traced, TypeOK, TypeOK', Dirt', Onward,
         UNCHANGED <<state, overlap>>, stray => stray',
         \A m \in Dirs : mount'[m] \in {mount[m], None},
         \A c \in Clients : client'[c] = client[c] \/ Passes(c)
  PROVE  Traced'
  <1>0. None \notin Daemons
    BY NoneIsNothing
  <1>1. ASSUME NEW c \in Clients PROVE Sound(client[c])'
    <2>1. CASE Passes(c)
      BY <2>1 DEF Passes
    <2>2. CASE client'[c] = client[c]
      <3>1. Sound(client[c])
        BY DEF Traced
      <3>2. Informed(client[c])'
        BY <1>0, <3>1, <2>2 DEF Sound, Informed, Onward
      <3>3. Undisturbed(client[c])'
        BY <3>1, <2>2 DEF Sound, Undisturbed
      <3>4. OnItsWay(client[c])'
        BY <3>1, <2>2 DEF Sound, OnItsWay
      <3>5. QED
        BY <3>2, <3>3, <3>4 DEF Sound
    <2>3. QED
      BY <2>1, <2>2
  <1>2. Placed'
    BY <1>0 DEF Traced, Placed, Onward
  <1>3. Exclusive'
    <2>1. ASSUME NEW c \in Clients, Launching(client'[c])
          PROVE  Launching(client[c]) /\ client'[c].pid = client[c].pid
      BY <2>1 DEF Passes
    <2>2. ASSUME NEW o \in Clients, Holds(client'[o])
          PROVE  \/ Holds(client[o]) /\ client'[o].pid = client[o].pid
                 \/ \E m \in Dirs : state[m] = client'[o].pid
      BY <2>2 DEF Passes
    <2>3. QED
      BY <2>1, <2>2 DEF Traced, Exclusive
  <1>4. Solo'
    BY DEF Traced, Solo, Passes
  <1>5. Found'
    <2>1. SUFFICES ASSUME ~overlap, ~stray, ~stray', NEW d \in Daemons, Living(d)'
                   PROVE  \/ \E m \in Dirs : state'[m] = d
                          \/ \E c \in Clients : Launching(client'[c]) /\ client'[c].pid = d
      BY DEF Found
    <2>2. Living(d)
      BY <2>1 DEF Onward, Living, TypeOK, Phases
    <2>3. CASE \E m \in Dirs : state[m] = d
      BY <2>3
    <2>4. CASE \E c \in Clients : Launching(client[c]) /\ client[c].pid = d
      <3>1. PICK c \in Clients : Launching(client[c]) /\ client[c].pid = d
        BY <2>4
      <3>2. Launching(client'[c]) /\ client'[c].pid = d
        BY <3>1, <2>1 DEF Passes, Living
      <3>3. QED
        BY <3>2
    <2>5. QED
      BY <2>1, <2>2, <2>3, <2>4 DEF Traced, Found
  <1>6. QED
    BY <1>1, <1>2, <1>3, <1>4, <1>5 DEF Traced

\* A command's own step: nobody else's record changes.
LEMMA CommandTraces ==
  ASSUME IInv, Traced, TypeOK', NEW c \in Clients, Passes(c),
         \A o \in Clients \ {c} : client'[o] = client[o],
         UNCHANGED <<daemon, dirty, unclean, state, overlap>>, stray => stray',
         \A m \in Dirs : mount'[m] \in {mount[m], None}
  PROVE  Traced'
  <1>1. Dirt' /\ Onward
    BY DEF Traced, Dirt, Onward
  <1>2. \A o \in Clients : client'[o] = client[o] \/ Passes(o)
    OBVIOUS
  <1>3. QED
    BY <1>1, <1>2, Traces DEF IInv

\* The daemon has ended in time.
LEMMA EndedTraces ==
  ASSUME IInv, Traced, TypeOK', NEW c \in Clients, Ended(c)
  PROVE  Traced'
  <1>0. TypeOK /\ AllCounted /\ Sound(client[c]) /\ None \notin Daemons
    BY NoneIsNothing DEF IInv, Traced
  <1>1. /\ \A o \in Clients \ {c} : client'[o] = client[o]
        /\ UNCHANGED <<daemon, dirty, unclean, state, overlap>> /\ (stray => stray')
    BY <1>0, GoIs DEF Ended, world, bounds
  <1>2. \A m \in Dirs : mount'[m] \in {mount[m], None}
    BY <1>0 DEF Ended, world, TypeOK
  <1>3. Informed(client[c])'
    BY <1>0, <1>1, GoIs DEF Ended, AfterEnd, Alive, world, TypeOK, Sound, Informed,
       AllCounted, Counted, OnItsWay
  <1>4. Undisturbed(client[c])'
    BY <1>0, <1>1, GoIs DEF Ended, AfterEnd, Alive, world, Sound, Undisturbed,
       AllCounted, Counted, Launching, OnItsWay
  <1>5. OnItsWay(client[c])'
    BY <1>0, <1>1, GoIs DEF Ended, AfterEnd, Alive, Sound, OnItsWay, AllCounted,
       Counted, Holds
  <1>6. Passes(c)
    BY <1>0, <1>1, <1>3, <1>4, <1>5, GoIs DEF Ended, AfterEnd, Alive, Sound, Informed,
       AllCounted, Counted, Launching, Holds, Passes, OnItsWay
  <1>7. QED
    BY <1>1, <1>2, <1>6, CommandTraces

\* The time after SIGKILL is over.
LEMMA AfterKillTraces ==
  ASSUME IInv, Traced, TypeOK', NEW c \in Clients, AfterKill(c)
  PROVE  Traced'
  <1>0. TypeOK /\ AllCounted /\ Sound(client[c]) /\ None \notin Daemons
    BY NoneIsNothing DEF IInv, Traced
  <1>1. /\ \A o \in Clients \ {c} : client'[o] = client[o]
        /\ UNCHANGED <<daemon, dirty, unclean, state, overlap>> /\ (stray => stray')
    BY <1>0, GoIs, ReturnIs DEF AfterKill, world, bounds
  <1>2. \A m \in Dirs : mount'[m] \in {mount[m], None}
    BY <1>0 DEF AfterKill, world, TypeOK
  <1>3. Informed(client[c])'
    BY <1>0, <1>1, GoIs, ReturnIs DEF AfterKill, AfterEnd, Alive, world, TypeOK, Sound,
       Informed, AllCounted, Counted, OnItsWay
  <1>4. Undisturbed(client[c])'
    BY <1>0, <1>1, GoIs, ReturnIs DEF AfterKill, AfterEnd, Alive, world, Sound,
       Undisturbed, AllCounted, Counted, Launching, OnItsWay
  <1>5. OnItsWay(client[c])'
    BY <1>0, <1>1, GoIs, ReturnIs DEF AfterKill, AfterEnd, Alive, Sound, OnItsWay,
       AllCounted, Counted, Holds
  <1>6. Passes(c)
    BY <1>0, <1>1, <1>3, <1>4, <1>5, GoIs, ReturnIs DEF AfterKill, AfterEnd, Alive,
       Sound, Informed, AllCounted, Counted, Launching, Holds, Passes, OnItsWay
  <1>7. QED
    BY <1>1, <1>2, <1>6, CommandTraces

\* The directory goes, if nothing is mounted there.
LEMMA RmDirTraces ==
  ASSUME IInv, Traced, TypeOK', NEW c \in Clients, RmDir(c)
  PROVE  Traced'
  <1>0. TypeOK /\ AllCounted /\ Sound(client[c]) /\ None \notin Daemons
    BY NoneIsNothing DEF IInv, Traced
  <1>1. /\ \A o \in Clients \ {c} : client'[o] = client[o]
        /\ UNCHANGED <<daemon, dirty, unclean, state, overlap>> /\ (stray => stray')
    BY <1>0, GoIs, ReturnIs DEF RmDir, world, bounds
  <1>2. \A m \in Dirs : mount'[m] \in {mount[m], None}
    BY <1>0 DEF RmDir, world, TypeOK
  <1>3. Informed(client[c])'
    BY <1>0, <1>1, GoIs, ReturnIs DEF RmDir, world, TypeOK, Sound, Informed, AllCounted,
       Counted, OnItsWay
  <1>4. Undisturbed(client[c])'
    BY <1>0, <1>1, GoIs, ReturnIs DEF RmDir, world, Sound, Undisturbed, AllCounted,
       Counted, Launching, OnItsWay
  <1>5. OnItsWay(client[c])'
    BY <1>0, <1>1, GoIs, ReturnIs DEF RmDir, Sound, OnItsWay, AllCounted, Counted, Holds
  <1>6. Passes(c)
    BY <1>0, <1>1, <1>3, <1>4, <1>5, GoIs, ReturnIs DEF RmDir, Sound, Informed,
       AllCounted, Counted, Launching, Holds, Passes, OnItsWay
  <1>7. QED
    BY <1>1, <1>2, <1>6, CommandTraces

\* rufux mount looks at what it found.
LEMMA ExistTraces ==
  ASSUME IInv, Traced, TypeOK', NEW c \in Clients, Exist(c)
  PROVE  Traced'
  <1>0. TypeOK /\ AllCounted /\ Sound(client[c]) /\ None \notin Daemons
    BY NoneIsNothing DEF IInv, Traced
  <1>1. /\ \A o \in Clients \ {c} : client'[o] = client[o]
        /\ UNCHANGED <<daemon, dirty, unclean, state, overlap>> /\ (stray => stray')
    BY <1>0, GoIs, ReturnIs DEF Exist, world, bounds
  <1>2. \A m \in Dirs : mount'[m] \in {mount[m], None}
    BY <1>0 DEF Exist, world, TypeOK
  <1>3. Informed(client[c])'
    BY <1>0, <1>1, GoIs, ReturnIs DEF Exist, Alive, world, TypeOK, Sound, Informed,
       AllCounted, Counted, OnItsWay
  <1>4. Undisturbed(client[c])'
    BY <1>0, <1>1, GoIs, ReturnIs DEF Exist, Alive, world, Sound, Undisturbed,
       AllCounted, Counted, Launching, OnItsWay
  <1>5. OnItsWay(client[c])'
    BY <1>0, <1>1, GoIs, ReturnIs DEF Exist, Alive, Sound, OnItsWay, AllCounted,
       Counted, Holds
  <1>6. Passes(c)
    BY <1>0, <1>1, <1>3, <1>4, <1>5, GoIs, ReturnIs DEF Exist, Alive, Sound, Informed,
       AllCounted, Counted, Launching, Holds, Passes, OnItsWay
  <1>7. QED
    BY <1>1, <1>2, <1>6, CommandTraces

\* A mount without its daemon is forced off.
LEMMA ForceOffTraces ==
  ASSUME IInv, Traced, TypeOK', NEW c \in Clients, ForceOff(c)
  PROVE  Traced'
  <1>0. TypeOK /\ AllCounted /\ Sound(client[c]) /\ None \notin Daemons
    BY NoneIsNothing DEF IInv, Traced
  <1>1. /\ \A o \in Clients \ {c} : client'[o] = client[o]
        /\ UNCHANGED <<daemon, dirty, unclean, state, overlap>> /\ (stray => stray')
    BY <1>0, GoIs, ReturnIs DEF ForceOff, world, bounds
  <1>2. \A m \in Dirs : mount'[m] \in {mount[m], None}
    BY <1>0 DEF ForceOff, world, TypeOK
  <1>3. Informed(client[c])'
    BY <1>0, <1>1, GoIs, ReturnIs DEF ForceOff, world, TypeOK, Sound, Informed,
       AllCounted, Counted, OnItsWay
  <1>4. Undisturbed(client[c])'
    BY <1>0, <1>1, GoIs, ReturnIs DEF ForceOff, world, Sound, Undisturbed, AllCounted,
       Counted, Launching, OnItsWay
  <1>5. OnItsWay(client[c])'
    BY <1>0, <1>1, GoIs, ReturnIs DEF ForceOff, Sound, OnItsWay, AllCounted, Counted,
       Holds
  <1>6. Passes(c)
    BY <1>0, <1>1, <1>3, <1>4, <1>5, GoIs, ReturnIs DEF ForceOff, Sound, Informed,
       AllCounted, Counted, Launching, Holds, Passes, OnItsWay
  <1>7. QED
    BY <1>1, <1>2, <1>6, CommandTraces

\* rufux umount takes the mount off, or leaves everything as it is.
LEMMA UnmountTraces ==
  ASSUME IInv, Traced, TypeOK', NEW c \in Clients, Unmount(c)
  PROVE  Traced'
  <1>0. TypeOK /\ AllCounted /\ Sound(client[c]) /\ None \notin Daemons
    BY NoneIsNothing DEF IInv, Traced
  <1>1. /\ \A o \in Clients \ {c} : client'[o] = client[o]
        /\ UNCHANGED <<daemon, dirty, unclean, state, overlap>> /\ (stray => stray')
    BY <1>0, GoIs, ReturnIs DEF Unmount, world, bounds
  <1>2. \A m \in Dirs : mount'[m] \in {mount[m], None}
    BY <1>0 DEF Unmount, world, TypeOK
  <1>3. Informed(client[c])'
    BY <1>0, <1>1, GoIs, ReturnIs DEF Unmount, world, TypeOK, Sound, Informed,
       AllCounted, Counted, OnItsWay
  <1>4. Undisturbed(client[c])'
    BY <1>0, <1>1, GoIs, ReturnIs DEF Unmount, world, Sound, Undisturbed, AllCounted,
       Counted, Launching, OnItsWay
  <1>5. OnItsWay(client[c])'
    BY <1>0, <1>1, GoIs, ReturnIs DEF Unmount, Sound, OnItsWay, AllCounted, Counted,
       Holds
  <1>6. Passes(c)
    BY <1>0, <1>1, <1>3, <1>4, <1>5, GoIs, ReturnIs DEF Unmount, Sound, Informed,
       AllCounted, Counted, Launching, Holds, Passes, OnItsWay
  <1>7. QED
    BY <1>1, <1>2, <1>6, CommandTraces

\* The port arrives, or not, and then stderr is read.
LEMMA ReadyTraces ==
  ASSUME IInv, Traced, TypeOK', NEW c \in Clients, Ready(c) \/ ReadErr(c)
  PROVE  Traced'
  <1>0. TypeOK /\ AllCounted /\ Sound(client[c]) /\ None \notin Daemons
    BY NoneIsNothing DEF IInv, Traced
  <1>1. /\ \A o \in Clients \ {c} : client'[o] = client[o]
        /\ UNCHANGED <<daemon, dirty, unclean, state, overlap>> /\ (stray => stray')
    BY <1>0, GoIs DEF Ready, ReadErr, world, bounds
  <1>2. \A m \in Dirs : mount'[m] \in {mount[m], None}
    BY <1>0 DEF Ready, ReadErr, world, TypeOK
  <1>3. Informed(client[c])'
    BY <1>0, <1>1, GoIs DEF Ready, ReadErr, world, TypeOK, Sound, Informed, AllCounted, Counted,
       OnItsWay
  <1>4. Undisturbed(client[c])'
    BY <1>0, <1>1, GoIs DEF Ready, ReadErr, world, Sound, Undisturbed, AllCounted, Counted,
       Launching, OnItsWay
  <1>5. OnItsWay(client[c])'
    BY <1>0, <1>1, GoIs DEF Ready, ReadErr, Sound, OnItsWay, AllCounted, Counted, Holds
  <1>6. Passes(c)
    BY <1>0, <1>1, <1>3, <1>4, <1>5, GoIs DEF Ready, ReadErr, Sound, Informed, AllCounted,
       Counted, Launching, Holds, Passes, OnItsWay
  <1>7. QED
    BY <1>1, <1>2, <1>6, CommandTraces

\* A command dies; what it knew is lost, and that is on record.
LEMMA KilledTraces ==
  ASSUME IInv, Traced, TypeOK', NEW c \in Clients, Killed(c)
  PROVE  Traced'
  <1>0. TypeOK /\ AllCounted /\ Sound(client[c]) /\ None \notin Daemons
    BY NoneIsNothing DEF IInv, Traced
  <1>1. /\ \A o \in Clients \ {c} : client'[o] = client[o]
        /\ UNCHANGED <<daemon, dirty, unclean, state, overlap>> /\ (stray => stray')
    BY <1>0, ReturnIs DEF Killed, world, bounds, Happens
  <1>2. \A m \in Dirs : mount'[m] \in {mount[m], None}
    BY <1>0 DEF Killed, world, TypeOK
  <1>3. Informed(client[c])'
    BY <1>0, <1>1, ReturnIs DEF Killed, world, TypeOK, Sound, Informed, AllCounted,
       Counted, OnItsWay
  <1>4. Undisturbed(client[c])'
    BY <1>0, <1>1, ReturnIs DEF Killed, world, Sound, Undisturbed, AllCounted, Counted,
       Launching, OnItsWay
  <1>5. OnItsWay(client[c])'
    BY <1>0, <1>1, ReturnIs DEF Killed, Sound, OnItsWay, AllCounted, Counted, Holds
  <1>6. Passes(c)
    BY <1>0, <1>1, <1>3, <1>4, <1>5, ReturnIs DEF Killed, Sound, Informed, AllCounted,
       Counted, Launching, Holds, Passes, OnItsWay
  <1>7. QED
    BY <1>1, <1>2, <1>6, CommandTraces

\* find_matching_state, of rufux mount and of rufux umount.
LEMMA LookTraces ==
  ASSUME IInv, Traced, TypeOK', NEW c \in Clients, Look(c) \/ LookUmount(c)
  PROVE  Traced'
  <1>0. /\ TypeOK /\ client[c].tries = 0 /\ Sound(client[c]) /\ Placed
        /\ client[c].pc \in {"look", "ulook"} /\ None \notin Daemons
    BY NoneIsNothing DEF IInv, Traced, AllCounted, Counted, Look, LookUmount
  <1>1. UNCHANGED <<daemon, dirty, unclean, state, overlap, stray>>
    BY DEF Look, LookUmount, world, bounds
  <1>2. \A m \in Dirs : mount'[m] \in {mount[m], None}
    BY <1>0 DEF Look, LookUmount, world, TypeOK
  <1>3. CASE \E m \in Dirs : /\ state[m] # None /\ UNCHANGED mount
                             /\ \/ /\ client[c].pc = "look"
                                   /\ client' = [client EXCEPT ![c].pc = "exist",
                                                   ![c].dir = m, ![c].pid = state[m]]
                                \/ client' = [client EXCEPT ![c].pc = "unmount",
                                                   ![c].dir = m, ![c].pid = state[m]]
    <2>1. PICK m \in Dirs :
            /\ state[m] # None /\ UNCHANGED mount
            /\ \/ /\ client[c].pc = "look"
                  /\ client' = [client EXCEPT ![c].pc = "exist", ![c].dir = m,
                                              ![c].pid = state[m]]
               \/ client' = [client EXCEPT ![c].pc = "unmount", ![c].dir = m,
                                           ![c].pid = state[m]]
      BY <1>3
    <2>s. state[m] \in Daemons
      BY <1>0, <2>1 DEF TypeOK
    <2>2. /\ \/ client'[c].pc = "exist" /\ client'[c].cmd = "mount"
             \/ client'[c].pc = "unmount"
          /\ client'[c].pid = state[m] /\ client'[c].dir = m /\ client'[c].tries = 0
          /\ \A o \in Clients \ {c} : client'[o] = client[o]
      <3>1. CASE client' = [client EXCEPT ![c].pc = "unmount", ![c].dir = m,
                                          ![c].pid = state[m]]
        BY <1>0, <3>1 DEF TypeOK, ClientType
      <3>2. CASE /\ client[c].pc = "look"
                 /\ client' = [client EXCEPT ![c].pc = "exist", ![c].dir = m,
                                             ![c].pid = state[m]]
        BY <1>0, <3>2 DEF Sound, OnItsWay, TypeOK, ClientType, Holds
      <3>3. QED
        BY <2>1, <3>1, <3>2
    <2>3. Informed(client[c])'
      BY <1>0, <1>1, <2>1, <2>2 DEF Informed, Placed
    <2>4. Undisturbed(client[c])' /\ OnItsWay(client[c])'
      BY <1>0, <1>1, <2>s, <2>2 DEF Undisturbed, OnItsWay, Launching, Holds
    <2>5. Passes(c)
      BY <1>0, <1>1, <2>2, <2>3, <2>4 DEF Passes, Sound, Launching
    <2>6. QED
      BY <1>1, <1>2, <2>2, <2>5, CommandTraces
  <1>4. CASE Go(c, "mkdir") /\ client[c].pc = "look" /\ \A m \in Dirs : state[m] = None
    <2>1. Informed(client[c])' /\ Undisturbed(client[c])' /\ OnItsWay(client[c])'
      BY <1>0, <1>1, <1>2, <1>4, GoIs DEF Sound, Informed, Undisturbed, OnItsWay, Launching, Holds
    <2>2. Passes(c)
      BY <1>0, <1>1, <1>4, <2>1, GoIs DEF Passes, Sound, Launching, Holds
    <2>3. QED
      BY <1>0, <1>1, <1>2, <1>4, <2>2, GoIs, CommandTraces
  <1>5. CASE \E r \in {"ok", "err"} : Return(c, r) /\ client[c].pc = "ulook"
    <2>1. Informed(client[c])' /\ Undisturbed(client[c])' /\ OnItsWay(client[c])'
      BY <1>0, <1>1, <1>2, <1>5, ReturnIs
         DEF Sound, Informed, Undisturbed, OnItsWay, Launching, Holds
    <2>2. Passes(c)
      BY <1>0, <1>1, <1>5, <2>1, ReturnIs DEF Passes, Sound, Launching, Holds
    <2>3. QED
      BY <1>0, <1>1, <1>2, <1>5, <2>2, ReturnIs, CommandTraces
  <1>6. QED
    BY <1>3, <1>4, <1>5 DEF Look, LookUmount, world

\* make_unique_mount_dir.
LEMMA MkDirTraces ==
  ASSUME IInv, Traced, TypeOK', NEW c \in Clients, MkDir(c)
  PROVE  Traced'
  <1>0. /\ TypeOK /\ client[c].tries = 0 /\ Sound(client[c])
        /\ client[c].pc = "mkdir" /\ client[c].cmd = "mount"
    BY DEF IInv, Traced, AllCounted, Counted, MkDir, Sound, OnItsWay, Holds
  <1>1. UNCHANGED <<daemon, dirty, unclean, state, overlap, stray, mount>>
    BY DEF MkDir, bounds
  <1>2. /\ client'[c].pc \in {"fork", "idle"} /\ client'[c].pid = client[c].pid
        /\ client'[c].tries = 0 /\ client'[c].cmd = "mount"
        /\ client'[c].pc = "fork" => client'[c].dir \in Dirs
        /\ \A o \in Clients \ {c} : client'[o] = client[o]
    <2>1. CASE Return(c, "err")
      BY <1>0, <2>1, ReturnIs
    <2>2. CASE \E m \in Dirs : client' = [client EXCEPT ![c].pc = "fork", ![c].dir = m]
      BY <1>0, <2>2 DEF TypeOK, ClientType
    <2>3. QED
      BY <2>1, <2>2 DEF MkDir
  <1>3. Informed(client[c])' /\ Undisturbed(client[c])' /\ OnItsWay(client[c])'
    BY <1>0, <1>1, <1>2 DEF Sound, Informed, Undisturbed, OnItsWay, Launching, Holds
  <1>4. Passes(c)
    BY <1>0, <1>1, <1>2, <1>3 DEF Passes, Sound, Launching, Holds
  <1>5. QED
    BY <1>1, <1>2, <1>4, CommandTraces

\* SIGTERM, or no daemon any more.
LEMMA TerminateTraces ==
  ASSUME IInv, Traced, TypeOK', NEW c \in Clients, Terminate(c)
  PROVE  Traced'
  <1>0. /\ TypeOK /\ Sound(client[c]) /\ Dirt /\ client[c].pc = "term"
    BY DEF IInv, Traced, Terminate
  <1>1. /\ UNCHANGED <<dirty, unclean, state, overlap, stray, mount>>
        /\ \A d \in Daemons : daemon'[d].phase = daemon[d].phase
    BY <1>0 DEF Terminate, bounds, TypeOK
  <1>2. Dirt' /\ Onward
    BY <1>0, <1>1 DEF Dirt, Onward
  <1>3. /\ \A d \in Daemons :
             (d = client[c].pid /\ client'[c].pc # "wait") => daemon[d].phase \in {"none", "gone"}
        /\ \/ client'[c].pc \in {"wait", "rmdir"}
           \/ client'[c].pc = "fork" /\ client[c].tries # 0
        /\ client'[c].pid = client[c].pid
        /\ client'[c].dir = client[c].dir /\ client'[c].tries = client[c].tries
        /\ client'[c].cmd = client[c].cmd
        /\ \A o \in Clients \ {c} : client'[o] = client[o]
    <2>1. CASE Alive(client[c].pid) /\ Go(c, "wait")
      BY <1>0, <2>1, GoIs
    <2>2. CASE ~Alive(client[c].pid) /\ Go(c, AfterEnd(c))
      BY <1>0, <2>2, GoIs, NoneIsNothing DEF AfterEnd, Alive
    <2>3. QED
      BY <2>1, <2>2 DEF Terminate
  <1>4. Informed(client[c])'
    BY <1>0, <1>1, <1>3 DEF Sound, Informed
  <1>5. Undisturbed(client[c])' /\ OnItsWay(client[c])'
    BY <1>0, <1>1, <1>3 DEF Sound, Undisturbed, OnItsWay, Launching, Holds
  <1>6. Passes(c)
    BY <1>0, <1>1, <1>3, <1>4, <1>5 DEF Passes, Sound, Launching, Holds
  <1>7. QED
    BY <1>0, <1>1, <1>2, <1>3, <1>6, Traces

\* SIGKILL.
LEMMA TimeoutTraces ==
  ASSUME IInv, Traced, TypeOK', NEW c \in Clients, Timeout(c)
  PROVE  Traced'
  <1> DEFINE p == client[c].pid
  <1>0. /\ TypeOK /\ Sound(client[c]) /\ Dirt /\ client[c].pc = "wait"
        /\ p \in Daemons /\ daemon[p].phase \notin {"none", "gone"}
    BY DEF IInv, Traced, Timeout, TypeOK, ClientType, Alive
  <1>1. /\ UNCHANGED <<dirty, state, overlap, stray, mount>>
        /\ unclean' = unclean \cup {p} /\ daemon'[p].phase = "dying"
        /\ \A d \in Daemons \ {p} : daemon'[d] = daemon[d]
    BY <1>0 DEF Timeout, bounds, TypeOK
  <1>2. Dirt' /\ Onward
    BY <1>0, <1>1 DEF Dirt, Onward
  <1>3. /\ client'[c].pc = "killed" /\ client'[c].pid = p
        /\ client'[c].dir = client[c].dir /\ client'[c].tries = client[c].tries
        /\ client'[c].cmd = client[c].cmd
        /\ \A o \in Clients \ {c} : client'[o] = client[o]
    BY <1>0, GoIs DEF Timeout
  <1>4. Informed(client[c])'
    BY <1>0, <1>1, <1>3 DEF Sound, Informed
  <1>5. Undisturbed(client[c])' /\ OnItsWay(client[c])'
    BY <1>0, <1>1, <1>3 DEF Sound, Undisturbed, OnItsWay, Launching, Holds
  <1>6. Passes(c)
    BY <1>0, <1>1, <1>3, <1>4, <1>5 DEF Passes, Sound, Launching, Holds
  <1>7. QED
    BY <1>0, <1>1, <1>2, <1>3, <1>6, Traces

\* A daemon's own steps, its crash, and the user's eject.
LEMMA DaemonTraces ==
  ASSUME IInv, Traced, TypeOK',
         (\E d \in Daemons : DaemonStep(d) \/ Crash(d)) \/ (\E m \in Dirs : Eject(m))
  PROVE  Traced'
  <1>0. TypeOK /\ Dirt /\ None \notin Daemons
    BY NoneIsNothing DEF IInv, Traced
  <1>1. UNCHANGED <<client, state, overlap, stray>>
    BY DEF DaemonStep, Lock, OpenVolume, Relock, Serve, Stop, Die, Crash, Eject, bounds
  <1>2. \A m \in Dirs : mount'[m] \in {mount[m], None}
    BY <1>0 DEF DaemonStep, Lock, OpenVolume, Relock, Serve, Stop, Die, Crash, Eject, TypeOK
  <1>3. Dirt' /\ Onward
    <2>1. CASE \E m \in Dirs : Eject(m)
      BY <1>0, <2>1 DEF Eject, Dirt, Onward
    <2>2. ASSUME NEW d \in Daemons, Lock(d) \/ OpenVolume(d) \/ Relock(d)
          PROVE  Dirt' /\ Onward
      <3>1. /\ UNCHANGED <<dirty, unclean>> /\ daemon[d].phase \in {"start", "open", "opened"}
            /\ daemon'[d].phase \in {"open", "opened", "serve", "gone"}
            /\ \A o \in Daemons \ {d} : daemon'[o] = daemon[o]
        BY <1>0, <2>2 DEF Lock, OpenVolume, Relock, Ends, TypeOK
      <3>2. QED
        BY <1>0, <3>1 DEF Dirt, Onward
    <2>3. ASSUME NEW d \in Daemons, Serve(d)
          PROVE  Dirt' /\ Onward
      BY <1>0, <2>3 DEF Serve, Dirt, Onward
    <2>4. ASSUME NEW d \in Daemons, Stop(d) \/ Die(d) \/ Crash(d)
          PROVE  Dirt' /\ Onward
      <3>1. /\ daemon'[d].phase = "gone" /\ daemon[d].phase # "none"
            /\ \A o \in Daemons \ {d} : daemon'[o] = daemon[o]
            /\ dirty' \subseteq dirty /\ unclean \subseteq unclean'
            /\ d \in dirty' => d \in unclean'
        BY <1>0, <2>4 DEF Stop, Die, Crash, Alive, Ends, TypeOK, Dirt
      <3>2. QED
        BY <1>0, <3>1 DEF Dirt, Onward
    <2>5. QED
      BY <2>1, <2>2, <2>3, <2>4 DEF DaemonStep
  <1>4. QED
    BY <1>0, <1>1, <1>2, <1>3, Traces

\* mount_nfs: the daemon is still known to its launcher only.
LEMMA MountNfsTraces ==
  ASSUME IInv, Traced, TypeOK', NEW c \in Clients, MountNfs(c)
  PROVE  Traced'
  <1> DEFINE p == client[c].pid
             m == client[c].dir
  <1>0. /\ TypeOK /\ Sound(client[c]) /\ client[c].pc = "nfs" /\ client[c].tries # 0
        /\ Traced /\ Launching(client[c])
    BY DEF IInv, Traced, MountNfs, Sound, OnItsWay, Launching, Holds
  <1>1. UNCHANGED <<daemon, dirty, unclean, state, overlap, stray>>
    BY DEF MountNfs, bounds
  <1>2. CASE Go(c, "term") /\ UNCHANGED mount
    <2>1. Informed(client[c])' /\ Undisturbed(client[c])' /\ OnItsWay(client[c])'
      BY <1>0, <1>1, <1>2, GoIs DEF Sound, Informed, Undisturbed, OnItsWay, Launching, Holds
    <2>2. Passes(c)
      BY <1>0, <1>1, <1>2, <2>1, GoIs DEF Passes, Sound, Launching, Holds
    <2>3. QED
      BY <1>0, <1>1, <1>2, <2>2, GoIs, CommandTraces
  <1>3. CASE /\ daemon[p].phase = "serve"
             /\ mount' = [mount EXCEPT ![m] = p]
             /\ Go(c, "write")
    <2>1. /\ client'[c].pc = "write" /\ client'[c].pid = p /\ client'[c].dir = m
          /\ client'[c].tries # 0 /\ client'[c].cmd = client[c].cmd
          /\ \A o \in Clients \ {c} : client'[o] = client[o]
      BY <1>0, <1>3, GoIs
    <2>2. \A k \in Dirs : mount'[k] = mount[k] \/ (k = m /\ mount'[k] = p)
      BY <1>0, <1>3 DEF TypeOK
    <2>3. \A o \in Clients : Launching(client'[o]) <=> Launching(client[o])
      BY <1>0, <2>1 DEF Launching
    <2>4. \A o \in Clients : Holds(client'[o]) <=> Holds(client[o])
      BY <1>0, <2>1 DEF Holds
    <2>5. \A o \in Clients : client'[o].pid = client[o].pid
      BY <2>1
    <2>x. \A o \in Clients \ {c} : Holds(client[o]) => client[o].pid # p
      BY <1>0 DEF Traced, Exclusive
    <2>6. ASSUME NEW o \in Clients PROVE Sound(client[o])'
      <3>1. Informed(client[o])'
        <4>1. CASE o = c
          BY <1>0, <1>1, <2>1, <2>2, <4>1 DEF Sound, Informed
        <4>2. CASE o # c
          BY <1>0, <1>1, <2>1, <2>2, <2>x, <4>2 DEF Traced, Sound, Informed, Holds
        <4>3. QED
          BY <4>1, <4>2
      <3>2. Undisturbed(client[o])' /\ OnItsWay(client[o])'
        BY <1>0, <1>1, <2>1 DEF Traced, Sound, Undisturbed, OnItsWay, Launching, Holds
      <3>3. QED
        BY <3>1, <3>2 DEF Sound
    <2>7. Placed'
      BY <1>0, <1>1, <1>3, <2>2 DEF Traced, Placed, Exclusive
    <2>8. Exclusive' /\ Dirt'
      BY <1>0, <1>1, <2>3, <2>4, <2>5 DEF Traced, Exclusive, Dirt
    <2>9. Solo'
      BY <1>0, <1>1, <2>1 DEF Traced, Solo
    <2>10. Found'
      BY <1>0, <1>1, <2>3, <2>5 DEF Traced, Found, Living
    <2>11. QED
      BY <2>6, <2>7, <2>8, <2>9, <2>10 DEF Traced
  <1>4. QED
    BY <1>2, <1>3 DEF MountNfs

\* A launch: the daemon gets a pid that nobody has.
LEMMA ForkTraces ==
  ASSUME IInv, Traced, TypeOK', NEW c \in Clients, Fork(c)
  PROVE  Traced'
  <1>0. /\ TypeOK /\ Sound(client[c]) /\ client[c].pc = "fork" /\ client[c].cmd = "mount"
        /\ Traced /\ client[c].tries \in 0 .. 2
    BY DEF IInv, Traced, Fork, Sound, OnItsWay, TypeOK, ClientType, Holds
  <1>n. client[c].tries + 1 # 0
    BY <1>0
  <1>1. UNCHANGED <<dirty, unclean, state, overlap, stray, mount>>
    BY DEF Fork, bounds
  <1>2. CASE /\ client' = [client EXCEPT
                  ![c].pc = IF client[c].tries = 0 /\ IsDev THEN "fork" ELSE "rmdir",
                  ![c].tries = @ + 1]
             /\ UNCHANGED daemon
    <2>1. /\ client'[c].pc \in {"fork", "rmdir"} /\ client'[c].pid = client[c].pid
          /\ client'[c].tries = client[c].tries + 1 /\ client'[c].cmd = "mount"
          /\ client'[c].dir = client[c].dir
          /\ \A o \in Clients \ {c} : client'[o] = client[o]
      BY <1>0, <1>2 DEF TypeOK, ClientType
    <2>2. Informed(client[c])' /\ Undisturbed(client[c])' /\ OnItsWay(client[c])'
      BY <1>0, <1>n, <1>1, <1>2, <2>1 DEF Sound, Informed, Undisturbed, OnItsWay, Launching, Holds
    <2>3. Passes(c)
      BY <1>0, <1>1, <2>1, <2>2 DEF Passes, Sound, Launching, Holds
    <2>4. QED
      BY <1>1, <1>2, <2>1, <2>3, CommandTraces
  <1>3. CASE \E d \in Daemons :
               /\ daemon[d].phase = "none"
               /\ daemon' = [daemon EXCEPT ![d].phase = "start"]
               /\ client' = [client EXCEPT ![c].pc = "ready", ![c].pid = d,
                                           ![c].tries = @ + 1]
    <2>1. PICK d \in Daemons :
               /\ daemon[d].phase = "none"
               /\ daemon' = [daemon EXCEPT ![d].phase = "start"]
               /\ client' = [client EXCEPT ![c].pc = "ready", ![c].pid = d,
                                           ![c].tries = @ + 1]
      BY <1>3
    <2>2. /\ client'[c].pc = "ready" /\ client'[c].pid = d /\ client'[c].cmd = "mount"
          /\ client'[c].tries = client[c].tries + 1 /\ client'[c].dir = client[c].dir
          /\ \A o \in Clients \ {c} : client'[o] = client[o]
      BY <1>0, <2>1 DEF TypeOK, ClientType
    <2>3. /\ daemon'[d].phase = "start" /\ d \notin dirty
          /\ \A o \in Daemons \ {d} : daemon'[o] = daemon[o]
      BY <1>0, <2>1 DEF TypeOK, Traced, Dirt
    <2>4. /\ \A m \in Dirs : mount[m] # d /\ state[m] # d
          /\ \A o \in Clients : client[o].pid # d
      BY <1>0, <2>1 DEF Traced, Sound, Informed, Placed
    <2>5. ASSUME NEW o \in Clients PROVE Sound(client[o])'
      <3>1. Informed(client[o])'
        <4>1. CASE o = c
          BY <1>1, <2>2, <2>3, <2>4, <4>1 DEF Informed
        <4>2. CASE o # c
          BY <1>0, <1>1, <2>2, <2>3, <2>4, <4>2 DEF Traced, Sound, Informed
        <4>3. QED
          BY <4>1, <4>2
      <3>2. Undisturbed(client[o])' /\ OnItsWay(client[o])'
        BY <1>0, <1>n, <1>1, <2>2 DEF Traced, Sound, Undisturbed, OnItsWay, Launching, Holds
      <3>3. QED
        BY <3>1, <3>2 DEF Sound
    <2>6. Placed' /\ Dirt'
      BY <1>0, <1>1, <2>3, <2>4 DEF Traced, Placed, Dirt
    <2>7. Exclusive'
      BY <1>0, <1>1, <2>2, <2>4 DEF Traced, Exclusive, Launching, Holds
    <2>8. Solo'
      BY <1>0, <1>1, <2>2 DEF Traced, Solo
    <2>9. Found'
      <3>1. SUFFICES ASSUME ~overlap, ~stray, NEW e \in Daemons, Living(e)'
                     PROVE  \/ \E m \in Dirs : state'[m] = e
                            \/ \E o \in Clients : Launching(client'[o]) /\ client'[o].pid = e
        BY <1>1 DEF Found
      <3>2. CASE e = d
        BY <3>2, <2>2 DEF Launching
      <3>3. CASE e # d
        <4>1. Living(e)
          BY <3>1, <3>3, <2>3 DEF Living
        <4>2. CASE \E m \in Dirs : state[m] = e
          BY <4>2, <1>1
        <4>3. CASE \E o \in Clients : Launching(client[o]) /\ client[o].pid = e
          <5>1. PICK o \in Clients : Launching(client[o]) /\ client[o].pid = e
            BY <4>3
          <5>2. o # c
            BY <5>1, <1>0 DEF Launching
          <5>3. QED
            BY <5>1, <5>2, <2>2
        <4>4. QED
          BY <1>0, <3>1, <4>1, <4>2, <4>3 DEF Traced, Found
      <3>4. QED
        BY <3>2, <3>3
    <2>10. QED
      BY <2>5, <2>6, <2>7, <2>8, <2>9 DEF Traced
  <1>4. QED
    BY <1>2, <1>3 DEF Fork

\* A state file is written by the launcher of its daemon, or not at all.
LEMMA WriteStateTraces ==
  ASSUME IInv, Traced, TypeOK', NEW c \in Clients, WriteState(c)
  PROVE  Traced'
  <1> DEFINE p == client[c].pid
             m == client[c].dir
  <1>0. /\ TypeOK /\ Sound(client[c]) /\ client[c].pc = "write" /\ client[c].cmd = "mount"
        /\ Traced /\ Launching(client[c])
    BY DEF IInv, Traced, WriteState, Sound, OnItsWay, Launching, Holds
  <1>1. UNCHANGED <<daemon, dirty, unclean, overlap, mount>> /\ (stray => stray')
    BY DEF WriteState
  <1>2. /\ client'[c].pc = "idle" /\ client'[c].pid = p
        /\ client'[c].tries = 0 /\ client'[c].cmd = "mount"
        /\ \A o \in Clients \ {c} : client'[o] = client[o]
    BY <1>0, ReturnIs DEF WriteState
  <1>3. CASE stray' = TRUE /\ UNCHANGED state
    <2>1. Informed(client[c])' /\ Undisturbed(client[c])' /\ OnItsWay(client[c])'
      BY <1>0, <1>1, <1>2, <1>3 DEF Sound, Informed, Undisturbed, OnItsWay, Launching, Holds
    <2>2. Passes(c)
      BY <1>0, <1>1, <1>2, <1>3, <2>1 DEF Passes, Sound, Launching, Holds
    <2>3. QED
      BY <1>1, <1>2, <1>3, <2>2, CommandTraces
  <1>4. CASE state' = [state EXCEPT ![m] = p] /\ UNCHANGED stray
    <2>2. \A k \in Dirs : state'[k] = state[k] \/ (k = m /\ state'[k] = p)
      BY <1>0, <1>4 DEF TypeOK
    <2>3. ~overlap => \A o \in Clients \ {c} : client[o].pc = "idle"
      BY <1>0 DEF Traced, Solo
    <2>4. ASSUME NEW o \in Clients PROVE Sound(client[o])'
      <3>1. Informed(client[o])' /\ OnItsWay(client[o])'
        BY <1>0, <1>1, <1>2 DEF Traced, Sound, Informed, OnItsWay, Holds
      <3>2. Undisturbed(client[o])'
        BY <1>1, <1>2, <2>3 DEF Undisturbed, Launching
      <3>3. QED
        BY <3>1, <3>2 DEF Sound
    <2>5. Placed'
      BY <1>0, <1>1, <2>2 DEF Traced, Placed, Sound, Informed
    <2>6. Exclusive' /\ Dirt'
      BY <1>0, <1>1, <1>2, <2>2 DEF Traced, Exclusive, Launching, Holds, Dirt
    <2>7. Solo'
      BY <1>0, <1>1, <1>2 DEF Traced, Solo
    <2>8. Found'
      <3>1. SUFFICES ASSUME ~overlap, ~stray, NEW e \in Daemons, Living(e)'
                     PROVE  \E k \in Dirs : state'[k] = e
        BY <1>1, <1>4 DEF Found
      <3>2. Living(e) /\ \A k \in Dirs : state[k] = None
        BY <1>0, <1>1, <3>1 DEF Living, Sound, Undisturbed
      <3>3. PICK o \in Clients : Launching(client[o]) /\ client[o].pid = e
        BY <1>0, <3>1, <3>2, NoneIsNothing DEF Traced, Found
      <3>4. o = c
        BY <2>3, <3>1, <3>3 DEF Launching
      <3>5. m \in Dirs
        BY <1>0 DEF Sound, OnItsWay, Holds
      <3>6. QED
        BY <1>0, <1>4, <3>3, <3>4, <3>5 DEF TypeOK
    <2>9. QED
      BY <2>4, <2>5, <2>6, <2>7, <2>8 DEF Traced
  <1>5. QED
    BY <1>3, <1>4 DEF WriteState

\* A state file goes only when its daemon has ended.
LEMMA UnlinkStateTraces ==
  ASSUME IInv, Traced, TypeOK', NEW c \in Clients, UnlinkState(c)
  PROVE  Traced'
  <1> DEFINE p == client[c].pid
             m == client[c].dir
  <1>0. /\ TypeOK /\ Sound(client[c]) /\ client[c].pc = "unstate"
        /\ Traced /\ client[c].tries = 0 /\ None \notin Daemons
    BY NoneIsNothing DEF IInv, Traced, UnlinkState, AllCounted, Counted
  <1>1. /\ UNCHANGED <<daemon, dirty, unclean, overlap, mount, stray>>
        /\ \A k \in Dirs : state'[k] = state[k] \/ (k = m /\ state'[k] = None)
    BY <1>0 DEF UnlinkState, bounds, TypeOK
  <1>2. /\ \/ client'[c].pc = "idle"
           \/ /\ client'[c].pc \in {"look", "mkdir"} /\ client'[c].cmd = "mount"
              /\ client'[c].pc = "mkdir" => state[m] = None
        /\ client'[c].pid = p /\ client'[c].tries = 0
        /\ \A o \in Clients \ {c} : client'[o] = client[o]
    BY <1>0, ReturnIs, GoIs DEF UnlinkState, TypeOK, ClientType
  <1>3. ~overlap => \A o \in Clients \ {c} : client[o].pc = "idle"
    BY <1>0 DEF Traced, Solo
  <1>4. ASSUME NEW o \in Clients PROVE Sound(client[o])'
    <2>1. Informed(client[o])' /\ OnItsWay(client[o])'
      BY <1>0, <1>1, <1>2 DEF Traced, Sound, Informed, OnItsWay, Holds
    <2>2. Undisturbed(client[o])'
      <3>1. ~overlap /\ ~stray => state[m] # None
        BY <1>0 DEF Sound, Undisturbed, OnItsWay
      <3>2. QED
        BY <1>1, <1>2, <1>3, <3>1 DEF Undisturbed, Launching
    <2>3. QED
      BY <2>1, <2>2 DEF Sound
  <1>5. Placed'
    BY <1>0, <1>1 DEF Traced, Placed
  <1>p. \A o \in Clients : Launching(client[o]) => client[o].pid \in Daemons
    BY <1>0 DEF Traced, Sound, OnItsWay, Launching, Holds
  <1>6. Exclusive'
    BY <1>0, <1>1, <1>2, <1>p DEF Traced, Exclusive, Launching, Holds
  <1>d. Dirt'
    BY <1>0, <1>1 DEF Traced, Dirt
  <1>7. Solo'
    BY <1>0, <1>1, <1>2 DEF Traced, Solo
  <1>8. Found'
    <2>1. SUFFICES ASSUME ~overlap, ~stray, NEW e \in Daemons, Living(e)'
                   PROVE  \E k \in Dirs : state'[k] = e
      BY <1>1 DEF Found
    <2>2. Living(e) /\ state[m] = p
      BY <1>0, <1>1, <2>1 DEF Living, Sound, Undisturbed
    <2>3. ~\E o \in Clients : Launching(client[o])
      BY <1>0, <1>3, <2>1 DEF Launching
    <2>4. PICK k \in Dirs : state[k] = e
      BY <1>0, <2>1, <2>2, <2>3 DEF Traced, Found
    <2>5. k # m
      BY <1>0, <2>2, <2>4 DEF Living, Sound, Informed
    <2>6. QED
      BY <1>1, <2>4, <2>5
  <1>9. QED
    BY <1>4, <1>5, <1>6, <1>d, <1>7, <1>8 DEF Traced

\* A new command knows nothing yet.
LEMMA BeginTraces ==
  ASSUME IInv, Traced, TypeOK', NEW c \in Clients, BeginMount(c) \/ BeginUmount(c)
  PROVE  Traced'
  <1>0. TypeOK /\ Traced /\ client[c].pc = "idle" /\ None \notin Daemons
    BY NoneIsNothing DEF IInv, BeginMount, BeginUmount, Begin
  <1>1. UNCHANGED <<daemon, dirty, unclean, mount, state, stray>>
    BY DEF BeginMount, BeginUmount, Begin, world
  <1>2. /\ \/ client'[c].pc = "look" /\ client'[c].cmd = "mount"
           \/ client'[c].pc = "ulook"
        /\ client'[c].pid = None /\ client'[c].tries = 0
        /\ \A o \in Clients \ {c} : client'[o] = client[o]
    BY <1>0 DEF BeginMount, BeginUmount, Begin, TypeOK
  <1>3. ~overlap' => ~overlap /\ \A o \in Clients \ {c} : client[o].pc = "idle"
    BY DEF BeginMount, BeginUmount, Begin
  <1>4. ASSUME NEW o \in Clients PROVE Sound(client[o])'
    BY <1>0, <1>1, <1>2, <1>3 DEF Traced, Sound, Informed, OnItsWay, Undisturbed, Launching, Holds
  <1>5. Placed' /\ Dirt'
    BY <1>0, <1>1 DEF Traced, Placed, Dirt
  <1>6. Exclusive'
    BY <1>0, <1>1, <1>2 DEF Traced, Exclusive, Launching, Holds
  <1>7. Solo'
    BY <1>2, <1>3 DEF Solo
  <1>8. Found'
    <2>1. SUFFICES ASSUME ~overlap, ~stray, NEW e \in Daemons, Living(e)'
                   PROVE  \/ \E k \in Dirs : state'[k] = e
                          \/ \E o \in Clients : Launching(client'[o]) /\ client'[o].pid = e
      BY <1>1, <1>3 DEF Found
    <2>2. Living(e)
      BY <1>1, <2>1 DEF Living
    <2>3. CASE \E k \in Dirs : state[k] = e
      BY <1>1, <2>3
    <2>4. CASE \E o \in Clients : Launching(client[o]) /\ client[o].pid = e
      <3>1. PICK o \in Clients : Launching(client[o]) /\ client[o].pid = e
        BY <2>4
      <3>2. o # c
        BY <1>0, <3>1 DEF Launching
      <3>3. QED
        BY <1>2, <3>1, <3>2
    <2>5. QED
      BY <1>0, <2>1, <2>2, <2>3, <2>4 DEF Traced, Found
  <1>9. QED
    BY <1>4, <1>5, <1>6, <1>7, <1>8 DEF Traced

\* At first there is nothing to trace.
LEMMA InitTraced == Init => Traced
  <1> SUFFICES ASSUME Init PROVE Traced
    OBVIOUS
  <1>0. /\ None \notin Daemons /\ stray = FALSE /\ overlap = FALSE /\ dirty = {}
        /\ \A c \in Clients : /\ client[c].pc = "idle" /\ client[c].cmd = "mount"
                              /\ client[c].pid = None /\ client[c].tries = 0
        /\ \A d \in Daemons : daemon[d].phase = "none"
        /\ \A m \in Dirs : mount[m] = None /\ state[m] = None
    BY NoneIsNothing DEF Init
  <1>1. \A c \in Clients : Sound(client[c])
    BY <1>0 DEF Sound, Informed, Undisturbed, OnItsWay, Launching, Holds
  <1>2. QED
    BY <1>0, <1>1 DEF Traced, Placed, Exclusive, Dirt, Solo, Found, Living, Launching

\* Every step keeps the daemons traced.
LEMMA NextTraced == IInv /\ Traced /\ [Next]_vars => Traced'
  <1> SUFFICES ASSUME IInv, Traced, [Next]_vars PROVE Traced'
    OBVIOUS
  <1>0. TypeOK'
    BY NextIInv DEF IInv
  <1>1. ASSUME NEW c \in Clients,
               BeginMount(c) \/ BeginUmount(c) \/ ClientStep(c) \/ Killed(c)
        PROVE  Traced'
    <2>1. CASE Terminate(c) \/ Ended(c) \/ Timeout(c) \/ AfterKill(c)
      BY <1>0, <2>1, TerminateTraces, EndedTraces, TimeoutTraces, AfterKillTraces
    <2>2. CASE RmDir(c) \/ UnlinkState(c) \/ LookUmount(c) \/ Unmount(c)
      BY <1>0, <2>2, RmDirTraces, UnlinkStateTraces, LookTraces, UnmountTraces
    <2>3. CASE Look(c) \/ Exist(c) \/ ForceOff(c) \/ MkDir(c)
      BY <1>0, <2>3, LookTraces, ExistTraces, ForceOffTraces, MkDirTraces
    <2>4. CASE Fork(c) \/ Ready(c) \/ ReadErr(c) \/ MountNfs(c) \/ WriteState(c)
      BY <1>0, <2>4, ForkTraces, ReadyTraces, MountNfsTraces, WriteStateTraces
    <2>5. CASE BeginMount(c) \/ BeginUmount(c) \/ Killed(c)
      BY <1>0, <2>5, BeginTraces, KilledTraces
    <2>6. QED
      BY <1>1, <2>1, <2>2, <2>3, <2>4, <2>5 DEF ClientStep
  <1>2. CASE \/ \E d \in Daemons : DaemonStep(d) \/ Crash(d)
             \/ \E m \in Dirs : Eject(m)
    BY <1>0, <1>2, DaemonTraces
  <1>3. CASE UNCHANGED vars
    <2>1. Dirt' /\ Onward
      BY <1>3 DEF vars, Traced, Dirt, Onward
    <2>2. QED
      BY <1>0, <1>3, <2>1, Traces DEF vars, IInv
  <1>4. QED
    BY <1>1, <1>2, <1>3 DEF Next, Quiet

\* Daemons are traced in every state.
THEOREM AlwaysTraced == Spec => []Traced
  <1>1. Init => IInv /\ Traced
    BY InitIInv, InitTraced
  <1>2. (IInv /\ Traced) /\ [Next]_vars => (IInv /\ Traced)'
    BY NextIInv, NextTraced
  <1>3. QED
    BY <1>1, <1>2, PTL DEF Spec

\* tests/test_mount_rw.sh, "keep rufux-mountd alive": no command sends a signal
\* to the daemon behind an active mount, whatever other commands do meanwhile.
THEOREM NoSignalWhileMounted == Spec => MountedNotStopped
  <1> DEFINE A == \A d \in Daemons :
                    (daemon'[d].stop # daemon[d].stop
                         \/ (daemon'[d].phase = "dying" /\ daemon[d].phase # "dying"))
                    => \A m \in Dirs : mount[m] # d
  <1>1. ASSUME IInv, Traced, Next PROVE A
    <2>0. TypeOK
      BY <1>1 DEF IInv
    <2>1. CASE \E c \in Clients : Terminate(c) \/ Timeout(c)
      <3>1. PICK c \in Clients : Terminate(c) \/ Timeout(c)
        BY <2>1
      <3>2. \A d \in Daemons : d # client[c].pid => daemon'[d] = daemon[d]
        BY <2>0, <3>1 DEF Terminate, Timeout, Alive, TypeOK
      <3>3. \A d \in Daemons : d = client[c].pid => \A m \in Dirs : mount[m] # d
        BY <1>1, <3>1 DEF Traced, Sound, Informed, Terminate, Timeout
      <3>4. QED
        BY <3>2, <3>3
    <2>2. CASE UNCHANGED daemon
      BY <2>2
    <2>3. CASE \E d \in Daemons : /\ daemon'[d].stop = daemon[d].stop
                                  /\ daemon'[d].phase # "dying"
                                  /\ \A o \in Daemons \ {d} : daemon'[o] = daemon[o]
      BY <2>3
    <2>4. ASSUME NEW d \in Daemons, NEW p \in Phases \ {"dying"},
                 daemon' = [daemon EXCEPT ![d].phase = p]
          PROVE  A
      BY <2>0, <2>3, <2>4 DEF TypeOK
    <2>5. ASSUME NEW d \in Daemons, DaemonStep(d) \/ Crash(d)
          PROVE  A
      BY <2>2, <2>4, <2>5 DEF DaemonStep, Lock, OpenVolume, Relock, Serve, Stop, Die, Crash,
         Ends, Phases
    <2>6. ASSUME NEW c \in Clients, Fork(c)
          PROVE  A
      BY <2>2, <2>4, <2>6 DEF Fork, Phases
    <2>7. QED
      BY <1>1, <2>1, <2>2, <2>5, <2>6 DEF Next, ClientStep, BeginMount, BeginUmount, Begin,
         Killed, Ended, AfterKill, RmDir, UnlinkState, Look, Exist, ForceOff, MkDir, Ready,
         ReadErr, MountNfs, WriteState, LookUmount, Unmount, Eject, Quiet, world, vars
  <1>2. IInv /\ Traced /\ [Next]_vars => [A]_vars
    BY <1>1
  <1>3. QED
    BY <1>2, Invariance, AlwaysTraced, PTL DEF Spec, MountedNotStopped

\* rufux umount that succeeds has left nothing unwritten, unless the daemon had
\* to be killed, crashed or could not write.
THEOREM UmountIsDurableAlways == Spec => []UmountIsDurable
  <1>1. IInv /\ Traced => UmountIsDurable
    <2>1. SUFFICES ASSUME IInv, Traced, NEW c \in Clients,
                          client[c].pc = "idle", client[c].cmd = "umount",
                          client[c].res = "ok", client[c].pid # None
                   PROVE  /\ ~Alive(client[c].pid)
                          /\ client[c].pid \in dirty => client[c].pid \in unclean
      BY DEF UmountIsDurable
    <2>2. client[c].pid \in Daemons
      BY <2>1 DEF IInv, TypeOK, ClientType
    <2>3. daemon[client[c].pid].phase = "gone"
      BY <2>1, <2>2 DEF Traced, Sound, Informed
    <2>4. QED
      BY <2>1, <2>2, <2>3 DEF Traced, Dirt, Alive
  <1>2. QED
    BY <1>1, Invariance, AlwaysTraced, PTL

\* Between commands that do not overlap every daemon that lives is in a state
\* file, for any number of commands, launches and failures.
THEOREM TrackedAlways == Spec => []Tracked
  <1>1. IInv /\ Traced => Tracked
    BY DEF Traced, Found, Tracked, Alive, Living, Launching
  <1>2. QED
    BY <1>1, Invariance, AlwaysTraced, PTL

=============================================================================
