--------------------------- MODULE DaemonLifecycle ---------------------------
(***************************************************************************)
(* How a daemon is started, found and stopped.  A daemon that runs has a   *)
(* lock file with its pid, a socket, and files with its address and pid    *)
(* (runDaemon of cmd/daemon.go).  forge start, forge mcp and forge doctor  *)
(* start one under a second lock file after removing what a dead one left  *)
(* (cmd/startup.go, cmd/doctor.go); forge stop signals it and removes its  *)
(* files (cmd/stop.go); a service manager starts it without asking.        *)
(*                                                                         *)
(* Every system call on a file is one step.  A lock file is removed by its *)
(* path, whoever created what is there.  Pids are not reused.              *)
(***************************************************************************)
EXTENDS Naturals, Sequences

CONSTANTS
    Daemons,    \* daemon processes
    Starters,   \* processes that make sure that a daemon runs
    Doctors,    \* those of them that are forge doctor --repair
    Servers,    \* those of them that are forge mcp, and run on
    Stoppers,   \* forge stop processes
    Mortal,     \* processes that may be killed, or exit on an error
    Service,    \* whether a service manager starts daemons
    Calm,       \* whether commands are given one at a time, starts excepted,
                \* and processes take the steps they are waited for in time
    Patient,    \* whether starts wait until a daemon that stops is gone
    None,       \* no file, no process
    MaxDeaths   \* bound: killed processes

Process == Daemons \cup Starters \cup Stoppers

(* A lock file: its creator, and whether the pid has been written.  A file *)
(* that is still empty after a second is old.                              *)
LockFile == [by : Process, content : {"empty", "old", "pid"}]

ASSUME LifecycleAssumption ==
    /\ Daemons \cap Starters = {} /\ Stoppers \cap (Daemons \cup Starters) = {}
    /\ Doctors \subseteq Starters /\ Servers \subseteq Starters \ Doctors
    /\ Mortal \subseteq Process
    /\ Service \in BOOLEAN /\ Calm \in BOOLEAN /\ Patient \in BOOLEAN
    /\ None \notin Process \cup LockFile
    /\ MaxDeaths \in Nat

Lock == {"daemon", "startup"}

VARIABLES
    locks,      \* forge.lock and forge.start.lock
    address,    \* whether forge.addr exists: it always names the same path
    pidfile,    \* the pid in forge.pid
    socket,     \* the daemon that bound what is at the path of forge.sock
    proc,       \* the processes: phase, attempts, files to do, what follows,
                \* and the starter that a daemon is a child of
    asked,      \* daemons that were sent SIGTERM
    saw,        \* the pid that a process read in the file it is judging
    deaths,     \* how many processes were killed
    raced       \* history: a start lock was taken while another start judged
                \* what it had found in its place

files == <<locks, address, pidfile, socket>>
vars == <<files, proc, asked, saw, deaths, raced>>

New == [phase |-> "new", attempt |-> 0, todo |-> <<>>, then |-> "dead", parent |-> None]

Init ==
    /\ locks = [l \in Lock |-> None]
    /\ address = FALSE /\ pidfile = None /\ socket = None
    /\ proc = [p \in Process |-> New]
    /\ asked = {}
    /\ saw = [p \in Process |-> None]
    /\ deaths = 0
    /\ raced = FALSE

-----------------------------------------------------------------------------

At(p, phase) == proc[p].phase = phase
Goto(p, phase) == proc' = [proc EXCEPT ![p].phase = phase]
Alive(p) == proc[p].phase \notin {"new", "dead", "zombie"}

(* isProcessAlive: signal 0 reaches a zombie as well. *)
Signalled(p) == proc[p].phase \notin {"new", "dead"}

(* A process exits: nobody waits for its child, so a daemon stays a zombie *)
(* until its parent is gone.                                               *)
Exit(p) ==
    LET parent == proc[p].parent
        final == IF parent # None /\ Alive(parent) THEN "zombie" ELSE "dead"
    IN  proc' = [q \in Process |->
            IF q = p THEN [proc[q] EXCEPT !.phase = final]
            ELSE IF proc[q].parent = p /\ At(q, "zombie") THEN [proc[q] EXCEPT !.phase = "dead"]
            ELSE proc[q]]

(* What a process does at the end: forge mcp goes on to serve its client  *)
(* if there is a daemon.                                                   *)
After(p, ready) == IF ready /\ p \in Servers THEN "run" ELSE "dead"
Finish(p, after) == IF after = "run" THEN Goto(p, "run") ELSE Exit(p)

(* A daemon takes connections from the bind until it closes the listener. *)
Listening(d) == proc[d].phase \in {"address", "pid", "serve"}

(* isDaemonAlive(readAddr()). *)
Ready == address /\ socket # None /\ Listening(socket)

(* The daemon is between its start and the moment it can be found. *)
Starting(d) ==
    proc[d].phase \in {"create", "judge", "stat", "probe", "remove", "write", "unlink", "bind",
                       "address"}

Awaited == \E s \in Starters : At(s, "await")

(* No process of P is on its way: those that live serve. *)
Settled(P) == \A p \in P : Alive(p) => At(p, "run") \/ (At(p, "serve") /\ p \notin asked)

(* os.Remove of one of the files. *)
Remove(file) ==
    /\ locks' = [locks EXCEPT !["daemon"] = IF file = "lock" THEN None ELSE @,
                              !["startup"] = IF file = "startup" THEN None ELSE @]
    /\ address' = (address /\ file # "address")
    /\ pidfile' = IF file = "pid" THEN None ELSE pidfile
    /\ socket' = IF file = "socket" THEN None ELSE socket

(* readLockPID: a file that has just vanished has no pid either. *)
HasPID(l) == locks[l] # None /\ locks[l].content = "pid"

(* What os.Stat finds of a file in which no pid was read: it is stale      *)
(* unless it is empty and young, so also when the pid is there by now.     *)
NotYoung(l) == ~ (locks[l] # None /\ locks[l].content = "empty")

-----------------------------------------------------------------------------
(* acquirePIDLock: two attempts to create the file. *)

LockOf(p) == IF p \in Daemons THEN "daemon" ELSE "startup"

(* The lock is refused: a daemon exits, a starter waits for the other one. *)
Refused(p) == IF p \in Daemons THEN Exit(p) ELSE Goto(p, "waitOther")

(* A start takes the start lock while another judges what it found there. *)
Races(p) ==
    p \in Starters /\ \E q \in Starters \ {p} : proc[q].phase \in {"stat", "probe", "remove"}

AcquireCreate(p) ==
    /\ At(p, "create")
    /\ IF locks[LockOf(p)] = None
       THEN /\ locks' = [locks EXCEPT ![LockOf(p)] = [by |-> p, content |-> "empty"]]
            /\ Goto(p, "write")
            /\ raced' = (raced \/ Races(p))
       ELSE /\ Goto(p, "judge")
            /\ UNCHANGED <<locks, raced>>
    /\ UNCHANGED <<address, pidfile, socket, asked, saw, deaths>>

(* The pid goes to the file that was created, wherever that is now. *)
AcquireWrite(p) ==
    LET l == LockOf(p)
    IN  /\ At(p, "write")
        /\ locks' = IF locks[l] # None /\ locks[l].by = p
                    THEN [locks EXCEPT ![l].content = "pid"] ELSE locks
        /\ Goto(p, IF p \in Daemons THEN "unlink" ELSE "recheck")
        /\ raced' = (raced \/ Races(p))
        /\ UNCHANGED <<address, pidfile, socket, asked, saw, deaths>>

(* isPIDLockStale reads the pid, and then asks for the size and age of the *)
(* file, or for the process.  Another process may act in between.          *)
AcquireRead(p) ==
    LET l == LockOf(p)
    IN  /\ At(p, "judge")
        /\ \/ HasPID(l) /\ Goto(p, "probe") /\ saw' = [saw EXCEPT ![p] = locks[l].by]
           \/ ~ HasPID(l) /\ Goto(p, "stat") /\ saw' = saw
        /\ UNCHANGED <<files, asked, deaths, raced>>

AcquireStat(p) ==
    /\ At(p, "stat")
    /\ IF NotYoung(LockOf(p)) THEN Goto(p, "remove") ELSE Refused(p)
    /\ UNCHANGED <<files, asked, saw, deaths, raced>>

(* Mutation: every process is taken for dead. *)
AcquireProbeAny(p) ==
    /\ At(p, "probe")
    /\ Goto(p, "remove")
    /\ UNCHANGED <<files, asked, saw, deaths, raced>>

(* Mutation: every process is taken for alive. *)
AcquireProbeNever(p) ==
    /\ At(p, "probe")
    /\ Refused(p)
    /\ UNCHANGED <<files, asked, saw, deaths, raced>>

AcquireProbe(p) ==
    /\ At(p, "probe")
    /\ IF ~ Signalled(saw[p]) THEN Goto(p, "remove") ELSE Refused(p)
    /\ saw' = [saw EXCEPT ![p] = None]
    /\ UNCHANGED <<files, asked, deaths, raced>>

AcquireRemove(p) ==
    /\ At(p, "remove")
    /\ Remove(IF p \in Daemons THEN "lock" ELSE "startup")
    /\ IF proc[p].attempt = 0
       THEN proc' = [proc EXCEPT ![p].phase = "create", ![p].attempt = 1]
       ELSE Refused(p)
    /\ UNCHANGED <<asked, saw, deaths, raced>>

-----------------------------------------------------------------------------
(* The daemon. *)

ServiceStart(d) ==
    /\ Service /\ At(d, "new") /\ Goto(d, "create")
    /\ Calm => Settled(Process)
    /\ UNCHANGED <<files, asked, saw, deaths, raced>>

(* Listen removes what is at the path, then binds. *)
ListenUnlink(d) ==
    /\ At(d, "unlink")
    /\ Remove("socket")
    /\ Goto(d, "bind")
    /\ UNCHANGED <<asked, saw, deaths, raced>>

ListenBind(d) ==
    /\ At(d, "bind")
    /\ IF socket = None THEN socket' = d /\ Goto(d, "address")
                        ELSE socket' = socket /\ Exit(d)
    /\ UNCHANGED <<locks, address, pidfile, asked, saw, deaths, raced>>

WriteAddr(d) ==
    /\ At(d, "address")
    /\ address' = TRUE
    /\ Goto(d, "pid")
    /\ UNCHANGED <<locks, pidfile, socket, asked, saw, deaths, raced>>

WritePID(d) ==
    /\ At(d, "pid")
    /\ pidfile' = d
    /\ Goto(d, "serve")
    /\ UNCHANGED <<locks, address, socket, asked, saw, deaths, raced>>

(* The daemon was asked to stop, or forge mcp, its parent, was gone three  *)
(* times in a row: closing the listener unlinks the socket's path, the     *)
(* files follow, and a deferred call removes the lock once more.           *)
Shutdown(d) ==
    LET parent == proc[d].parent
    IN  /\ At(d, "serve")
        /\ \/ d \in asked
           \/ parent \in Servers /\ ~ Alive(parent) /\ (Calm => Settled(Process))
        /\ Remove("socket")
        /\ proc' = [proc EXCEPT ![d].phase = "sweep",
                                ![d].todo = <<"address", "pid", "lock", "lock">>]
        /\ UNCHANGED <<asked, saw, deaths, raced>>

(* Files are removed one by one, without a look. *)
Sweep(p) ==
    /\ At(p, "sweep")
    /\ IF proc[p].todo # <<>>
       THEN /\ Remove(Head(proc[p].todo))
            /\ proc' = [proc EXCEPT ![p].todo = Tail(@)]
       ELSE /\ Finish(p, proc[p].then)
            /\ UNCHANGED files
    /\ UNCHANGED <<asked, saw, deaths, raced>>

-----------------------------------------------------------------------------
(* ensureDaemonRunning, and the repair of forge doctor before it. *)

DaemonFiles == <<"address", "pid", "lock", "startup", "socket">>

StartBegin(s) ==
    /\ At(s, "new")
    /\ Calm => Settled(IF s \in Doctors THEN Process ELSE Stoppers \cup Doctors)
    /\ Patient => Settled(Daemons) \/ (Awaited /\ \A d \in Daemons : ~ At(d, "sweep"))
    /\ IF s \in Doctors
       THEN proc' = [proc EXCEPT ![s].phase = "look", ![s].todo = DaemonFiles, ![s].then = "check"]
       ELSE Goto(s, "check")
    /\ UNCHANGED <<files, asked, saw, deaths, raced>>

StartCheck(s) ==
    /\ At(s, "check")
    /\ IF Ready THEN Finish(s, After(s, TRUE)) ELSE Goto(s, "create")
    /\ UNCHANGED <<files, asked, saw, deaths, raced>>

Release(s, ready) ==
    proc' = [proc EXCEPT ![s].phase = "sweep", ![s].todo = <<"startup">>,
                         ![s].then = After(s, ready)]

CleanUp(s) ==
    proc' = [proc EXCEPT ![s].phase = "look", ![s].todo = DaemonFiles, ![s].then = "spawn"]

(* Mutation: the address is not dialled again under the lock. *)
StartRecheckSkips(s) ==
    /\ At(s, "recheck")
    /\ CleanUp(s)
    /\ UNCHANGED <<files, asked, saw, deaths, raced>>

StartRecheck(s) ==
    /\ At(s, "recheck")
    /\ IF Ready THEN Release(s, TRUE) ELSE CleanUp(s)
    /\ UNCHANGED <<files, asked, saw, deaths, raced>>

(* cleanStaleDaemonState judges each file, and then removes it.  A file is *)
(* looked at, its pid is read, and then the size or the process is asked   *)
(* for.  The socket is stale when it exists.                               *)
LockFor(file) == IF file = "lock" THEN "daemon" ELSE "startup"

(* The file is kept, and the next one's turn. *)
Pass(s) == proc' = [proc EXCEPT ![s].phase = "look", ![s].todo = Tail(@)]

CleanLook(s) ==
    LET file == Head(proc[s].todo)
    IN  /\ At(s, "look")
        /\ IF proc[s].todo = <<>> THEN Goto(s, proc[s].then)
           ELSE \/ file = "address" /\ address /\ ~ Ready /\ Goto(s, "drop")
                \/ file = "socket" /\ socket # None /\ Goto(s, "drop")
                \/ file = "pid" /\ pidfile # None /\ Goto(s, "alive")
                \/ file \in {"lock", "startup"} /\ locks[LockFor(file)] # None /\ Goto(s, "read")
                \/ /\ \/ file = "address" /\ (~ address \/ Ready)
                      \/ file = "socket" /\ socket = None
                      \/ file = "pid" /\ pidfile = None
                      \/ file \in {"lock", "startup"} /\ locks[LockFor(file)] = None
                   /\ Pass(s)
        /\ saw' = IF At(s, "alive")' THEN [saw EXCEPT ![s] = pidfile] ELSE saw
        /\ UNCHANGED <<files, asked, deaths, raced>>

(* isStaleLock takes a file without a pid for stale, isStaleStartupLock    *)
(* looks at it once more.                                                  *)
CleanRead(s) ==
    LET file == Head(proc[s].todo)
    IN  /\ At(s, "read")
        /\ IF HasPID(LockFor(file))
           THEN Goto(s, "alive") /\ saw' = [saw EXCEPT ![s] = locks[LockFor(file)].by]
           ELSE Goto(s, IF file = "lock" THEN "drop" ELSE "size") /\ saw' = saw
        /\ UNCHANGED <<files, asked, deaths, raced>>

CleanSize(s) ==
    /\ At(s, "size")
    /\ IF NotYoung("startup") THEN Goto(s, "drop") ELSE Pass(s)
    /\ UNCHANGED <<files, asked, saw, deaths, raced>>

CleanAlive(s) ==
    /\ At(s, "alive")
    /\ IF ~ Signalled(saw[s]) THEN Goto(s, "drop") ELSE Pass(s)
    /\ saw' = [saw EXCEPT ![s] = None]
    /\ UNCHANGED <<files, asked, deaths, raced>>

CleanDrop(s) ==
    /\ At(s, "drop")
    /\ Remove(Head(proc[s].todo))
    /\ Pass(s)
    /\ UNCHANGED <<asked, saw, deaths, raced>>

Spawn(s, d) ==
    /\ At(s, "spawn") /\ At(d, "new")
    /\ proc' = [proc EXCEPT ![s].phase = "await", ![d].phase = "create", ![d].parent = s]
    /\ UNCHANGED <<files, asked, saw, deaths, raced>>

(* waitForDaemonReady: the daemon answers, or ten seconds pass. *)
Await(s) ==
    /\ At(s, "await")
    /\ Calm => Ready \/ \A d \in Daemons : ~ Starting(d)
    /\ Release(s, Ready)
    /\ UNCHANGED <<files, asked, saw, deaths, raced>>

AwaitOther(s) ==
    /\ At(s, "waitOther") /\ Finish(s, After(s, Ready))
    /\ UNCHANGED <<files, asked, saw, deaths, raced>>

(* The client of forge mcp closes the connection. *)
ServerExit(s) ==
    /\ At(s, "run") /\ Exit(s)
    /\ UNCHANGED <<files, asked, saw, deaths, raced>>

-----------------------------------------------------------------------------

(* forge stop: killProcess returns as soon as the signal is sent, because  *)
(* the daemon is no child of it.                                           *)
Stop(x) ==
    /\ At(x, "new")
    /\ asked' = asked \cup ({pidfile} \ {None})
    /\ Calm => Settled(Process)
    /\ proc' = [proc EXCEPT ![x].phase = "sweep", ![x].todo = <<"address", "pid", "lock", "socket">>]
    /\ UNCHANGED <<files, saw, deaths, raced>>

(* A process is killed, or exits without its deferred calls. *)
Die(p) ==
    /\ p \in Mortal /\ Alive(p) /\ deaths < MaxDeaths
    /\ deaths' = deaths + 1
    /\ Exit(p)
    /\ UNCHANGED <<files, asked, saw, raced>>

(* A second passes, and an empty lock file is old. *)
LockAges(l) ==
    /\ locks[l] # None /\ locks[l].content = "empty"
    /\ ~ Calm \/ ~ Alive(locks[l].by)
    /\ locks' = [locks EXCEPT ![l].content = "old"]
    /\ UNCHANGED <<address, pidfile, socket, proc, asked, saw, deaths, raced>>

Acquire(p) ==
    \/ AcquireCreate(p) \/ AcquireWrite(p) \/ AcquireRead(p)
    \/ AcquireStat(p) \/ AcquireProbe(p) \/ AcquireRemove(p)

DaemonStep(d) ==
    \/ Acquire(d) \/ ListenUnlink(d) \/ ListenBind(d)
    \/ WriteAddr(d) \/ WritePID(d)
    \/ Sweep(d)

StarterStep(s) ==
    \/ Acquire(s)
    \/ StartCheck(s) \/ StartRecheck(s)
    \/ CleanLook(s) \/ CleanRead(s) \/ CleanSize(s) \/ CleanAlive(s) \/ CleanDrop(s)
    \/ \E d \in Daemons : Spawn(s, d)
    \/ Await(s) \/ AwaitOther(s) \/ Sweep(s)

Next ==
    \/ \E d \in Daemons : DaemonStep(d) \/ ServiceStart(d) \/ Shutdown(d)
    \/ \E s \in Starters : StarterStep(s) \/ StartBegin(s) \/ ServerExit(s)
    \/ \E x \in Stoppers : Stop(x) \/ Sweep(x)
    \/ \E p \in Process : Die(p)
    \/ \E l \in Lock : LockAges(l)

Spec == Init /\ [][Next]_vars

(* Processes run, and time passes. *)
Fairness ==
    /\ \A d \in Daemons : WF_vars(DaemonStep(d))
    /\ \A s \in Starters : WF_vars(StarterStep(s))
    /\ \A l \in Lock : WF_vars(LockAges(l))

FairSpec == Spec /\ Fairness

-----------------------------------------------------------------------------
(* Properties. *)

File == {"address", "pid", "lock", "startup", "socket"}
Phase == {"new", "create", "write", "judge", "stat", "probe", "remove", "unlink", "bind",
          "address", "pid", "serve", "sweep", "check", "recheck", "look", "read", "size",
          "alive", "drop", "spawn", "await", "waitOther", "run", "zombie", "dead"}

(* Every variable keeps its type. *)
TypeOK ==
    /\ locks \in [Lock -> LockFile \cup {None}]
    /\ address \in BOOLEAN
    /\ pidfile \in Daemons \cup {None} /\ socket \in Daemons \cup {None}
    /\ proc \in [Process -> [phase : Phase, attempt : {0, 1}, todo : Seq(File), then : Phase,
                          parent : Starters \cup {None}]]
    /\ asked \subseteq Daemons
    /\ saw \in [Process -> Process \cup {None}]
    /\ raced \in BOOLEAN
    /\ deaths \in 0 .. MaxDeaths

(* A daemon works on the database and the files from the moment it has the *)
(* lock until it has given it back.                                        *)
Working(d) ==
    \/ proc[d].phase \in {"unlink", "bind", "address", "pid", "serve"}
    \/ At(d, "sweep") /\ Len(proc[d].todo) > 1

(* One daemon works at a time, whatever the ones that were killed left     *)
(* behind and however many processes try to start one, unless a start took *)
(* the start lock between two system calls of another that judged it.      *)
OneDaemon ==
    raced \/ \A d, e \in Daemons : Working(d) /\ Working(e) => d = e

(* A daemon that serves is the one that hooks, forge start and forge stop  *)
(* find: nobody who cleans up after a dead one takes its files away, with  *)
(* the same exception.  The repair of forge doctor does take them, because *)
(* a socket that exists is stale.                                          *)
ServingReachable ==
    \A d \in Daemons :
        At(d, "serve") /\ d \notin asked /\ (\A s \in Doctors : At(s, "new")) /\ ~ raced
            => Ready /\ socket = d /\ pidfile = d

(* A process starts a daemon, or is one that starts, and nothing disturbs  *)
(* it: no other process on its way, no death, no repair, and no lock file  *)
(* that was left empty less than a second ago.                             *)
Undisturbed(p) ==
    /\ \/ p \in Starters /\ At(p, "check") /\ \E d \in Daemons : At(d, "new")
       \/ p \in Daemons /\ At(p, "create")
    /\ \A q \in Process \ {p} : proc[q].phase \in {"new", "dead", "run"}
    /\ \A s \in Doctors \ {p} : At(s, "dead")
    /\ locks["daemon"] # None => locks["daemon"].content # "empty"
    /\ deaths = MaxDeaths

(* A start that nothing disturbs gets a daemon that answers, whatever      *)
(* files lie about, be it forge start's or the service manager's, unless   *)
(* starts have raced, or do so before it is through.                       *)
StartRecovers ==
    \A p \in Starters \cup Daemons :
        Undisturbed(p) ~> Ready \/ raced

(* daemon.go:1045: the lock file ensures that only one daemon runs
   (refuted by configuration DaemonRace). *)
OneServes ==
    \A d, e \in Daemons \ asked : At(d, "serve") /\ At(e, "serve") => d = e
=============================================================================
