------------------------- MODULE DaemonLifecycleProofs -------------------------
(***************************************************************************)
(* That one daemon works at a time and can be found, for every number of   *)
(* daemons, starts, repairs, stops and deaths, unless starts race.         *)
(***************************************************************************)
EXTENDS DaemonLifecycle, SequenceTheorems, TLAPS

(* People and the machine behave as the constants say they may, and no     *)
(* start is killed.                                                        *)
Orderly == Calm /\ Patient /\ Mortal \cap Starters = {}

-----------------------------------------------------------------------------
(* The inductive invariant, in parts. *)

Flying(d)  == Starting(d) \/ At(d, "pid")
Leaving(d) == At(d, "sweep") \/ (At(d, "serve") /\ d \in asked)
Serving(d) == At(d, "serve") /\ d \notin asked
Owns(d)    == proc[d].phase \in {"write", "unlink", "bind", "address", "pid"} \/ Serving(d)

Moving(s)   == proc[s].phase \notin {"new", "run", "dead"}
Cleaning(s) == proc[s].phase \in {"look", "read", "size", "alive", "drop"}
Clearing(s) == (Cleaning(s) /\ proc[s].then = "spawn") \/ At(s, "spawn")
Holds(s)    == \/ proc[s].phase \in {"write", "recheck", "await"} \/ Clearing(s)
               \/ At(s, "sweep") /\ proc[s].todo # <<>>

Written(p) == IF At(p, "write") THEN "empty" ELSE "pid"

DaemonPhase  == {"new", "create", "write", "judge", "stat", "probe", "remove", "unlink", "bind",
                 "address", "pid", "serve", "sweep", "zombie", "dead"}
StarterPhase == {"new", "create", "write", "judge", "stat", "probe", "remove", "sweep", "check",
                 "recheck", "look", "read", "size", "alive", "drop", "spawn", "await",
                 "waitOther", "run", "dead"}

(* What each kind of process is made of. *)
Kinds ==
    /\ \A d \in Daemons : /\ proc[d].phase \in DaemonPhase /\ proc[d].then = "dead"
                          /\ At(d, "new") => proc[d].parent = None
    /\ \A s \in Starters : proc[s].phase \in StarterPhase /\ proc[s].parent = None
    /\ \A x \in Stoppers : /\ proc[x].phase \in {"new", "sweep", "dead"}
                           /\ proc[x].then = "dead" /\ proc[x].parent = None
    /\ locks["daemon"] # None => locks["daemon"].by \in Daemons
    /\ locks["startup"] # None => locks["startup"].by \in Starters

(* What is still to be looked at or removed. *)
StartTodo(s) ==
    /\ At(s, "sweep") => /\ proc[s].todo \in {<<"startup">>, <<>>}
                         /\ proc[s].then \in {"run", "dead"}
    /\ Cleaning(s) => /\ proc[s].todo = DaemonFiles \/ Len(proc[s].todo) < 5
                      /\ proc[s].then = "spawn" \/ (proc[s].then = "check" /\ s \in Doctors)
    /\ proc[s].phase \in {"read", "size", "alive", "drop"} => proc[s].todo # <<>>
    /\ At(s, "read") => Head(proc[s].todo) \in {"lock", "startup"}
    /\ At(s, "size") => Head(proc[s].todo) = "startup"
    /\ At(s, "alive") => Head(proc[s].todo) # "address"

Todos ==
    /\ \A s \in Starters : StartTodo(s)
    /\ \A p \in Daemons \cup Stoppers :
          At(p, "sweep") => proc[p].todo \in Seq(File \ {"startup"})

(* A daemon is asked to stop after it wrote its pid. *)
Asked == \A d \in Daemons :
    d = pidfile \/ d \in asked => proc[d].phase \in {"serve", "sweep", "zombie", "dead"}

(* Repairs, stops and daemons that leave have the machine to themselves. *)
Alone ==
    /\ \A s \in Doctors : Moving(s) => \A r \in Starters \ {s} : ~ Moving(r)
    /\ \A x \in Stoppers : At(x, "sweep") =>
          /\ \A s \in Starters : ~ Moving(s)
          /\ \A y \in Stoppers \ {x} : ~ At(y, "sweep")
          /\ \A d \in Daemons : Alive(d) => Leaving(d)
    /\ \A d \in Daemons : Leaving(d) =>
          /\ \A s \in Starters : ~ Moving(s)
          /\ \A e \in Daemons \ {d} : ~ Alive(e)

(* What a start has seen of the start lock is still so, or nobody holds    *)
(* it: a file without a pid is that of a start that is about to write it,  *)
(* and a file with a pid is that of the process it names.                  *)
Judging(p) == proc[p].phase \in {"stat", "probe", "remove"}

Seen(q) ==
    /\ At(q, "stat") => \A s \in Starters : Holds(s) => At(s, "write")
    /\ At(q, "probe") => \A s \in Starters : Holds(s) => saw[q] = s
    /\ At(q, "remove") => \A s \in Starters : ~ Holds(s)

(* The start lock belongs to the start that holds it, and to nobody else.  *)
StartLock ==
    /\ \A s \in Starters : Holds(s) => /\ locks["startup"] # None /\ locks["startup"].by = s
                                       /\ locks["startup"].content = Written(s)
    /\ locks["startup"] # None => Holds(locks["startup"].by)
    /\ \A s \in Starters : Seen(s)

(* One daemon starts at a time: it is awaited by the holder of the start   *)
(* lock, or the service manager started it and nobody else is on his way.  *)
OneStarts ==
    /\ \A d, e \in Daemons : Starting(d) /\ Starting(e) => d = e
    /\ \A d \in Daemons : Starting(d) =>
          \/ proc[d].parent = None /\ \A s \in Starters : ~ Moving(s)
          \/ proc[d].parent # None /\ At(proc[d].parent, "await") /\ ~ address

(* Nobody cleans up while a daemon is on its way; the holder of the start  *)
(* lock does so after it found that none can be reached.                   *)
Clear(s) ==
    /\ Cleaning(s) \/ At(s, "spawn") => \A d \in Daemons : ~ Flying(d)
    /\ Clearing(s) => /\ ~ Ready
                      /\ At(s, "spawn") \/ proc[s].todo # DaemonFiles => ~ address

(* A file that is about to be dropped is of no use to a living daemon, and *)
(* one whose pid was read is of use to that process only.                  *)
Judged(s) ==
    /\ At(s, "size") => proc[s].then # "spawn"
    /\ At(s, "alive") =>
          /\ Head(proc[s].todo) = "lock" => \A d \in Daemons : Owns(d) => saw[s] = d
          /\ Head(proc[s].todo) = "pid" => \A d \in Daemons : Serving(d) => saw[s] = d
          /\ proc[s].then = "spawn" /\ Head(proc[s].todo) = "startup" => saw[s] = s
    /\ At(s, "drop") =>
          /\ Head(proc[s].todo) = "lock" => \A d \in Daemons : ~ Owns(d)
          /\ Head(proc[s].todo) = "pid" => \A d \in Daemons : ~ Serving(d)
          /\ proc[s].then = "spawn" => Head(proc[s].todo) # "startup"

Cleared == \A s \in Starters : Clear(s) /\ Judged(s)

(* A daemon owns its lock from its creation until it is asked to stop.     *)
DaemonLock ==
    /\ \A d \in Daemons : Owns(d) => /\ locks["daemon"] # None /\ locks["daemon"].by = d
                                     /\ locks["daemon"].content = Written(d)
    /\ \A d \in Daemons : At(d, "probe") => \A e \in Daemons : Owns(e) => saw[d] = e
    /\ \A d \in Daemons : At(d, "stat") \/ At(d, "remove") => \A e \in Daemons : ~ Owns(e)

(* What a daemon has bound and written stays in its place.                 *)
Found ==
    /\ \A d \in Daemons : At(d, "address") \/ At(d, "pid") => socket = d
    /\ \A d \in Daemons : At(d, "pid") => address
    /\ \A d \in Daemons : Serving(d) => pidfile = d
    /\ (\A s \in Doctors : At(s, "new")) =>
          \A d \in Daemons : Serving(d) => address /\ socket = d

IInv == /\ TypeOK /\ Kinds /\ Todos /\ Asked /\ Alone /\ StartLock
        /\ OneStarts /\ Cleared /\ DaemonLock /\ Found

-----------------------------------------------------------------------------
(* How a process moves. *)

(* p keeps what it has to do and whose child it is. *)
Keeps(p) == /\ proc'[p].todo = proc[p].todo /\ proc'[p].then = proc[p].then
            /\ proc'[p].parent = proc[p].parent

(* Everybody else stays where he is; the zombies among them may be reaped. *)
Rest(p) == \A q \in Process \ {p} :
    /\ proc'[q].todo = proc[q].todo /\ proc'[q].then = proc[q].then
    /\ proc'[q].parent = proc[q].parent
    /\ proc'[q].phase = proc[q].phase \/ (proc[q].phase = "zombie" /\ proc'[q].phase = "dead")

(* Everybody else has seen what he saw. *)
Sees(p) == /\ saw' \in [Process -> Process \cup {None}]
           /\ \A q \in Process \ {p} : saw'[q] = saw[q]

Record == [phase : Phase, attempt : {0, 1}, todo : Seq(File), then : Phase,
           parent : Starters \cup {None}]

LEMMA GoesTo ==
  ASSUME TypeOK, NEW p \in Process, NEW phase \in Phase, Goto(p, phase)
  PROVE  proc'[p].phase = phase /\ Keeps(p) /\ Rest(p) /\ proc' \in [Process -> Record]
BY DEF TypeOK, Goto, Keeps, Rest, Record

LEMMA TurnsTo ==
  ASSUME TypeOK, NEW p \in Process, NEW phase \in Phase, NEW todo \in Seq(File), NEW then \in Phase,
         proc' = [proc EXCEPT ![p].phase = phase, ![p].todo = todo, ![p].then = then]
  PROVE  /\ proc'[p].phase = phase /\ proc'[p].todo = todo /\ proc'[p].then = then
         /\ proc'[p].parent = proc[p].parent
         /\ Rest(p) /\ proc' \in [Process -> Record]
<1> DEFINE rec == [proc[p] EXCEPT !.phase = phase, !.todo = todo, !.then = then]
<1>1. proc \in [Process -> Record] /\ proc[p] \in Record
  BY DEF TypeOK, Record
<1>2. /\ rec \in Record /\ rec.phase = phase /\ rec.todo = todo /\ rec.then = then
      /\ rec.parent = proc[p].parent
  BY <1>1 DEF Record
<1>3. proc' = [proc EXCEPT ![p] = rec]
  BY <1>1
<1> HIDE DEF rec
<1> QED
  BY <1>1, <1>2, <1>3 DEF Rest

LEMMA Exits ==
  ASSUME TypeOK, NEW p \in Process, Exit(p)
  PROVE  /\ proc'[p].phase = IF proc[p].parent # None /\ Alive(proc[p].parent) THEN "zombie" ELSE "dead"
         /\ Keeps(p) /\ Rest(p) /\ proc' \in [Process -> Record]
<1> DEFINE final == IF proc[p].parent # None /\ Alive(proc[p].parent) THEN "zombie" ELSE "dead"
<1>1. final \in {"zombie", "dead"} /\ final \in Phase
  BY DEF Phase
<1>2. proc' = [q \in Process |->
          IF q = p THEN [proc[q] EXCEPT !.phase = final]
          ELSE IF proc[q].parent = p /\ At(q, "zombie") THEN [proc[q] EXCEPT !.phase = "dead"]
          ELSE proc[q]]
  BY DEF Exit
<1> HIDE DEF final
<1>3. "dead" \in Phase
  BY DEF Phase
<1>4. proc' \in [Process -> Record]
  BY <1>1, <1>2, <1>3 DEF TypeOK, Record, At
<1>5. proc'[p].phase = final /\ Keeps(p)
  BY <1>1, <1>2 DEF TypeOK, Keeps
<1>6. Rest(p)
  BY <1>2 DEF TypeOK, Rest, At
<1> QED
  BY <1>4, <1>5, <1>6 DEF final

-----------------------------------------------------------------------------
(* A start that moves leaves the other starts and the daemons as they are. *)
LEMMA OthersStay ==
  ASSUME LifecycleAssumption, Kinds, NEW s \in Starters, Rest(s)
  PROVE  /\ \A r \in Starters \ {s} : proc'[r].phase = proc[r].phase /\ (Holds(r)' <=> Holds(r))
         /\ \A d \in Daemons : /\ proc[d].phase # "zombie" => proc'[d].phase = proc[d].phase
                               /\ Alive(d)' <=> Alive(d)
<1> USE DEF LifecycleAssumption, Process, Kinds, Rest
<1>1. \A r \in Starters \ {s} : proc'[r].phase = proc[r].phase
  BY DEF StarterPhase
<1>2. \A r \in Starters \ {s} : Holds(r)' <=> Holds(r)
  BY <1>1 DEF Holds, Clearing, Cleaning, At
<1>3. \A d \in Daemons : /\ proc[d].phase # "zombie" => proc'[d].phase = proc[d].phase
                         /\ Alive(d)' <=> Alive(d)
  BY DEF Alive
<1> QED
  BY <1>1, <1>2, <1>3

(* A daemon that can be reached stays so while only starts move. *)
LEMMA ReadyStays ==
  ASSUME LifecycleAssumption, TypeOK, Kinds, NEW s \in Starters, Rest(s),
         UNCHANGED <<address, socket>>
  PROVE  Ready' <=> Ready
<1>1. socket # None => socket \in Daemons /\ socket' = socket
  BY DEF TypeOK
<1>2. ASSUME NEW d \in Daemons
      PROVE  (proc'[d].phase \in {"address", "pid", "serve"})
                 <=> (proc[d].phase \in {"address", "pid", "serve"})
  BY DEF Rest, Process, LifecycleAssumption
<1>3. socket # None => (Listening(socket)' <=> Listening(socket))
  BY <1>1, <1>2 DEF Listening
<1> QED
  BY <1>1, <1>3 DEF Ready

(* What a start that moves must see to, and what takes care of itself.     *)
LEMMA StartMoves ==
  ASSUME LifecycleAssumption, IInv, NEW s \in Starters, Rest(s), Sees(s), proc'[s].parent = None,
         UNCHANGED <<address, pidfile, socket, asked>>,
         locks'["daemon"] = locks["daemon"]
  PROVE  /\ Asked'
         /\ Moving(s) \/ ~ Moving(s)' => Alone'
         /\ /\ Moving(s) \/ ~ Moving(s)'
            /\ At(s, "await") => \A d \in Daemons : ~ Starting(d)
            => OneStarts'
         /\ Clear(s)' /\ Judged(s)' => Cleared'
         /\ DaemonLock'
         /\ (At(s, "new")' => At(s, "new")) => Found'
<1> USE DEF IInv, At, Process, LifecycleAssumption, Rest, Sees
<1>1. /\ \A r \in Starters \ {s} : proc'[r].phase = proc[r].phase
      /\ Ready' <=> Ready
  BY OthersStay, ReadyStays
<1>2. Asked'
  BY DEF Asked
<1>3. Moving(s) \/ ~ Moving(s)' => Alone'
  BY <1>1 DEF Alone, Moving, Leaving, Alive
<1>4. ASSUME Moving(s) \/ ~ Moving(s)', At(s, "await") => \A d \in Daemons : ~ Starting(d)
      PROVE  OneStarts'
  <2>1. \A d \in Daemons : Starting(d)' => Starting(d) /\ proc'[d].parent = proc[d].parent
    BY DEF Starting
  <2>2. \A d \in Daemons : Starting(d) /\ proc[d].parent # None =>
            /\ proc[d].parent \in Starters \ {s}
            /\ proc'[proc[d].parent].phase = "await"
    BY <1>1, <1>4 DEF OneStarts, TypeOK
  <2>3. (\A r \in Starters : ~ Moving(r)) => \A r \in Starters : ~ Moving(r)'
    BY <1>1, <1>4 DEF Moving
  <2> QED
    BY <2>1, <2>2, <2>3 DEF OneStarts
<1>5. ASSUME Clear(s)', Judged(s)' PROVE Cleared'
  <2>1. ASSUME NEW r \in Starters \ {s} PROVE Clear(r)' /\ Judged(r)'
    <3>1. /\ proc'[r].phase = proc[r].phase /\ proc'[r].todo = proc[r].todo
          /\ proc'[r].then = proc[r].then
      BY <1>1
    <3>2. Clear(r)'
      BY <1>1, <3>1 DEF Cleared, Clear, Cleaning, Clearing, Flying, Starting
    <3>3. Judged(r)'
      BY <3>1 DEF Cleared, Judged, Owns, Serving
    <3> QED
      BY <3>2, <3>3
  <2> QED
    BY <1>5, <2>1 DEF Cleared
<1>6. DaemonLock'
  BY DEF DaemonLock, Owns, Serving, Written
<1>7. ASSUME At(s, "new")' => At(s, "new") PROVE Found'
  <2>1. (\A r \in Doctors : At(r, "new"))' => \A r \in Doctors : At(r, "new")
    BY <1>1, <1>7
  <2> QED
    BY <2>1 DEF Found, Serving
<1> QED
  BY <1>2, <1>3, <1>4, <1>5, <1>6, <1>7


(* The start lock stays with its holder while another start moves.         *)
LEMMA LockKept ==
  ASSUME LifecycleAssumption, IInv, NEW s \in Starters, Rest(s), Sees(s),
         locks'["startup"] = locks["startup"],
         Holds(s)' <=> Holds(s), Holds(s) => Written(s)' = Written(s),
         Seen(s)'
  PROVE  StartLock'
<1> USE DEF IInv, Process, LifecycleAssumption, At
<1>1. \A r \in Starters : /\ Holds(r)' <=> Holds(r)
                          /\ Holds(r) => Written(r)' = Written(r)
                          /\ Holds(r) => (At(r, "write")' <=> At(r, "write"))
  BY OthersStay DEF Written
<1>2. locks["startup"] # None => locks["startup"].by \in Starters
  BY DEF Kinds
<1>3. \A r \in Starters : Holds(r)' =>
          /\ locks'["startup"] # None /\ locks'["startup"].by = r
          /\ locks'["startup"].content = Written(r)'
  BY <1>1 DEF StartLock
<1>4. locks'["startup"] # None => Holds(locks["startup"].by)'
  BY <1>1, <1>2 DEF StartLock
<1>5. ASSUME NEW q \in Starters \ {s} PROVE Seen(q)'
  <2>1. proc'[q].phase = proc[q].phase /\ saw'[q] = saw[q]
    BY OthersStay DEF Sees
  <2>2. Seen(q)
    BY DEF StartLock
  <2> QED
    BY <1>1, <2>1, <2>2 DEF Seen
<1> QED
  BY <1>3, <1>4, <1>5 DEF StartLock

(* Who does not move has seen what he saw. *)
LEMMA SawStays ==
  ASSUME IInv, UNCHANGED saw, NEW p PROVE Sees(p)
BY DEF IInv, TypeOK, Sees

(* Who is settled. *)
LEMMA SettledMeans ==
  ASSUME LifecycleAssumption, IInv
  PROVE  /\ Settled(Process) =>
               /\ \A s \in Starters : ~ Moving(s)
               /\ \A d \in Daemons : ~ Flying(d) /\ ~ Leaving(d)
               /\ \A x \in Stoppers : ~ At(x, "sweep")
         /\ Settled(Daemons) => \A d \in Daemons : ~ Flying(d) /\ ~ Leaving(d)
         /\ Settled(Stoppers \cup Doctors) =>
               /\ \A s \in Doctors : ~ Moving(s)
               /\ \A x \in Stoppers : ~ At(x, "sweep")
BY DEF IInv, Kinds, DaemonPhase, StarterPhase, LifecycleAssumption, Process, Settled, Alive,
       Moving, Flying, Starting, Leaving, At

LEMMA DaemonFilesAre ==
  /\ DaemonFiles \in Seq(File) /\ DaemonFiles # <<>> /\ Len(DaemonFiles) = 5
  /\ Head(DaemonFiles) = "address"
BY DEF DaemonFiles, File

(* A start begins. *)
LEMMA Begins ==
  ASSUME LifecycleAssumption, Orderly, IInv, NEW s \in Starters, StartBegin(s)
  PROVE  IInv'
<1> USE DEF IInv, At, StartBegin
<1>1. s \in Process /\ s \notin Daemons /\ s \notin Stoppers
  BY DEF LifecycleAssumption, Process
<1>2. /\ proc[s].phase = "new" /\ Rest(s) /\ proc' \in [Process -> Record]
      /\ proc'[s].parent = None
      /\ \/ /\ proc'[s].phase = "check" /\ s \notin Doctors
         \/ /\ proc'[s].phase = "look" /\ proc'[s].todo = DaemonFiles /\ proc'[s].then = "check"
            /\ s \in Doctors
  <2>1. CASE s \in Doctors
    <3>1. proc' = [proc EXCEPT ![s].phase = "look", ![s].todo = DaemonFiles, ![s].then = "check"]
      BY <2>1
    <3>2. /\ proc'[s].phase = "look" /\ proc'[s].todo = DaemonFiles /\ proc'[s].then = "check"
          /\ proc'[s].parent = proc[s].parent
          /\ Rest(s) /\ proc' \in [Process -> Record]
      <4>1. "look" \in Phase /\ "check" \in Phase
        BY DEF Phase
      <4> QED
        BY <1>1, <3>1, <4>1, DaemonFilesAre, TurnsTo
    <3> QED
      BY <2>1, <3>2 DEF Kinds
  <2>2. CASE s \notin Doctors
    BY <1>1, <2>2, GoesTo DEF Kinds, Keeps, Phase
  <2> QED
    BY <2>1, <2>2
<1>3. UNCHANGED <<locks, address, pidfile, socket, asked, saw, deaths, raced>> /\ Sees(s)
  BY SawStays DEF files
<1>4. /\ ~ Moving(s) /\ Moving(s)' /\ ~ Holds(s) /\ ~ Holds(s)' /\ ~ Clearing(s)'
      /\ \A r \in Starters \ {s} : proc'[r].phase = proc[r].phase
      /\ \A d \in Daemons : Starting(d)' <=> Starting(d)
      /\ \A d \in Daemons : Leaving(d)' <=> Leaving(d)
  BY <1>1, <1>2, <1>3, OthersStay DEF Moving, Holds, Clearing, Cleaning, Starting, Leaving, Rest, Process
<1>5. /\ \A r \in Doctors : ~ Moving(r)
      /\ \A x \in Stoppers : ~ At(x, "sweep")
      /\ \A d \in Daemons : ~ Leaving(d)
      /\ s \in Doctors => /\ \A r \in Starters : ~ Moving(r)
                          /\ \A d \in Daemons : ~ Flying(d)
      /\ \A d \in Daemons : Starting(d) => proc[d].parent # None
  BY SettledMeans DEF Orderly, Awaited, Moving, Flying, Alone, OneStarts, LifecycleAssumption
<1>6. TypeOK' /\ Kinds' /\ Todos'
  <2> USE <1>1, <1>2, <1>3 DEF Rest, Process, LifecycleAssumption
  <2>1. TypeOK'
    BY DEF TypeOK, Record
  <2>2. Kinds'
    BY DEF Kinds, StarterPhase, DaemonPhase
  <2>3. Todos'
    BY DEF Todos, StartTodo, Cleaning
  <2> QED
    BY <2>1, <2>2, <2>3
<1>7. Alone'
  BY <1>1, <1>2, <1>3, <1>4, <1>5 DEF Alone, Moving, Rest, Process, LifecycleAssumption
<1>8. OneStarts'
  <2>1. \A d \in Daemons : Starting(d) =>
            /\ proc[d].parent \in Starters \ {s}
            /\ proc'[proc[d].parent].phase = "await"
    BY <1>2, <1>4, <1>5 DEF OneStarts, TypeOK, Process
  <2>2. \A d \in Daemons : proc'[d].parent = proc[d].parent
    BY <1>1, <1>2 DEF Rest, Process
  <2> QED
    BY <1>3, <1>4, <1>5, <2>1, <2>2 DEF OneStarts
<1>9. Clear(s)' /\ Judged(s)'
  BY <1>1, <1>2, <1>4, <1>5 DEF Clear, Judged, Flying, Starting, Cleaning, Rest, Process
<1>10. StartLock'
  BY <1>2, <1>3, <1>4, LockKept DEF Seen
<1> QED
  BY <1>2, <1>3, <1>6, <1>7, <1>8, <1>9, <1>10, StartMoves

-----------------------------------------------------------------------------
(* A start on its way. *)

StartTurns(s) ==
    /\ Rest(s) /\ proc' \in [Process -> Record] /\ proc'[s].parent = None
    /\ proc'[s].phase \in StarterPhase /\ ~ At(s, "new")'
    /\ Moving(s) \/ ~ Moving(s)'

FilesStay ==
    /\ UNCHANGED <<address, pidfile, socket, asked, deaths>>
    /\ locks' \in [Lock -> LockFile \cup {None}]
    /\ locks'["daemon"] = locks["daemon"]
    /\ locks'["startup"] # None => locks'["startup"].by \in Starters
    /\ raced' \in BOOLEAN

(* All that a start which is on its way can disturb. *)
LEMMA StartStep ==
  ASSUME LifecycleAssumption, IInv, NEW s \in Starters, StartTurns(s), FilesStay, Sees(s),
         At(s, "await") => \A d \in Daemons : ~ Starting(d),
         StartTodo(s)', Clear(s)', Judged(s)', StartLock'
  PROVE  IInv'
<1> USE DEF IInv, At
<1>1. /\ Rest(s) /\ proc' \in [Process -> Record] /\ proc'[s].parent = None
      /\ proc'[s].phase \in StarterPhase /\ proc'[s].phase # "new"
      /\ Moving(s) \/ ~ Moving(s)'
  BY DEF StartTurns
<1>2. /\ UNCHANGED <<address, pidfile, socket, asked, deaths>>
      /\ locks'["daemon"] = locks["daemon"]
  BY DEF FilesStay
<1>3. TypeOK'
  BY <1>1, <1>2 DEF TypeOK, FilesStay, Record, Sees
<1>4. Kinds'
  BY <1>1, <1>2 DEF Kinds, FilesStay, DaemonPhase, StarterPhase, Rest, Process, LifecycleAssumption
<1>5. Todos'
  <2>1. \A r \in Starters \ {s} : StartTodo(r)'
    BY <1>1, OthersStay DEF Todos, StartTodo, Cleaning, Rest, Process
  <2>2. \A p \in Daemons \cup Stoppers :
           At(p, "sweep")' => proc'[p].todo \in Seq(File \ {"startup"})
    BY <1>1 DEF Todos, Rest, Process, LifecycleAssumption
  <2> QED
    BY <2>1, <2>2 DEF Todos
<1>6. Asked' /\ Alone' /\ OneStarts' /\ Cleared' /\ DaemonLock' /\ Found'
  BY <1>1, <1>2, StartMoves
<1> QED
  BY <1>3, <1>4, <1>5, <1>6

(* Only who looks, drops or spawns has to see what is there. *)
LEMMA NoCleaner ==
  ASSUME NEW s, proc'[s].phase \notin {"look", "read", "size", "alive", "drop", "spawn", "sweep"}
  PROVE  StartTodo(s)' /\ Clear(s)' /\ Judged(s)'
BY DEF StartTodo, Clear, Judged, Cleaning, Clearing, At

LEMMA StartFinishes ==
  ASSUME LifecycleAssumption, IInv, NEW s \in Starters, NEW after \in {"run", "dead"},
         Finish(s, after), Moving(s)
  PROVE  StartTurns(s) /\ proc'[s].phase = after /\ Keeps(s)
<1> USE DEF IInv
<1>1. s \in Process /\ proc[s].parent = None
  BY DEF Process, Kinds
<1>2. CASE after = "run"
  BY <1>1, <1>2, GoesTo DEF Finish, StartTurns, StarterPhase, Phase, At, Keeps
<1>3. CASE after = "dead"
  BY <1>1, <1>3, Exits DEF Finish, StartTurns, StarterPhase, At, Keeps
<1> QED
  BY <1>2, <1>3

LEMMA StartGoes ==
  ASSUME LifecycleAssumption, IInv, NEW s \in Starters, NEW phase \in StarterPhase \ {"new"},
         Goto(s, phase), Moving(s)
  PROVE  StartTurns(s) /\ proc'[s].phase = phase /\ Keeps(s)
<1>1. s \in Process /\ phase \in Phase /\ proc[s].parent = None
  BY DEF IInv, Process, Kinds, StarterPhase, Phase
<1> QED
  BY <1>1, GoesTo DEF IInv, StartTurns, At, Keeps

LEMMA NothingWritten ==
  ASSUME IInv, UNCHANGED <<files, asked, deaths, raced>> PROVE FilesStay
BY DEF IInv, TypeOK, Kinds, FilesStay, files

(* It looks for a daemon that answers. *)
LEMMA Checks ==
  ASSUME LifecycleAssumption, IInv, NEW s \in Starters, StartCheck(s) PROVE IInv'
<1> USE DEF At, Moving, Holds, Clearing, Cleaning
<1>1. /\ proc[s].phase = "check" /\ Moving(s) /\ UNCHANGED <<files, asked, deaths, raced>>
      /\ Finish(s, After(s, TRUE)) \/ Goto(s, "create")
      /\ Sees(s)
  BY SawStays DEF StartCheck
<1>2. StartTurns(s) /\ proc'[s].phase \in {"run", "dead", "create"}
  <2>1. "create" \in StarterPhase \ {"new"} /\ After(s, TRUE) \in {"run", "dead"}
    BY DEF StarterPhase, After
  <2> QED
    BY <1>1, <2>1, StartFinishes, StartGoes
<1>3. StartLock'
  BY <1>1, <1>2, LockKept DEF StartTurns, Seen, files
<1> QED
  BY <1>1, <1>2, <1>3, NothingWritten, NoCleaner, StartStep

(* It reads the lock it found. *)
LEMMA StartReads ==
  ASSUME LifecycleAssumption, IInv, NEW s \in Starters, AcquireRead(s) PROVE IInv'
<1> USE DEF At, Moving, Holds, Clearing, Cleaning
<1>1. LockOf(s) = "startup" /\ s \in Process /\ "startup" \in Lock
  BY DEF LockOf, LifecycleAssumption, Process, Lock
<1>2. /\ proc[s].phase = "judge" /\ Moving(s) /\ UNCHANGED <<files, asked, deaths, raced>>
      /\ \/ HasPID("startup") /\ Goto(s, "probe") /\ saw' = [saw EXCEPT ![s] = locks["startup"].by]
         \/ ~ HasPID("startup") /\ Goto(s, "stat") /\ saw' = saw
  BY <1>1 DEF AcquireRead
<1>3. {"probe", "stat"} \subseteq StarterPhase \ {"new"}
  BY DEF StarterPhase
<1>4. CASE HasPID("startup")
  <2>1. StartTurns(s) /\ proc'[s].phase = "probe"
    BY <1>2, <1>3, <1>4, StartGoes
  <2>2. Sees(s) /\ saw'[s] = locks["startup"].by
    BY <1>1, <1>2, <1>4 DEF IInv, TypeOK, LockFile, HasPID, Sees
  <2>3. \A r \in Starters : Holds(r)' => Holds(r)
    BY <1>2, <2>1, OthersStay DEF StartTurns, IInv
  <2>4. Seen(s)'
    BY <2>1, <2>2, <2>3 DEF IInv, StartLock, Seen
  <2>5. StartLock'
    BY <1>2, <2>1, <2>2, <2>4, LockKept DEF StartTurns, files
  <2> QED
    BY <1>2, <2>1, <2>2, <2>5, NothingWritten, NoCleaner, StartStep
<1>5. CASE ~ HasPID("startup")
  <2>1. StartTurns(s) /\ proc'[s].phase = "stat" /\ Sees(s)
    BY <1>2, <1>3, <1>5, StartGoes, SawStays
  <2>2. \A r \in Starters : Holds(r)' => Holds(r) /\ r # s /\ proc'[r].phase = proc[r].phase
    BY <1>2, <2>1, OthersStay DEF StartTurns, IInv
  <2>3. \A r \in Starters : Holds(r) => proc[r].phase = "write"
    BY <1>5 DEF IInv, StartLock, HasPID, Written
  <2>4. Seen(s)'
    BY <2>1, <2>2, <2>3 DEF Seen
  <2>5. StartLock'
    BY <1>2, <2>1, <2>4, LockKept DEF StartTurns, files
  <2> QED
    BY <1>2, <2>1, <2>5, NothingWritten, NoCleaner, StartStep
<1> QED
  BY <1>4, <1>5

(* It judges the lock by what it read: by the file, or by the process.     *)
LEMMA StartJudges ==
  ASSUME LifecycleAssumption, IInv, NEW s \in Starters, AcquireStat(s) \/ AcquireProbe(s)
  PROVE  IInv'
<1> USE DEF At, Moving, Holds, Clearing, Cleaning
<1>1. LockOf(s) = "startup" /\ s \notin Daemons /\ s \in Process
  BY DEF LockOf, LifecycleAssumption, Process
<1>2. /\ proc[s].phase \in {"stat", "probe"} /\ Moving(s)
      /\ UNCHANGED <<files, asked, deaths, raced>>
      /\ Goto(s, "remove") \/ Goto(s, "waitOther")
  BY <1>1 DEF AcquireStat, AcquireProbe, Refused
<1>3. Sees(s)
  BY DEF AcquireStat, AcquireProbe, IInv, TypeOK, Sees
<1>4. StartTurns(s) /\ proc'[s].phase \in {"remove", "waitOther"}
  <2>1. {"remove", "waitOther"} \subseteq StarterPhase \ {"new"}
    BY DEF StarterPhase
  <2> QED
    BY <1>2, <2>1, StartGoes
<1>5. ASSUME proc'[s].phase = "remove", NEW r \in Starters, Holds(r) PROVE FALSE
  <2>1. ~ Goto(s, "waitOther")
    BY <1>1, <1>5 DEF Goto, IInv, TypeOK
  <2>2. Seen(s) /\ locks["startup"] # None /\ locks["startup"].content = Written(r)
    BY <1>5 DEF IInv, StartLock
  <2>3. CASE AcquireStat(s)
    BY <1>1, <1>5, <2>1, <2>2, <2>3 DEF AcquireStat, Refused, NotYoung, Seen, Written
  <2>4. CASE AcquireProbe(s)
    <3>1. ~ Signalled(saw[s]) /\ saw[s] = r
      BY <1>1, <1>5, <2>1, <2>2, <2>4 DEF AcquireProbe, Refused, Seen
    <3> QED
      BY <1>5, <3>1 DEF Signalled
  <2> QED
    BY <2>3, <2>4
<1>6. Seen(s)'
  <2>1. \A r \in Starters : Holds(r)' => Holds(r)
    BY <1>2, <1>4, OthersStay DEF StartTurns, IInv
  <2> QED
    BY <1>4, <1>5, <2>1 DEF Seen
<1>7. StartLock'
  BY <1>2, <1>3, <1>4, <1>6, LockKept DEF StartTurns, files
<1> QED
  BY <1>2, <1>3, <1>4, <1>7, NothingWritten, NoCleaner, StartStep

(* It creates the lock, or finds it taken. *)
LEMMA StartCreates ==
  ASSUME LifecycleAssumption, IInv, NEW s \in Starters, AcquireCreate(s), ~ raced'
  PROVE  IInv'
<1> USE DEF At
<1>1. LockOf(s) = "startup" /\ s \in Process
  BY DEF LockOf, LifecycleAssumption, Process
<1>2. /\ proc[s].phase = "create" /\ Moving(s) /\ ~ Holds(s)
      /\ UNCHANGED <<address, pidfile, socket, asked, deaths>> /\ Sees(s)
      /\ raced' = FALSE
  BY SawStays DEF AcquireCreate, Moving, Holds, Clearing, Cleaning, Races, IInv, TypeOK
<1>3. CASE locks["startup"] = None
  <2>1. locks' = [locks EXCEPT !["startup"] = [by |-> s, content |-> "empty"]] /\ Goto(s, "write")
    BY <1>1, <1>3 DEF AcquireCreate
  <2>2. StartTurns(s) /\ proc'[s].phase = "write"
    <3>1. "write" \in StarterPhase \ {"new"}
      BY DEF StarterPhase
    <3> QED
      BY <1>2, <2>1, <3>1, StartGoes
  <2>3. /\ locks' \in [Lock -> LockFile \cup {None}] /\ locks'["daemon"] = locks["daemon"]
        /\ locks'["startup"] # None /\ locks'["startup"].by = s
        /\ locks'["startup"].content = "empty"
    <3>1. [by |-> s, content |-> "empty"] \in LockFile
      BY <1>1 DEF LockFile
    <3> QED
      BY <2>1, <3>1 DEF IInv, TypeOK, Lock, LifecycleAssumption
  <2>4. \A r \in Starters : ~ Holds(r)
    BY <1>3 DEF IInv, StartLock
  <2>5. \A q \in Starters \ {s} : ~ Judging(q)
    BY <1>3, <1>1 DEF AcquireCreate, Races, Judging
  <2>6. \A r \in Starters \ {s} : ~ Holds(r)' /\ ~ Judging(r)'
    BY <2>2, <2>4, <2>5, OthersStay DEF StartTurns, IInv, Judging
  <2>7. StartLock'
    BY <2>2, <2>3, <2>6 DEF StartLock, Holds, Written, Seen, Judging
  <2>8. FilesStay
    BY <1>2, <2>3 DEF FilesStay
  <2> QED
    BY <1>2, <2>2, <2>7, <2>8, NoCleaner, StartStep
<1>4. CASE locks["startup"] # None
  <2>1. UNCHANGED locks /\ Goto(s, "judge")
    BY <1>1, <1>4 DEF AcquireCreate
  <2>2. StartTurns(s) /\ proc'[s].phase = "judge"
    <3>1. "judge" \in StarterPhase \ {"new"}
      BY DEF StarterPhase
    <3> QED
      BY <1>2, <2>1, <3>1, StartGoes
  <2>3. StartLock'
    BY <1>2, <2>1, <2>2, LockKept DEF StartTurns, Holds, Clearing, Cleaning, Seen
  <2>4. FilesStay
    BY <1>2, <2>1 DEF FilesStay, IInv, TypeOK, Kinds
  <2> QED
    BY <1>2, <2>2, <2>3, <2>4, NoCleaner, StartStep
<1> QED
  BY <1>3, <1>4

(* It writes its pid, if the file is still its own. *)
LEMMA StartWrites ==
  ASSUME LifecycleAssumption, IInv, NEW s \in Starters, AcquireWrite(s), ~ raced'
  PROVE  IInv'
<1> USE DEF At
<1>1. LockOf(s) = "startup" /\ s \in Process /\ s \notin Daemons
  BY DEF LockOf, LifecycleAssumption, Process
<1>2. /\ proc[s].phase = "write" /\ Moving(s) /\ Holds(s)
      /\ UNCHANGED <<address, pidfile, socket, asked, deaths>> /\ Sees(s)
      /\ Goto(s, "recheck") /\ ~ Races(s) /\ raced' = FALSE
  BY <1>1, SawStays DEF AcquireWrite, Moving, Holds, Races, IInv, TypeOK
<1>3. locks["startup"] # None /\ locks["startup"].by = s
  BY <1>2 DEF IInv, StartLock
<1>4. /\ locks' \in [Lock -> LockFile \cup {None}] /\ locks'["daemon"] = locks["daemon"]
      /\ locks'["startup"] # None /\ locks'["startup"].by = s
      /\ locks'["startup"].content = "pid"
  <2>1. locks["startup"] \in LockFile
    BY <1>3 DEF IInv, TypeOK, Lock
  <2>2. locks' = [locks EXCEPT !["startup"] = [locks["startup"] EXCEPT !.content = "pid"]]
    BY <1>1, <1>3 DEF AcquireWrite
  <2>3. [locks["startup"] EXCEPT !.content = "pid"] \in LockFile
    BY <2>1 DEF LockFile
  <2> QED
    BY <1>3, <2>1, <2>2, <2>3 DEF IInv, TypeOK, Lock, LockFile, LifecycleAssumption
<1>5. StartTurns(s) /\ proc'[s].phase = "recheck"
  <2>1. "recheck" \in StarterPhase \ {"new"}
    BY DEF StarterPhase
  <2> QED
    BY <1>2, <2>1, StartGoes
<1>6. \A r \in Starters \ {s} : ~ Holds(r)' /\ ~ Judging(r)'
  <2>1. \A r \in Starters \ {s} : ~ Holds(r) /\ ~ Judging(r)
    BY <1>2, <1>3 DEF IInv, StartLock, Races, Judging
  <2> QED
    BY <1>5, <2>1, OthersStay DEF StartTurns, IInv, Judging
<1>7. StartLock'
  BY <1>4, <1>5, <1>6 DEF StartLock, Holds, Written, Seen, Judging
<1>8. FilesStay
  BY <1>2, <1>4 DEF FilesStay
<1> QED
  BY <1>2, <1>5, <1>7, <1>8, NoCleaner, StartStep

(* It removes what is at the path of the lock. *)
LEMMA StartRemoves ==
  ASSUME LifecycleAssumption, IInv, NEW s \in Starters, AcquireRemove(s) PROVE IInv'
<1> USE DEF At
<1>1. s \in Process /\ s \notin Daemons /\ proc[s].parent = None
  BY DEF LifecycleAssumption, Process, IInv, Kinds
<1>2. /\ proc[s].phase = "remove" /\ Moving(s) /\ ~ Holds(s)
      /\ Remove("startup") /\ UNCHANGED <<asked, deaths, raced>> /\ Sees(s)
  BY <1>1, SawStays DEF AcquireRemove, Moving, Holds, Clearing, Cleaning
<1>3. StartTurns(s) /\ proc'[s].phase \in {"create", "waitOther"}
  <2>1. {"create", "waitOther"} \subseteq StarterPhase \ {"new"}
    BY DEF StarterPhase
  <2>2. CASE proc[s].attempt = 0
    <3> DEFINE rec == [proc[s] EXCEPT !.phase = "create", !.attempt = 1]
    <3>1. proc \in [Process -> Record] /\ proc[s] \in Record
      BY <1>1 DEF IInv, TypeOK, Record
    <3>2. rec \in Record /\ rec.phase = "create" /\ rec.parent = None
      BY <1>1, <3>1 DEF Record, Phase
    <3>3. proc' = [proc EXCEPT ![s] = rec]
      BY <2>2, <3>1 DEF AcquireRemove
    <3> HIDE DEF rec
    <3> QED
      BY <1>1, <1>2, <2>1, <3>1, <3>2, <3>3 DEF StartTurns, Rest
  <2>3. CASE proc[s].attempt # 0
    <3>1. Goto(s, "waitOther")
      BY <1>1, <2>3 DEF AcquireRemove, Refused
    <3> QED
      BY <1>2, <2>1, <3>1, StartGoes
  <2> QED
    BY <2>2, <2>3
<1>4. /\ locks' \in [Lock -> LockFile \cup {None}] /\ locks'["daemon"] = locks["daemon"]
      /\ locks'["startup"] = None /\ UNCHANGED <<address, pidfile, socket>>
  BY <1>2 DEF Remove, IInv, TypeOK, Lock
<1>5. \A r \in Starters : ~ Holds(r)
  BY <1>2 DEF IInv, StartLock, Seen, At
<1>6. \A r \in Starters : ~ Holds(r)'
  BY <1>3, <1>5, OthersStay DEF StartTurns, IInv, Holds, Clearing, Cleaning
<1>7. StartLock'
  BY <1>4, <1>6 DEF StartLock, Seen
<1>8. FilesStay
  BY <1>2, <1>4 DEF FilesStay, IInv, TypeOK
<1> QED
  BY <1>2, <1>3, <1>7, <1>8, NoCleaner, StartStep

LEMMA StartTurnsTo ==
  ASSUME LifecycleAssumption, IInv, NEW s \in Starters, NEW phase \in StarterPhase \ {"new"},
         NEW todo \in Seq(File), NEW then \in StarterPhase, Moving(s),
         proc' = [proc EXCEPT ![s].phase = phase, ![s].todo = todo, ![s].then = then]
  PROVE  /\ StartTurns(s) /\ proc'[s].phase = phase /\ proc'[s].todo = todo
         /\ proc'[s].then = then
<1>1. s \in Process /\ phase \in Phase /\ then \in Phase /\ proc[s].parent = None
  BY DEF IInv, Process, Kinds, StarterPhase, Phase
<1>2. TypeOK
  BY DEF IInv
<1>3. /\ proc'[s].phase = phase /\ proc'[s].todo = todo /\ proc'[s].then = then
      /\ proc'[s].parent = proc[s].parent
      /\ Rest(s) /\ proc' \in [Process -> Record]
  BY <1>1, <1>2, TurnsTo
<1> QED
  BY <1>1, <1>3 DEF StartTurns, At

(* It is done, and gives the lock back. *)
LEMMA StartReleases ==
  ASSUME LifecycleAssumption, IInv, NEW s \in Starters, NEW ready \in BOOLEAN,
         proc[s].phase \in {"recheck", "await"}, Release(s, ready),
         UNCHANGED <<files, asked, saw, deaths, raced>>,
         At(s, "await") => \A d \in Daemons : ~ Starting(d)
  PROVE  IInv'
<1> USE DEF At, Moving, Holds, Clearing, Cleaning
<1>1. <<"startup">> \in Seq(File) /\ After(s, ready) \in {"run", "dead"}
  BY DEF File, After
<1>2. {"run", "dead"} \subseteq StarterPhase /\ "sweep" \in StarterPhase \ {"new"}
  BY DEF StarterPhase
<1>3. /\ StartTurns(s) /\ proc'[s].phase = "sweep" /\ proc'[s].todo = <<"startup">>
      /\ proc'[s].then \in {"run", "dead"}
  BY <1>1, <1>2, StartTurnsTo DEF Release
<1>4. StartLock' /\ Sees(s)
  <2>1. Sees(s)
    BY SawStays
  <2> QED
    BY <1>3, <2>1, LockKept DEF StartTurns, Written, Seen, files
<1>5. StartTodo(s)' /\ Clear(s)' /\ Judged(s)'
  BY <1>3 DEF StartTodo, Clear, Judged
<1> QED
  BY <1>3, <1>4, <1>5, NothingWritten, StartStep

(* It waits for its daemon, or for the daemon of another start. *)
LEMMA StartAwaits ==
  ASSUME LifecycleAssumption, Orderly, IInv, NEW s \in Starters, Await(s) \/ AwaitOther(s)
  PROVE  IInv'
<1> USE DEF At, Moving, Holds, Clearing, Cleaning
<1>1. CASE Await(s)
  <2>1. /\ proc[s].phase = "await" /\ UNCHANGED <<files, asked, saw, deaths, raced>>
        /\ Release(s, Ready) /\ Ready \in BOOLEAN
    BY <1>1 DEF Await, Ready, Listening, IInv, TypeOK
  <2>2. \A d \in Daemons : ~ Starting(d)
    BY <1>1, <2>1 DEF Await, Orderly, IInv, OneStarts, Ready
  <2> QED
    BY <2>1, <2>2, StartReleases
<1>2. CASE AwaitOther(s)
  <2>1. /\ proc[s].phase = "waitOther" /\ Moving(s)
        /\ UNCHANGED <<files, asked, deaths, raced>> /\ Sees(s)
        /\ Finish(s, After(s, Ready)) /\ After(s, Ready) \in {"run", "dead"}
    BY <1>2, SawStays DEF AwaitOther, After
  <2>2. StartTurns(s) /\ proc'[s].phase \in {"run", "dead"}
    BY <2>1, StartFinishes
  <2>3. StartLock'
    BY <2>1, <2>2, LockKept DEF StartTurns, Seen, files
  <2> QED
    BY <2>1, <2>2, <2>3, NothingWritten, NoCleaner, StartStep
<1> QED
  BY <1>1, <1>2

(* The client of forge mcp is gone. *)
LEMMA ServerExits ==
  ASSUME LifecycleAssumption, IInv, NEW s \in Starters, ServerExit(s) PROVE IInv'
<1> USE DEF At, Moving, Holds, Clearing, Cleaning
<1>1. /\ proc[s].phase = "run" /\ Exit(s) /\ UNCHANGED <<files, asked, deaths, raced>>
      /\ s \in Process /\ proc[s].parent = None /\ Sees(s)
  BY SawStays DEF ServerExit, IInv, Kinds, Process
<1>2. StartTurns(s) /\ proc'[s].phase = "dead"
  BY <1>1, Exits DEF StartTurns, IInv, Keeps, StarterPhase
<1>3. StartLock'
  BY <1>1, <1>2, LockKept DEF StartTurns, Seen, files
<1> QED
  BY <1>1, <1>2, <1>3, NothingWritten, NoCleaner, StartStep

(* It removes its lock, and ends. *)
LEMMA StartSweeps ==
  ASSUME LifecycleAssumption, IInv, NEW s \in Starters, Sweep(s) PROVE IInv'
<1> USE DEF At
<1>1. /\ proc[s].phase = "sweep" /\ Moving(s) /\ s \in Process /\ Sees(s)
      /\ proc[s].todo \in {<<"startup">>, <<>>} /\ proc[s].then \in {"run", "dead"}
      /\ proc[s].parent = None /\ UNCHANGED <<asked, deaths, raced>>
  BY SawStays DEF Sweep, Moving, IInv, Todos, StartTodo, Process, Kinds
<1>2. CASE proc[s].todo = <<"startup">>
  <2>1. Remove("startup") /\ proc' = [proc EXCEPT ![s].todo = <<>>]
    BY <1>2 DEF Sweep
  <2>2. StartTurns(s) /\ proc'[s].phase = "sweep" /\ proc'[s].todo = <<>> /\ proc'[s].then = proc[s].then
    <3> DEFINE rec == [proc[s] EXCEPT !.todo = <<>>]
    <3>1. proc \in [Process -> Record] /\ proc[s] \in Record
      BY <1>1 DEF IInv, TypeOK, Record
    <3>2. /\ rec \in Record /\ rec.phase = "sweep" /\ rec.parent = None /\ rec.todo = <<>>
          /\ rec.then = proc[s].then
      <4>1. <<>> \in Seq(File)
        OBVIOUS
      <4> QED
        BY <1>1, <3>1, <4>1 DEF Record
    <3>3. proc' = [proc EXCEPT ![s] = rec]
      BY <2>1, <3>1
    <3> HIDE DEF rec
    <3> QED
      BY <1>1, <3>1, <3>2, <3>3 DEF StartTurns, StarterPhase, Rest
  <2>3. /\ locks' \in [Lock -> LockFile \cup {None}] /\ locks'["daemon"] = locks["daemon"]
        /\ locks'["startup"] = None /\ UNCHANGED <<address, pidfile, socket>>
    BY <2>1 DEF Remove, IInv, TypeOK, Lock
  <2>4. \A r \in Starters \ {s} : ~ Holds(r)
    BY <1>1, <1>2 DEF IInv, StartLock, Holds
  <2>5. \A r \in Starters : ~ Holds(r)'
    BY <2>2, <2>4, OthersStay DEF StartTurns, IInv, Holds, Clearing, Cleaning
  <2>6. StartLock'
    BY <2>3, <2>5 DEF StartLock, Seen
  <2>7. FilesStay
    BY <1>1, <2>3 DEF FilesStay, IInv, TypeOK
  <2>8. StartTodo(s)' /\ Clear(s)' /\ Judged(s)'
    BY <1>1, <2>2 DEF StartTodo, Clear, Judged, Clearing, Cleaning
  <2> QED
    BY <1>1, <2>2, <2>6, <2>7, <2>8, StartStep
<1>3. CASE proc[s].todo = <<>>
  <2>1. Finish(s, proc[s].then) /\ UNCHANGED files
    BY <1>3 DEF Sweep
  <2>2. StartTurns(s) /\ proc'[s].phase \in {"run", "dead"}
    BY <1>1, <2>1, StartFinishes
  <2>3. StartLock'
    BY <1>1, <1>3, <2>1, <2>2, LockKept
    DEF StartTurns, Seen, files, Holds, Clearing, Cleaning
  <2> QED
    BY <1>1, <2>1, <2>2, <2>3, NothingWritten, NoCleaner, StartStep
<1> QED
  BY <1>1, <1>2, <1>3

(* It begins to clean up. *)
LEMMA StartCleans ==
  ASSUME LifecycleAssumption, IInv, NEW s \in Starters, Moving(s),
         proc' = [proc EXCEPT ![s].phase = "look", ![s].todo = DaemonFiles, ![s].then = "spawn"]
  PROVE  /\ StartTurns(s) /\ proc'[s].phase = "look" /\ proc'[s].todo = DaemonFiles
         /\ proc'[s].then = "spawn"
<1>1. "look" \in StarterPhase \ {"new"} /\ "spawn" \in StarterPhase
  BY DEF StarterPhase
<1>2. DaemonFiles \in Seq(File)
  BY DaemonFilesAre
<1> QED
  BY <1>1, <1>2, StartTurnsTo

(* With the lock, it looks once more for a daemon that answers. *)
LEMMA Rechecks ==
  ASSUME LifecycleAssumption, IInv, NEW s \in Starters, StartRecheck(s) PROVE IInv'
<1> USE DEF At, Moving, Holds, Clearing, Cleaning
<1>1. /\ proc[s].phase = "recheck" /\ Moving(s) /\ Holds(s)
      /\ UNCHANGED <<files, asked, saw, deaths, raced>> /\ Sees(s)
  BY SawStays DEF StartRecheck
<1>2. CASE Ready
  BY <1>1, <1>2, StartReleases DEF StartRecheck
<1>3. CASE ~ Ready
  <2>1. proc' = [proc EXCEPT ![s].phase = "look", ![s].todo = DaemonFiles, ![s].then = "spawn"]
    BY <1>3 DEF StartRecheck, CleanUp
  <2>2. /\ StartTurns(s) /\ proc'[s].phase = "look" /\ proc'[s].todo = DaemonFiles
        /\ proc'[s].then = "spawn"
    BY <1>1, <2>1, StartCleans
  <2>3. StartLock'
    BY <1>1, <2>2, LockKept DEF StartTurns, Seen, Written, files
  <2>4. ASSUME NEW d \in Daemons, Flying(d) PROVE FALSE
    <3>1. CASE Starting(d)
      <4>1. proc[d].parent \in Starters /\ proc[proc[d].parent].phase = "await"
        BY <1>1, <3>1 DEF IInv, OneStarts, TypeOK, Process
      <4>2. PICK r \in Starters : r = proc[d].parent
        BY <4>1
      <4>3. Holds(r)
        BY <4>1, <4>2
      <4>4. r = s
        BY <1>1, <4>3 DEF IInv, StartLock
      <4> QED
        BY <1>1, <4>1, <4>2, <4>4
    <3>2. CASE proc[d].phase = "pid"
      BY <1>3, <3>2, d # None DEF IInv, Found, Ready, Listening, LifecycleAssumption, Process
    <3> QED
      BY <2>4, <3>1, <3>2 DEF Flying
  <2>5. ~ Ready'
    BY <1>1, <1>3, <2>2, ReadyStays DEF StartTurns, IInv, files
  <2>6. \A d \in Daemons : ~ Flying(d)'
    BY <2>2, <2>4 DEF StartTurns, Flying, Starting, Rest, Process, LifecycleAssumption
  <2>7. StartTodo(s)' /\ Clear(s)' /\ Judged(s)'
    BY <2>2, <2>5, <2>6 DEF StartTodo, Clear, Judged
  <2> QED
    BY <1>1, <2>2, <2>3, <2>7, NothingWritten, StartStep
<1> QED
  BY <1>2, <1>3

-----------------------------------------------------------------------------
(* The files are cleaned up, and a daemon is spawned. *)

(* What is on a list is looked at from its head; what is left is shorter. *)
LEMMA TailShorter ==
  ASSUME NEW list \in Seq(File), list # <<>>
  PROVE  /\ Head(list) \in File /\ Tail(list) \in Seq(File)
         /\ list = DaemonFiles \/ Len(list) < 5 => Len(Tail(list)) < 5
<1>1. /\ Len(list) \in Nat /\ Len(list) # 0 /\ Tail(list) \in Seq(File)
      /\ Len(Tail(list)) = Len(list) - 1 /\ Head(list) \in File
  BY EmptySeq, HeadTailProperties
<1>2. list = DaemonFiles => Len(list) = 5
  BY DaemonFilesAre
<1> QED
  BY <1>1, <1>2

(* Who cleans up, and what he has found so far. *)
LEMMA Cleaner ==
  ASSUME LifecycleAssumption, IInv, NEW s \in Starters, Cleaning(s)
  PROVE  /\ Moving(s) /\ s \in Process /\ proc[s].parent = None
         /\ proc[s].todo \in Seq(File)
         /\ proc[s].todo = DaemonFiles \/ Len(proc[s].todo) < 5
         /\ proc[s].then = "spawn" \/ (proc[s].then = "check" /\ s \in Doctors)
         /\ Holds(s) <=> proc[s].then = "spawn"
         /\ Clearing(s) <=> proc[s].then = "spawn"
         /\ \A d \in Daemons : ~ Flying(d)
         /\ proc[s].then = "spawn" => ~ Ready /\ (proc[s].todo # DaemonFiles => ~ address)
<1>1. /\ Moving(s) /\ s \in Process /\ proc[s].parent = None
      /\ proc[s].todo \in Seq(File)
      /\ proc[s].todo = DaemonFiles \/ Len(proc[s].todo) < 5
      /\ proc[s].then = "spawn" \/ (proc[s].then = "check" /\ s \in Doctors)
      /\ Holds(s) <=> proc[s].then = "spawn"
      /\ Clearing(s) <=> proc[s].then = "spawn"
  BY DEF Cleaning, Moving, IInv, Todos, StartTodo, Process, TypeOK, Kinds, Holds, Clearing, At
<1>2. /\ \A d \in Daemons : ~ Flying(d)
      /\ proc[s].then = "spawn" => ~ Ready /\ (proc[s].todo # DaemonFiles => ~ address)
  BY <1>1 DEF IInv, Cleared, Clear, Cleaning, At
<1> QED
  BY <1>1, <1>2

(* The next file's turn. *)
LEMMA Passes ==
  ASSUME LifecycleAssumption, IInv, NEW s \in Starters, Cleaning(s), Pass(s), proc[s].todo # <<>>
  PROVE  /\ StartTurns(s) /\ proc'[s].phase = "look" /\ proc'[s].todo = Tail(proc[s].todo)
         /\ proc'[s].then = proc[s].then /\ Len(proc'[s].todo) < 5
<1> DEFINE rec == [proc[s] EXCEPT !.phase = "look", !.todo = Tail(proc[s].todo)]
<1>1. /\ Moving(s) /\ s \in Process /\ proc[s].parent = None
      /\ proc[s].todo \in Seq(File)
      /\ proc[s].todo = DaemonFiles \/ Len(proc[s].todo) < 5
  BY Cleaner
<1>2. Tail(proc[s].todo) \in Seq(File) /\ Len(Tail(proc[s].todo)) < 5
  BY <1>1, TailShorter
<1>3. proc \in [Process -> Record] /\ proc[s] \in Record
  BY <1>1 DEF IInv, TypeOK, Record
<1>4. /\ rec \in Record /\ rec.phase = "look" /\ rec.parent = None
      /\ rec.todo = Tail(proc[s].todo) /\ rec.then = proc[s].then
  BY <1>1, <1>2, <1>3 DEF Record, Phase
<1>5. proc' = [proc EXCEPT ![s] = rec]
  BY <1>3 DEF Pass
<1> HIDE DEF rec
<1> QED
  BY <1>1, <1>2, <1>3, <1>4, <1>5 DEF StartTurns, StarterPhase, Rest, At

(* A step of it that writes nothing. *)
LEMMA KeepsCleaning ==
  ASSUME LifecycleAssumption, IInv, NEW s \in Starters, Cleaning(s), Cleaning(s)',
         StartTurns(s), Sees(s), UNCHANGED <<files, asked, deaths, raced>>,
         proc'[s].then = proc[s].then, StartTodo(s)', Judged(s)',
         proc[s].then = "spawn" /\ proc'[s].todo # DaemonFiles => ~ address
  PROVE  IInv'
<1>1. /\ Moving(s) /\ s \in Process
      /\ Holds(s) <=> proc[s].then = "spawn"
      /\ Clearing(s) <=> proc[s].then = "spawn"
      /\ \A d \in Daemons : ~ Flying(d)
      /\ proc[s].then = "spawn" => ~ Ready
  BY Cleaner
<1>2. (\A d \in Daemons : ~ Flying(d)') /\ (proc[s].then = "spawn" => ~ Ready')
  BY <1>1, ReadyStays
  DEF IInv, StartTurns, Flying, Starting, Rest, Process, LifecycleAssumption, files, At
<1>3. StartLock'
  <2>1. (Holds(s)' <=> Holds(s)) /\ Written(s)' = Written(s) /\ Seen(s)'
    BY <1>1 DEF Holds, Clearing, Cleaning, Written, Seen, At
  <2> QED
    BY <2>1, LockKept DEF StartTurns, files
<1>4. Clear(s)'
  BY <1>1, <1>2 DEF Clear, Clearing, Cleaning, files, At
<1>5. ~ At(s, "await")
  BY DEF Cleaning, At
<1> QED
  BY <1>3, <1>4, <1>5, NothingWritten, StartStep

(* It looks at the next file. *)
LEMMA CleanLooks ==
  ASSUME LifecycleAssumption, IInv, NEW s \in Starters, CleanLook(s) PROVE IInv'
<1> USE DEF At, Cleaning
<1> DEFINE file == Head(proc[s].todo)
<1>1. /\ proc[s].phase = "look" /\ UNCHANGED <<files, asked, deaths, raced>>
      /\ saw' = IF At(s, "alive")' THEN [saw EXCEPT ![s] = pidfile] ELSE saw
      /\ pidfile' = pidfile
  BY DEF CleanLook, files
<1>2. /\ Moving(s) /\ s \in Process /\ proc[s].todo \in Seq(File)
      /\ proc[s].todo = DaemonFiles \/ Len(proc[s].todo) < 5
      /\ proc[s].then = "spawn" \/ (proc[s].then = "check" /\ s \in Doctors)
      /\ Holds(s) <=> proc[s].then = "spawn"
      /\ \A d \in Daemons : ~ Flying(d)
      /\ proc[s].then = "spawn" => ~ Ready /\ (proc[s].todo # DaemonFiles => ~ address)
  BY <1>1, Cleaner
<1>3. Sees(s)
  <2>1. pidfile \in Process \cup {None} /\ saw \in [Process -> Process \cup {None}]
    BY DEF IInv, TypeOK, Process
  <2> QED
    BY <1>1, <2>1 DEF Sees
<1>4. CASE proc[s].todo = <<>>
  <2>1. Goto(s, proc[s].then)
    BY <1>4 DEF CleanLook
  <2>2. StartTurns(s) /\ proc'[s].phase = proc[s].then /\ Keeps(s)
    <3>1. proc[s].then \in StarterPhase \ {"new"}
      BY <1>2 DEF StarterPhase
    <3> QED
      BY <1>2, <2>1, <3>1, StartGoes
  <2>3. StartLock'
    <3>1. /\ Holds(s)' <=> Holds(s)
          /\ Written(s)' = Written(s) /\ Seen(s)'
      BY <1>1, <1>2, <2>2 DEF Written, Holds, Clearing, Seen
    <3> QED
      BY <1>1, <1>3, <2>2, <3>1, LockKept DEF StartTurns, files
  <2>4. (\A d \in Daemons : ~ Flying(d)') /\ (proc[s].then = "spawn" => ~ Ready')
    BY <1>1, <1>2, <2>2, ReadyStays
    DEF IInv, StartTurns, Flying, Starting, Rest, Process, LifecycleAssumption, files
  <2>5. StartTodo(s)' /\ Clear(s)' /\ Judged(s)'
    BY <1>1, <1>2, <1>4, <2>2, <2>4, DaemonFilesAre DEF StartTodo, Clear, Judged, Clearing, files
  <2> QED
    BY <1>1, <1>3, <2>2, <2>3, <2>5, NothingWritten, StartStep
<1>5. ASSUME proc[s].todo # <<>>, NEW phase \in {"drop", "alive", "read"}, Goto(s, phase),
             phase = "drop" => file \in {"address", "socket"},
             phase = "alive" => file = "pid",
             phase = "read" => file \in {"lock", "startup"}
      PROVE  IInv'
  <2>1. StartTurns(s) /\ proc'[s].phase = phase /\ Keeps(s)
    <3>1. phase \in StarterPhase \ {"new"}
      BY DEF StarterPhase
    <3> QED
      BY <1>2, <1>5, <3>1, StartGoes
  <2>2. StartTodo(s)'
    BY <1>2, <1>5, <2>1 DEF StartTodo, Keeps
  <2>3. Judged(s)'
    <3>1. CASE phase = "alive"
      <4>1. saw'[s] = pidfile
        BY <1>1, <1>2, <2>1, <3>1 DEF IInv, TypeOK
      <4>2. \A d \in Daemons : Serving(d)' => pidfile = d
        BY <1>1, <2>1, OthersStay
        DEF IInv, Found, Serving, StartTurns, Rest, Process, LifecycleAssumption
      <4> QED
        BY <1>5, <2>1, <3>1, <4>1, <4>2 DEF Judged, Keeps
    <3>2. CASE phase # "alive"
      BY <1>5, <2>1, <3>2 DEF Judged, Keeps
    <3> QED
      BY <3>1, <3>2
  <2> QED
    BY <1>1, <1>2, <1>3, <2>1, <2>2, <2>3, KeepsCleaning DEF Keeps
<1>6. ASSUME proc[s].todo # <<>>, Pass(s), file = "address" => ~ address \/ Ready PROVE IInv'
  <2>1. /\ StartTurns(s) /\ proc'[s].phase = "look" /\ proc'[s].todo = Tail(proc[s].todo)
        /\ proc'[s].then = proc[s].then /\ Len(proc'[s].todo) < 5
    BY <1>1, <1>6, Passes
  <2>2. proc[s].then = "spawn" => ~ address
    BY <1>2, <1>6, DaemonFilesAre
  <2>3. StartTodo(s)' /\ Judged(s)'
    BY <1>2, <2>1 DEF StartTodo, Judged
  <2> QED
    BY <1>1, <1>3, <2>1, <2>2, <2>3, KeepsCleaning
<1>7. CASE proc[s].todo # <<>>
  <2>1. \/ file \in {"address", "socket"} /\ Goto(s, "drop")
        \/ file = "pid" /\ Goto(s, "alive")
        \/ file \in {"lock", "startup"} /\ Goto(s, "read")
        \/ Pass(s) /\ (file = "address" => ~ address \/ Ready)
    BY <1>7 DEF CleanLook
  <2> QED
    BY <1>5, <1>6, <1>7, <2>1
<1> QED
  BY <1>4, <1>7

(* It reads the pid in a lock file. *)
LEMMA CleanReads ==
  ASSUME LifecycleAssumption, IInv, NEW s \in Starters, CleanRead(s) PROVE IInv'
<1> USE DEF At, Cleaning
<1> DEFINE file == Head(proc[s].todo)
           l == LockFor(file)
<1>1. /\ proc[s].phase = "read" /\ UNCHANGED <<files, asked, deaths, raced>>
      /\ proc[s].todo # <<>> /\ file \in {"lock", "startup"}
      /\ l = (IF file = "lock" THEN "daemon" ELSE "startup") /\ l \in Lock
      /\ UNCHANGED locks
  BY DEF CleanRead, IInv, Todos, StartTodo, LockFor, Lock, files
<1>2. /\ Moving(s) /\ s \in Process /\ proc[s].todo \in Seq(File)
      /\ proc[s].todo = DaemonFiles \/ Len(proc[s].todo) < 5
      /\ proc[s].then = "spawn" \/ (proc[s].then = "check" /\ s \in Doctors)
      /\ Holds(s) <=> proc[s].then = "spawn"
      /\ \A d \in Daemons : ~ Flying(d)
      /\ proc[s].then = "spawn" => ~ Ready /\ (proc[s].todo # DaemonFiles => ~ address)
  BY <1>1, Cleaner
<1>3. /\ \A d \in Daemons : Owns(d) => /\ locks["daemon"] # None /\ locks["daemon"].by = d
                                       /\ locks["daemon"].content = "pid"
      /\ proc[s].then = "spawn" => /\ locks["startup"] # None /\ locks["startup"].by = s
                                   /\ locks["startup"].content = "pid"
  BY <1>1, <1>2 DEF IInv, DaemonLock, StartLock, Written, Flying, Starting
<1>4. CASE HasPID(l)
  <2>1. Goto(s, "alive") /\ saw' = [saw EXCEPT ![s] = locks[l].by]
    BY <1>4 DEF CleanRead
  <2>2. StartTurns(s) /\ proc'[s].phase = "alive" /\ Keeps(s)
    <3>1. "alive" \in StarterPhase \ {"new"}
      BY DEF StarterPhase
    <3> QED
      BY <1>2, <2>1, <3>1, StartGoes
  <2>3. Sees(s) /\ saw'[s] = locks[l].by
    BY <1>1, <1>2, <1>4, <2>1 DEF IInv, TypeOK, LockFile, HasPID, Sees
  <2>4. \A d \in Daemons : Owns(d)' => Owns(d)
    BY <1>1, <2>2 DEF StartTurns, Rest, Process, LifecycleAssumption, Owns, Serving
  <2>5. StartTodo(s)'
    BY <1>1, <1>2, <2>2 DEF StartTodo, Keeps
  <2>6. Judged(s)'
    BY <1>1, <1>3, <2>2, <2>3, <2>4 DEF Judged, Keeps
  <2> QED
    BY <1>1, <1>2, <2>2, <2>3, <2>5, <2>6, KeepsCleaning DEF Keeps
<1>5. CASE ~ HasPID(l)
  <2>1. /\ Goto(s, IF file = "lock" THEN "drop" ELSE "size") /\ UNCHANGED saw
        /\ file = "lock" => \A d \in Daemons : ~ Owns(d)
        /\ file = "startup" => proc[s].then # "spawn"
    BY <1>1, <1>3, <1>5 DEF CleanRead, HasPID
  <2>2. /\ StartTurns(s) /\ proc'[s].phase = (IF file = "lock" THEN "drop" ELSE "size")
        /\ Keeps(s) /\ Sees(s)
    <3>1. (IF file = "lock" THEN "drop" ELSE "size") \in StarterPhase \ {"new"}
      BY DEF StarterPhase
    <3> QED
      BY <1>2, <2>1, <3>1, StartGoes, SawStays
  <2>3. \A d \in Daemons : Owns(d)' => Owns(d)
    BY <1>1, <2>2 DEF StartTurns, Rest, Process, LifecycleAssumption, Owns, Serving
  <2>4. StartTodo(s)'
    BY <1>1, <1>2, <2>2 DEF StartTodo, Keeps
  <2>5. Judged(s)'
    BY <1>1, <2>1, <2>2, <2>3 DEF Judged, Keeps
  <2> QED
    BY <1>1, <1>2, <2>2, <2>4, <2>5, KeepsCleaning DEF Keeps
<1> QED
  BY <1>4, <1>5

(* It judges the file by its size, or by the process that it names.        *)
LEMMA CleanJudges ==
  ASSUME LifecycleAssumption, IInv, NEW s \in Starters, CleanSize(s) \/ CleanAlive(s)
  PROVE  IInv'
<1> USE DEF At, Cleaning
<1> DEFINE file == Head(proc[s].todo)
<1>1. /\ proc[s].phase \in {"size", "alive"} /\ UNCHANGED <<files, asked, deaths, raced>>
      /\ proc[s].todo # <<>> /\ file # "address" /\ Judged(s)
      /\ Goto(s, "drop") \/ Pass(s)
  BY DEF CleanSize, CleanAlive, IInv, Todos, StartTodo, Cleared
<1>2. Sees(s)
  BY DEF CleanSize, CleanAlive, IInv, TypeOK, Sees
<1>3. /\ Moving(s) /\ s \in Process /\ proc[s].todo \in Seq(File)
      /\ proc[s].todo = DaemonFiles \/ Len(proc[s].todo) < 5
      /\ proc[s].then = "spawn" \/ (proc[s].then = "check" /\ s \in Doctors)
      /\ proc[s].then = "spawn" => ~ address
  BY <1>1, Cleaner, DaemonFilesAre
<1>4. CASE Pass(s)
  <2>1. /\ StartTurns(s) /\ proc'[s].phase = "look" /\ proc'[s].todo = Tail(proc[s].todo)
        /\ proc'[s].then = proc[s].then /\ Len(proc'[s].todo) < 5
    BY <1>1, <1>4, Passes
  <2>2. StartTodo(s)' /\ Judged(s)'
    BY <1>3, <2>1 DEF StartTodo, Judged
  <2> QED
    BY <1>1, <1>2, <1>3, <2>1, <2>2, KeepsCleaning
<1>5. CASE Goto(s, "drop")
  <2>1. StartTurns(s) /\ proc'[s].phase = "drop" /\ Keeps(s)
    <3>1. "drop" \in StarterPhase \ {"new"}
      BY DEF StarterPhase
    <3> QED
      BY <1>3, <1>5, <3>1, StartGoes
  <2>2. ~ Pass(s)
    BY <1>3, <2>1 DEF Pass, IInv, TypeOK
  <2>3. \A d \in Daemons : /\ Owns(d)' => Owns(d) /\ Signalled(d)
                           /\ Serving(d)' => Serving(d) /\ Signalled(d)
    BY <1>1, <2>1 DEF StartTurns, Rest, Process, LifecycleAssumption, Owns, Serving, Signalled
  <2>4. StartTodo(s)'
    BY <1>1, <1>3, <2>1 DEF StartTodo, Keeps
  <2>5. Judged(s)'
    <3>1. CASE CleanSize(s)
      <4>1. file = "startup" /\ proc[s].then # "spawn"
        BY <1>1, <3>1 DEF CleanSize, IInv, Todos, StartTodo, Judged
      <4> QED
        BY <2>1, <4>1 DEF Judged, Keeps
    <3>2. CASE CleanAlive(s)
      <4>1. ~ Signalled(saw[s]) /\ proc[s].phase = "alive" /\ Signalled(s)
        BY <2>2, <3>2 DEF CleanAlive, Signalled
      <4> QED
        BY <1>1, <2>1, <2>3, <4>1 DEF Judged, Keeps
    <3> QED
      BY <3>1, <3>2
  <2> QED
    BY <1>1, <1>2, <1>3, <2>1, <2>4, <2>5, KeepsCleaning DEF Keeps
<1> QED
  BY <1>1, <1>4, <1>5

(* Remove takes one file away. *)
LEMMA Removes ==
  ASSUME TypeOK, NEW file \in File, Remove(file)
  PROVE  /\ locks' \in [Lock -> LockFile \cup {None}]
         /\ address' \in BOOLEAN /\ pidfile' \in Daemons \cup {None}
         /\ socket' \in Daemons \cup {None}
         /\ IF file = "lock" THEN locks'["daemon"] = None ELSE locks'["daemon"] = locks["daemon"]
         /\ IF file = "startup" THEN locks'["startup"] = None
                                ELSE locks'["startup"] = locks["startup"]
         /\ IF file = "address" THEN ~ address' ELSE address' = address
         /\ IF file = "pid" THEN pidfile' = None ELSE pidfile' = pidfile
         /\ IF file = "socket" THEN socket' = None ELSE socket' = socket
BY DEF TypeOK, Remove, Lock, File

(* It removes the file. *)
LEMMA CleanDrops ==
  ASSUME LifecycleAssumption, IInv, NEW s \in Starters, CleanDrop(s) PROVE IInv'
<1> USE DEF At, Cleaning, IInv
<1> DEFINE file == Head(proc[s].todo)
<1>1. /\ proc[s].phase = "drop" /\ Moving(s) /\ UNCHANGED <<asked, deaths, raced>>
      /\ s \in Process /\ proc[s].todo \in Seq(File) /\ proc[s].parent = None
      /\ proc[s].todo # <<>> /\ Sees(s)
      /\ proc[s].todo = DaemonFiles \/ Len(proc[s].todo) < 5
      /\ proc[s].then = "spawn" \/ (proc[s].then = "check" /\ s \in Doctors)
      /\ Holds(s) <=> proc[s].then = "spawn"
      /\ Clearing(s) <=> proc[s].then = "spawn"
  BY Cleaner, SawStays DEF CleanDrop, Todos, StartTodo
<1>2. Remove(file) /\ file \in File /\ Pass(s)
  BY <1>1, TailShorter DEF CleanDrop
<1>3. /\ StartTurns(s) /\ proc'[s].phase = "look" /\ proc'[s].todo = Tail(proc[s].todo)
      /\ proc'[s].then = proc[s].then /\ Len(proc'[s].todo) < 5
  BY <1>1, <1>2, Passes
<1>4. /\ \A d \in Daemons : ~ Flying(d)
      /\ proc[s].then = "spawn" => ~ Ready /\ (proc[s].todo # DaemonFiles => ~ address)
      /\ file = "lock" => \A d \in Daemons : ~ Owns(d)
      /\ file = "pid" => \A d \in Daemons : ~ Serving(d)
      /\ proc[s].then = "spawn" => file # "startup"
  BY <1>1 DEF Cleared, Clear, Judged
<1>5. /\ locks' \in [Lock -> LockFile \cup {None}]
      /\ address' \in BOOLEAN /\ pidfile' \in Daemons \cup {None}
      /\ socket' \in Daemons \cup {None}
      /\ IF file = "lock" THEN locks'["daemon"] = None ELSE locks'["daemon"] = locks["daemon"]
      /\ IF file = "startup" THEN locks'["startup"] = None
                             ELSE locks'["startup"] = locks["startup"]
      /\ IF file = "address" THEN ~ address' ELSE address' = address
      /\ IF file = "pid" THEN pidfile' = None ELSE pidfile' = pidfile
      /\ IF file = "socket" THEN socket' = None ELSE socket' = socket
  BY <1>2, Removes
<1> HIDE DEF file
<1>6. /\ \A r \in Starters \ {s} : /\ proc'[r].phase = proc[r].phase /\ (Holds(r)' <=> Holds(r))
                                   /\ proc'[r].todo = proc[r].todo /\ proc'[r].then = proc[r].then
      /\ \A d \in Daemons : proc[d].phase # "zombie" => proc'[d].phase = proc[d].phase
      /\ \A d \in Daemons : /\ Alive(d)' <=> Alive(d)
                            /\ proc'[d].parent = proc[d].parent
                            /\ proc[d].phase = "zombie" => proc'[d].phase \in {"zombie", "dead"}
      /\ \A x \in Stoppers : proc'[x].phase = proc[x].phase
  BY <1>3, OthersStay DEF StartTurns, Rest, Process, LifecycleAssumption, Kinds
<1>7. /\ \A d \in Daemons : ~ Flying(d)'
      /\ \A d \in Daemons : (Owns(d)' <=> Owns(d)) /\ (Serving(d)' <=> Serving(d))
      /\ \A d \in Daemons : Leaving(d)' <=> Leaving(d)
  BY <1>1, <1>4, <1>6 DEF Flying, Starting, Owns, Serving, Leaving
<1>8. Ready' => Ready
  BY <1>5, <1>6 DEF Ready, Listening, TypeOK
<1>9. TypeOK' /\ Kinds' /\ Todos'
  <2>1. TypeOK'
    BY <1>1, <1>3, <1>5 DEF TypeOK, StartTurns, Record, Sees
  <2>2. Kinds'
    BY <1>3, <1>5 DEF Kinds, StartTurns, DaemonPhase, StarterPhase, Rest, Process, LifecycleAssumption
  <2>3. StartTodo(s)'
    BY <1>1, <1>2, <1>3 DEF StartTodo
  <2>4. \A r \in Starters \ {s} : StartTodo(r)'
    BY <1>6 DEF Todos, StartTodo
  <2>5. \A p \in Daemons \cup Stoppers :
           At(p, "sweep")' => proc'[p].todo \in Seq(File \ {"startup"})
    BY <1>3 DEF Todos, StartTurns, Rest, Process, LifecycleAssumption
  <2> QED
    BY <2>1, <2>2, <2>3, <2>4, <2>5 DEF Todos
<1>10. Asked'
  BY <1>1, <1>5, <1>6 DEF Asked, LifecycleAssumption, Process
<1>11. Alone'
  <2>1. \A r \in Starters : Moving(r)' <=> Moving(r)
    BY <1>1, <1>3, <1>6 DEF Moving
  <2> QED
    BY <1>6, <1>7, <2>1 DEF Alone
<1>12. OneStarts'
  BY <1>7 DEF OneStarts, Flying
<1>13. Cleared'
  <2>1. Clear(s)' /\ Judged(s)'
    <3>1. proc[s].then = "spawn" => ~ address'
      BY <1>1, <1>4, <1>5, DaemonFilesAre DEF file
    <3> QED
      BY <1>3, <1>4, <1>7, <1>8, <3>1 DEF Clear, Judged, Clearing
  <2>2. ASSUME NEW r \in Starters \ {s} PROVE Clear(r)' /\ Judged(r)'
    <3>1. Clear(r)'
      BY <1>5, <1>6, <1>7, <1>8 DEF Cleared, Clear, Clearing
    <3>2. Judged(r)'
      BY <1>1, <1>6, <1>7 DEF Cleared, Judged, Sees, Process
    <3> QED
      BY <3>1, <3>2
  <2> QED
    BY <2>1, <2>2 DEF Cleared
<1>14. DaemonLock'
  <2>1. \A d \in Daemons : /\ proc'[d].phase = proc[d].phase \/ ~ Judging(d)'
                           /\ saw'[d] = saw[d]
    BY <1>1, <1>6 DEF Judging, Sees, Process, LifecycleAssumption
  <2>2. \A d \in Daemons : Owns(d) => Written(d)' = Written(d)
    BY <1>6 DEF Owns, Serving, Written
  <2> QED
    BY <1>4, <1>5, <1>7, <2>1, <2>2 DEF DaemonLock, Judging
<1>15. StartLock'
  <2>1. CASE file = "startup"
    <3>1. \A r \in Starters : ~ Holds(r)
      BY <1>1, <1>4, <2>1 DEF Alone, Holds, Clearing, Moving
    <3>2. \A r \in Starters : ~ Holds(r)'
      BY <1>1, <1>3, <1>4, <1>6, <2>1, <3>1 DEF Holds, Clearing
    <3> QED
      BY <1>5, <2>1, <3>2 DEF StartLock, Seen
  <2>2. CASE file # "startup"
    BY <1>1, <1>3, <1>5, <2>2, LockKept DEF StartTurns, Seen, Written, Holds, Clearing
  <2> QED
    BY <2>1, <2>2
<1>16. Found'
  <2>1. \A d \in Daemons : Serving(d)' => pidfile' = d
    BY <1>4, <1>5, <1>7 DEF Found
  <2>2. ASSUME (\A r \in Doctors : At(r, "new"))', NEW d \in Daemons, Serving(d)' PROVE FALSE
    <3>1. proc[s].then = "spawn" /\ \A r \in Doctors : At(r, "new")
      BY <1>1, <1>3, <1>6, <2>2 DEF LifecycleAssumption
    <3>2. address /\ socket = d
      BY <1>7, <2>2, <3>1 DEF Found
    <3> QED
      BY <1>4, <1>7, <2>2, <3>1, <3>2 DEF Ready, Listening, Serving, LifecycleAssumption, Process
  <2> QED
    BY <1>7, <2>1, <2>2 DEF Found, Flying, Starting
<1> QED
  BY <1>9, <1>10, <1>11, <1>12, <1>13, <1>14, <1>15, <1>16

(* It spawns the daemon that it then waits for. *)
LEMMA Spawns ==
  ASSUME LifecycleAssumption, IInv, NEW s \in Starters, NEW d \in Daemons, Spawn(s, d)
  PROVE  IInv'
<1> USE DEF At, Cleaning, IInv
<1>1. /\ proc[s].phase = "spawn" /\ Moving(s) /\ Holds(s) /\ Clearing(s)
      /\ proc[d].phase = "new" /\ s # d /\ s \in Process /\ d \in Process
      /\ s \notin Daemons /\ s \notin Stoppers /\ d \notin Starters /\ d \notin Stoppers
      /\ proc[d].parent = None /\ proc[s].parent = None
      /\ UNCHANGED <<locks, address, pidfile, socket, asked, saw, deaths, raced>>
  BY DEF Spawn, Moving, Holds, Clearing, LifecycleAssumption, Process, Kinds, files
<1>2. /\ proc' \in [Process -> Record]
      /\ proc'[s].phase = "await" /\ proc'[s].todo = proc[s].todo /\ proc'[s].then = proc[s].then
      /\ proc'[s].parent = None
      /\ proc'[d].phase = "create" /\ proc'[d].then = proc[d].then /\ proc'[d].parent = s
      /\ \A q \in Process \ {s, d} : proc'[q] = proc[q]
  <2> DEFINE await == [proc[s] EXCEPT !.phase = "await"]
             create == [proc[d] EXCEPT !.phase = "create", !.parent = s]
  <2>1. proc \in [Process -> Record] /\ proc[s] \in Record /\ proc[d] \in Record
    BY <1>1 DEF TypeOK, Record
  <2>2. /\ await \in Record /\ await.phase = "await" /\ await.todo = proc[s].todo
        /\ await.then = proc[s].then /\ await.parent = None
    BY <1>1, <2>1 DEF Record, Phase
  <2>3. /\ create \in Record /\ create.phase = "create" /\ create.then = proc[d].then
        /\ create.parent = s
    BY <1>1, <2>1 DEF Record, Phase
  <2>4. proc' = [[proc EXCEPT ![s] = await] EXCEPT ![d] = create]
    BY <1>1, <2>1 DEF Spawn
  <2> HIDE DEF await, create
  <2> QED
    BY <1>1, <2>1, <2>2, <2>3, <2>4
<1>3. /\ \A e \in Daemons : ~ Flying(e)
      /\ ~ Ready /\ ~ address
  BY <1>1 DEF Cleared, Clear
<1>4. /\ \A r \in Starters \ {s} : proc'[r] = proc[r] /\ ~ Holds(r)
      /\ \A e \in Daemons \ {d} : proc'[e] = proc[e]
      /\ \A x \in Stoppers : proc'[x] = proc[x]
      /\ \A e \in Daemons : ~ Leaving(e)
  BY <1>1, <1>2 DEF StartLock, Alone, Process, LifecycleAssumption
<1>5. TypeOK' /\ Kinds' /\ Todos'
  <2>1. TypeOK'
    BY <1>1, <1>2 DEF TypeOK, Record
  <2>2. Kinds'
    BY <1>1, <1>2, <1>4 DEF Kinds, StarterPhase, DaemonPhase
  <2>3. Todos'
    BY <1>1, <1>2, <1>4 DEF Todos, StartTodo
  <2> QED
    BY <2>1, <2>2, <2>3
<1>6. Asked'
  BY <1>1, <1>2, <1>4 DEF Asked
<1>7. Alone'
  BY <1>1, <1>2, <1>4 DEF Alone, Moving, Leaving
<1>8. OneStarts'
  BY <1>1, <1>2, <1>3, <1>4 DEF OneStarts, Starting, Flying, LifecycleAssumption, Process
<1>9. Cleared'
  <2>1. ASSUME NEW r \in Starters PROVE ~ Cleaning(r)' /\ ~ At(r, "spawn")'
    <3>1. CASE r = s
      BY <1>2, <3>1
    <3>2. CASE r # s
      BY <1>1, <1>4, <3>2 DEF Todos, StartTodo, Alone, Moving, Holds, Clearing
    <3> QED
      BY <3>1, <3>2
  <2> QED
    BY <2>1 DEF Cleared, Clear, Judged, Clearing
<1>10. DaemonLock'
  BY <1>1, <1>2, <1>4 DEF DaemonLock, Owns, Serving, Written
<1>11. StartLock'
  <2>1. \A r \in Starters : Holds(r)' <=> r = s
    BY <1>1, <1>2, <1>4 DEF Holds, Clearing
  <2>2. \A r \in Starters \ {s} : Seen(r) /\ proc'[r].phase = proc[r].phase
    BY <1>4 DEF StartLock
  <2>3. \A r \in Starters : Seen(r)'
    BY <1>1, <1>2, <2>1, <2>2 DEF Seen
  <2> QED
    BY <1>1, <1>2, <2>1, <2>3 DEF StartLock, Written
<1>12. Found'
  BY <1>1, <1>2, <1>4 DEF Found, Serving, LifecycleAssumption
<1> QED
  BY <1>5, <1>6, <1>7, <1>8, <1>9, <1>10, <1>11, <1>12

-----------------------------------------------------------------------------
(* The daemons and the stops. *)

(* A daemon or a stop that moves leaves the starts as they are. *)
LEMMA StartsStay ==
  ASSUME LifecycleAssumption, IInv, NEW p \in Daemons \cup Stoppers, Rest(p)
  PROVE  /\ \A s \in Starters : /\ proc'[s].phase = proc[s].phase
                                /\ (Moving(s)' <=> Moving(s)) /\ (Holds(s)' <=> Holds(s))
         /\ \A d \in Daemons \ {p} : /\ proc[d].phase # "zombie" => proc'[d].phase = proc[d].phase
                                     /\ Alive(d)' <=> Alive(d)
                                     /\ Owns(d) <=> proc'[d].phase \in {"write", "unlink", "bind", "address", "pid"}
                                                    \/ (proc'[d].phase = "serve" /\ d \notin asked)
                                     /\ Flying(d)' <=> Flying(d)
                                     /\ proc'[d].parent = proc[d].parent
         /\ \A x \in Stoppers \ {p} : proc'[x].phase = proc[x].phase
         /\ \A s \in Starters : StartTodo(s)'
<1> USE DEF IInv, At
<1>1. \A s \in Starters : /\ proc'[s].phase = proc[s].phase /\ proc'[s].todo = proc[s].todo
                          /\ proc'[s].then = proc[s].then
  BY DEF Rest, Process, LifecycleAssumption, Kinds, StarterPhase
<1>2. \A s \in Starters : (Moving(s)' <=> Moving(s)) /\ (Holds(s)' <=> Holds(s))
  BY <1>1 DEF Moving, Holds, Clearing, Cleaning
<1>3. \A d \in Daemons \ {p} :
          /\ proc[d].phase # "zombie" => proc'[d].phase = proc[d].phase
          /\ proc[d].phase = "zombie" => proc'[d].phase \in {"zombie", "dead"}
          /\ proc'[d].parent = proc[d].parent
  BY DEF Rest, Process
<1>4. \A d \in Daemons \ {p} :
          /\ Alive(d)' <=> Alive(d)
          /\ Owns(d) <=> proc'[d].phase \in {"write", "unlink", "bind", "address", "pid"}
                         \/ (proc'[d].phase = "serve" /\ d \notin asked)
          /\ Flying(d)' <=> Flying(d)
  BY <1>3 DEF Alive, Owns, Serving, Flying, Starting
<1>5. \A x \in Stoppers \ {p} : proc'[x].phase = proc[x].phase
  BY DEF Rest, Process, Kinds
<1>6. \A s \in Starters : StartTodo(s)'
  BY <1>1 DEF Todos, StartTodo, Cleaning
<1> QED
  BY <1>1, <1>2, <1>3, <1>4, <1>5, <1>6

(* What a daemon or a stop writes. *)
TypesStay(p) ==
    /\ Sees(p) /\ raced' \in BOOLEAN
    /\ locks' \in [Lock -> LockFile \cup {None}] /\ address' \in BOOLEAN
    /\ pidfile' \in Daemons \cup {None} /\ socket' \in Daemons \cup {None}
    /\ asked' \subseteq Daemons /\ deaths' \in 0 .. MaxDeaths
    /\ proc' \in [Process -> Record]
    /\ locks'["startup"] = locks["startup"]
    /\ locks'["daemon"] # None => locks'["daemon"].by \in Daemons

LEMMA KindsStay ==
  ASSUME LifecycleAssumption, IInv, NEW p \in Daemons \cup Stoppers, Rest(p), TypesStay(p),
         proc'[p].then = proc[p].then, proc'[p].parent = proc[p].parent,
         p \in Daemons => proc'[p].phase \in DaemonPhase \ {"new"},
         p \in Stoppers => proc'[p].phase \in {"sweep", "dead"},
         At(p, "sweep")' => proc'[p].todo \in Seq(File \ {"startup"})
  PROVE  TypeOK' /\ Kinds' /\ Todos' /\ StartLock'
<1> USE DEF IInv, At
<1>1. TypeOK'
  BY DEF TypeOK, TypesStay, Record, Sees
<1>2. Kinds'
  BY DEF Kinds, TypesStay, DaemonPhase, StarterPhase, Rest, Process, LifecycleAssumption
<1>3. StartLock' /\ \A s \in Starters : StartTodo(s)'
  <2>1. /\ \A s \in Starters : /\ proc'[s].phase = proc[s].phase /\ (Holds(s)' <=> Holds(s))
                                /\ saw'[s] = saw[s]
        /\ locks'["startup"] = locks["startup"]
        /\ locks["startup"] # None => locks["startup"].by \in Starters
    BY StartsStay DEF TypesStay, Sees, Process, LifecycleAssumption, Kinds
  <2>2. \A s \in Starters : Seen(s)'
    BY <2>1 DEF StartLock, Seen
  <2> QED
    BY <2>1, <2>2, StartsStay DEF StartLock, Written
<1>4. \A q \in Daemons \cup Stoppers : At(q, "sweep")' => proc'[q].todo \in Seq(File \ {"startup"})
  BY DEF Todos, Rest, Process
<1> QED
  BY <1>1, <1>2, <1>3, <1>4 DEF Todos

(* With no cleaner there is nothing to see to. *)
LEMMA NobodyCleans ==
  ASSUME LifecycleAssumption, IInv, NEW p \in Daemons \cup Stoppers, Rest(p),
         \A s \in Starters : ~ Cleaning(s) /\ ~ At(s, "spawn")
  PROVE  Cleared'
<1>1. \A s \in Starters : ~ Cleaning(s)' /\ ~ At(s, "spawn")'
  BY StartsStay DEF Cleaning, At
<1> QED
  BY <1>1 DEF Cleared, Clear, Judged, Clearing, Cleaning, At

(* A daemon on its way has nobody who leaves, stops or cleans beside it. *)
LEMMA FlyingMeans ==
  ASSUME IInv, NEW d \in Daemons, Flying(d)
  PROVE  /\ \A s \in Starters : ~ Cleaning(s) /\ ~ At(s, "spawn")
         /\ \A e \in Daemons : ~ Leaving(e)
         /\ \A x \in Stoppers : ~ At(x, "sweep")
         /\ Alive(d) /\ d # pidfile /\ d \notin asked
         /\ proc[d].phase \notin {"new", "serve", "sweep", "zombie", "dead"}
BY DEF IInv, Cleared, Clear, Alone, Asked, Flying, Starting, Leaving, Alive, At

(* All that a daemon on its way can disturb. *)
LEMMA DaemonFlies ==
  ASSUME LifecycleAssumption, IInv, NEW d \in Daemons, Flying(d), Rest(d), TypesStay(d),
         proc'[d].then = proc[d].then, proc'[d].parent = proc[d].parent,
         proc'[d].phase \in DaemonPhase \ {"new", "sweep", "zombie", "dead"},
         asked' = asked,
         pidfile' = pidfile \/ (pidfile' = d /\ At(d, "serve")'),
         Starting(d)' => Starting(d),
         address' => address \/ (Starting(d) /\ ~ Starting(d)'),
         DaemonLock', Found'
  PROVE  IInv'
<1> USE DEF IInv, At
<1>1. /\ \A s \in Starters : ~ Cleaning(s) /\ ~ At(s, "spawn")
      /\ \A e \in Daemons : ~ Leaving(e)
      /\ \A x \in Stoppers : ~ At(x, "sweep")
      /\ Alive(d) /\ d # pidfile /\ d \notin asked
      /\ proc[d].phase \notin {"new", "serve", "sweep", "zombie", "dead"}
  BY FlyingMeans
<1>2. /\ d \notin Stoppers /\ d \notin Starters /\ d \in Daemons \cup Stoppers /\ d # None
  BY DEF LifecycleAssumption, Process
<1>3. TypeOK' /\ Kinds' /\ Todos' /\ StartLock'
  BY <1>2, KindsStay
<1>4. Cleared'
  BY <1>1, <1>2, NobodyCleans
<1>5. /\ \A s \in Starters : /\ proc'[s].phase = proc[s].phase
                             /\ (Moving(s)' <=> Moving(s))
      /\ \A e \in Daemons \ {d} : /\ proc[e].phase # "zombie" => proc'[e].phase = proc[e].phase
                                  /\ proc[e].phase = "zombie" => proc'[e].phase \in {"zombie", "dead"}
                                  /\ proc'[e].parent = proc[e].parent
      /\ \A x \in Stoppers : proc'[x].phase = proc[x].phase
  BY <1>2, StartsStay DEF Rest, Process
<1>6. Asked'
  BY <1>1, <1>5 DEF Asked
<1>7. Alone'
  <2>1. \A e \in Daemons : ~ Leaving(e)'
    BY <1>1, <1>5 DEF Leaving
  <2> QED
    BY <1>1, <1>5, <2>1 DEF Alone
<1>8. OneStarts'
  <2>1. \A e \in Daemons : Starting(e)' => Starting(e) /\ proc'[e].parent = proc[e].parent
    BY <1>5 DEF Starting
  <2>2. \A e \in Daemons : Starting(e)' /\ address' => address
    BY <2>1 DEF OneStarts
  <2>3. \A e \in Daemons : Starting(e) /\ proc[e].parent # None =>
            /\ proc[e].parent \in Starters /\ proc'[proc[e].parent].phase = proc[proc[e].parent].phase
    BY <1>5 DEF TypeOK, Process
  <2>4. \A e, f \in Daemons : Starting(e)' /\ Starting(f)' => e = f
    BY <2>1 DEF OneStarts
  <2>5. ASSUME NEW e \in Daemons, Starting(e)'
        PROVE  \/ proc'[e].parent = None /\ \A s \in Starters : ~ Moving(s)'
               \/ proc'[e].parent # None /\ proc'[proc'[e].parent].phase = "await" /\ ~ address'
    BY <1>5, <2>1, <2>2, <2>3, <2>5 DEF OneStarts
  <2> QED
    BY <2>4, <2>5 DEF OneStarts
<1> QED
  BY <1>3, <1>4, <1>6, <1>7, <1>8

(* A daemon or a stop ends; the lock that it removed, if it did, is of no  *)
(* use to others.                                                          *)
LEMMA ProcessEnds ==
  ASSUME LifecycleAssumption, IInv, NEW p \in Daemons \cup Stoppers, Alive(p), Exit(p),
         UNCHANGED files \/ (Remove("lock") /\ \A e \in Daemons : ~ Owns(e)),
         asked' = asked, deaths' \in 0 .. MaxDeaths, Sees(p), raced' = raced
  PROVE  IInv'
<1> USE DEF IInv, At
<1>1. p \notin Starters /\ p \in Process
  BY DEF LifecycleAssumption, Process
<1>2. /\ proc'[p].phase \in {"zombie", "dead"} /\ Keeps(p) /\ Rest(p)
      /\ p \in Stoppers => proc'[p].phase = "dead"
      /\ proc' \in [Process -> Record]
      /\ UNCHANGED <<address, pidfile, socket>>
      /\ locks' \in [Lock -> LockFile \cup {None}] /\ locks'["startup"] = locks["startup"]
      /\ locks'["daemon"] = locks["daemon"]
         \/ (locks'["daemon"] = None /\ \A e \in Daemons : ~ Owns(e))
  <2>1. /\ proc'[p].phase \in {"zombie", "dead"} /\ Keeps(p) /\ Rest(p)
        /\ proc' \in [Process -> Record]
        /\ p \in Stoppers => proc'[p].phase = "dead"
    BY <1>1, Exits DEF Kinds
  <2>2. CASE UNCHANGED files
    BY <2>1, <2>2 DEF files, TypeOK
  <2>3. CASE Remove("lock") /\ \A e \in Daemons : ~ Owns(e)
    <3>1. "lock" \in File
      BY DEF File
    <3> QED
      BY <2>1, <2>3, <3>1, Removes
  <2> QED
    BY <2>1, <2>2, <2>3
<1>3. TypesStay(p)
  BY <1>2 DEF TypesStay, TypeOK, Kinds
<1>4. TypeOK' /\ Kinds' /\ Todos' /\ StartLock'
  BY <1>1, <1>2, <1>3, KindsStay DEF Keeps, DaemonPhase
<1>5. /\ \A s \in Starters : /\ proc'[s].phase = proc[s].phase
                             /\ (Moving(s)' <=> Moving(s))
      /\ \A e \in Daemons \ {p} : /\ proc[e].phase # "zombie" => proc'[e].phase = proc[e].phase
                                  /\ proc[e].phase = "zombie" => proc'[e].phase \in {"zombie", "dead"}
                                  /\ Alive(e)' <=> Alive(e)
      /\ \A e \in Daemons : proc'[e].parent = proc[e].parent
      /\ \A x \in Stoppers : proc'[x].phase = "sweep" => proc[x].phase = "sweep"
      /\ \A s \in Starters : proc'[s].todo = proc[s].todo /\ proc'[s].then = proc[s].then
  BY <1>1, <1>2, StartsStay DEF Keeps, Rest, Process
<1>6. \A e \in Daemons : /\ proc'[e].phase = proc[e].phase \/ proc'[e].phase \in {"zombie", "dead"}
                         /\ Alive(e)' => Alive(e)
  BY <1>2, <1>5 DEF Alive
<1>7. \A e \in Daemons : /\ Starting(e)' => Starting(e)
                         /\ Flying(e)' => Flying(e)
                         /\ Leaving(e)' => Leaving(e)
                         /\ Serving(e)' => Serving(e)
                         /\ Owns(e)' => Owns(e) /\ proc'[e].phase = proc[e].phase
  BY <1>2, <1>6 DEF Flying, Starting, Leaving, Serving, Owns
<1>8. Asked'
  BY <1>2, <1>6 DEF Asked, Alive
<1>9. Alone'
  <2>1. \A e \in Daemons : Alive(e)' /\ Leaving(e) => Leaving(e)'
    BY <1>2, <1>6 DEF Leaving, Alive
  <2> QED
    BY <1>5, <1>6, <1>7, <2>1 DEF Alone
<1>10. OneStarts'
  <2>1. \A e \in Daemons : Starting(e)' /\ proc[e].parent # None =>
            proc[e].parent \in Starters /\ proc'[proc[e].parent].phase = proc[proc[e].parent].phase
    BY <1>1, <1>5 DEF TypeOK, Process
  <2> QED
    BY <1>2, <1>5, <1>7, <2>1 DEF OneStarts
<1>11. Cleared'
  <2>1. Ready' => Ready
    BY <1>2, <1>6 DEF Ready, Listening, TypeOK
  <2>2. \A s \in Starters : saw'[s] = saw[s]
    BY <1>1 DEF Sees, Process
  <2> QED
    BY <1>2, <1>5, <1>7, <2>1, <2>2 DEF Cleared, Clear, Judged, Clearing, Cleaning
<1>12. DaemonLock'
  <2>1. \A e \in Daemons \ {p} : saw'[e] = saw[e]
    BY DEF Sees, Process
  <2> QED
    BY <1>2, <1>6, <1>7, <2>1 DEF DaemonLock, Written
<1>13. Found'
  BY <1>2, <1>5, <1>6, <1>7 DEF Found, LifecycleAssumption
<1> QED
  BY <1>4, <1>8, <1>9, <1>10, <1>11, <1>12, <1>13

(* A daemon that goes on with what it is about. *)
LEMMA DaemonGoes ==
  ASSUME LifecycleAssumption, IInv, NEW d \in Daemons, Flying(d),
         NEW phase \in DaemonPhase \ {"new", "sweep", "zombie", "dead"}, Goto(d, phase)
  PROVE  /\ Rest(d) /\ proc' \in [Process -> Record] /\ proc'[d].phase = phase
         /\ proc'[d].then = proc[d].then /\ proc'[d].parent = proc[d].parent
<1>1. d \in Process /\ phase \in Phase
  BY DEF Process, DaemonPhase, Phase
<1> QED
  BY <1>1, GoesTo DEF IInv, Keeps

(* The daemon that has the lock is the only one. *)
LEMMA OwnerAlone ==
  ASSUME IInv, NEW d \in Daemons, Owns(d)
  PROVE  \A e \in Daemons : Owns(e) => e = d
BY DEF IInv, DaemonLock

(* It creates its lock, or finds it taken. *)
LEMMA DaemonCreates ==
  ASSUME LifecycleAssumption, IInv, NEW d \in Daemons, AcquireCreate(d) PROVE IInv'
<1> USE DEF At
<1>1. LockOf(d) = "daemon" /\ d \in Process /\ d \in Daemons \cup Stoppers
  BY DEF LockOf, Process
<1>2. /\ proc[d].phase = "create" /\ Flying(d) /\ Starting(d)
      /\ UNCHANGED <<address, pidfile, socket, asked, deaths>> /\ Sees(d)
      /\ raced' \in BOOLEAN
  BY SawStays DEF AcquireCreate, Flying, Starting, Races, IInv, TypeOK
<1>3. /\ "write" \in DaemonPhase \ {"new", "sweep", "zombie", "dead"}
      /\ "judge" \in DaemonPhase \ {"new", "sweep", "zombie", "dead"}
  BY DEF DaemonPhase
<1>4. \A e \in Daemons \ {d} : ~ Judging(e)
  BY <1>2 DEF IInv, OneStarts, Starting, Judging
<1>5. CASE locks["daemon"] = None
  <2>1. /\ locks' = [locks EXCEPT !["daemon"] = [by |-> d, content |-> "empty"]]
        /\ Goto(d, "write")
    BY <1>1, <1>5 DEF AcquireCreate
  <2>2. /\ Rest(d) /\ proc' \in [Process -> Record] /\ proc'[d].phase = "write"
        /\ proc'[d].then = proc[d].then /\ proc'[d].parent = proc[d].parent
    BY <1>2, <1>3, <2>1, DaemonGoes
  <2>3. /\ locks' \in [Lock -> LockFile \cup {None}] /\ locks'["startup"] = locks["startup"]
        /\ locks'["daemon"] # None /\ locks'["daemon"].by = d
        /\ locks'["daemon"].content = "empty"
    <3>1. [by |-> d, content |-> "empty"] \in LockFile
      BY <1>1 DEF LockFile
    <3> QED
      BY <2>1, <3>1 DEF IInv, TypeOK, Lock, LifecycleAssumption
  <2>4. TypesStay(d)
    BY <1>2, <2>2, <2>3 DEF TypesStay, IInv, TypeOK
  <2>5. \A e \in Daemons \ {d} : ~ Owns(e)' /\ ~ Judging(e)'
    <3>1. \A e \in Daemons : ~ Owns(e)
      BY <1>5 DEF IInv, DaemonLock
    <3> QED
      BY <1>1, <1>2, <1>4, <2>2, <3>1 DEF Owns, Serving, Rest, Process, Judging
  <2>6. DaemonLock'
    BY <2>2, <2>3, <2>5 DEF DaemonLock, Written, Judging
  <2>7. Found'
    BY <1>2, <2>2, <2>3, <2>5, StartsStay, <1>1 DEF IInv, Found, Owns, Serving
  <2> QED
    BY <1>2, <1>3, <2>2, <2>4, <2>6, <2>7, DaemonFlies DEF Starting
<1>6. CASE locks["daemon"] # None
  <2>1. UNCHANGED locks /\ Goto(d, "judge")
    BY <1>1, <1>6 DEF AcquireCreate
  <2>2. /\ Rest(d) /\ proc' \in [Process -> Record] /\ proc'[d].phase = "judge"
        /\ proc'[d].then = proc[d].then /\ proc'[d].parent = proc[d].parent
    BY <1>2, <1>3, <2>1, DaemonGoes
  <2>3. TypesStay(d)
    BY <1>2, <2>1, <2>2 DEF TypesStay, IInv, TypeOK, Kinds
  <2>4. \A e \in Daemons \ {d} : /\ Owns(e)' <=> Owns(e)
                                 /\ Owns(e) => proc'[e].phase = proc[e].phase
                                 /\ ~ Judging(e)'
    BY <1>2, <1>4, <2>2 DEF Owns, Serving, Rest, Process, Judging
  <2>5. DaemonLock'
    BY <2>1, <2>2, <2>4 DEF IInv, DaemonLock, Written, Owns, Serving, Judging
  <2>6. Found'
    BY <1>1, <1>2, <2>1, <2>2, <2>4, StartsStay DEF IInv, Found, Owns, Serving
  <2> QED
    BY <1>2, <1>3, <2>2, <2>3, <2>5, <2>6, DaemonFlies DEF Starting
<1> QED
  BY <1>5, <1>6

(* It writes its pid. *)
LEMMA DaemonWrites ==
  ASSUME LifecycleAssumption, IInv, NEW d \in Daemons, AcquireWrite(d) PROVE IInv'
<1> USE DEF At
<1>1. LockOf(d) = "daemon" /\ d \in Process /\ d \in Daemons \cup Stoppers
  BY DEF LockOf, Process
<1>2. /\ proc[d].phase = "write" /\ Flying(d) /\ Starting(d) /\ Owns(d)
      /\ UNCHANGED <<address, pidfile, socket, asked, deaths>> /\ Sees(d)
      /\ Goto(d, "unlink") /\ raced' \in BOOLEAN
  BY SawStays DEF AcquireWrite, Flying, Starting, Owns, Races, IInv, TypeOK
<1>3. /\ Rest(d) /\ proc' \in [Process -> Record] /\ proc'[d].phase = "unlink"
      /\ proc'[d].then = proc[d].then /\ proc'[d].parent = proc[d].parent
  <2>1. "unlink" \in DaemonPhase \ {"new", "sweep", "zombie", "dead"}
    BY DEF DaemonPhase
  <2> QED
    BY <1>2, <2>1, DaemonGoes
<1>4. locks["daemon"] # None /\ locks["daemon"].by = d
  BY <1>2 DEF IInv, DaemonLock
<1>5. /\ locks' \in [Lock -> LockFile \cup {None}] /\ locks'["startup"] = locks["startup"]
      /\ locks'["daemon"] # None /\ locks'["daemon"].by = d
      /\ locks'["daemon"].content = "pid"
  <2>1. locks["daemon"] \in LockFile
    BY <1>4 DEF IInv, TypeOK, Lock
  <2>2. locks' = [locks EXCEPT !["daemon"] = [locks["daemon"] EXCEPT !.content = "pid"]]
    BY <1>1, <1>4 DEF AcquireWrite
  <2>3. [locks["daemon"] EXCEPT !.content = "pid"] \in LockFile
    BY <2>1 DEF LockFile
  <2> QED
    BY <1>4, <2>1, <2>2, <2>3 DEF IInv, TypeOK, Lock, LockFile, LifecycleAssumption
<1>6. TypesStay(d)
  BY <1>2, <1>3, <1>5 DEF TypesStay, IInv, TypeOK
<1>7. \A e \in Daemons \ {d} : ~ Owns(e)' /\ ~ Judging(e)'
  BY <1>2, <1>3, OwnerAlone DEF Owns, Serving, Rest, Process, IInv, OneStarts, Starting, Judging
<1>8. DaemonLock'
  BY <1>3, <1>5, <1>7 DEF DaemonLock, Written, Judging
<1>9. Found'
  BY <1>2, <1>3, <1>7 DEF Found, Owns, Serving
<1> QED
  BY <1>2, <1>3, <1>6, <1>8, <1>9, DaemonFlies DEF DaemonPhase, Starting

(* It reads the lock that it found. *)
LEMMA DaemonReads ==
  ASSUME LifecycleAssumption, IInv, NEW d \in Daemons, AcquireRead(d) PROVE IInv'
<1> USE DEF At
<1>1. LockOf(d) = "daemon" /\ d \in Process /\ d \in Daemons \cup Stoppers /\ "daemon" \in Lock
  BY DEF LockOf, Process, Lock
<1>2. /\ proc[d].phase = "judge" /\ Flying(d) /\ Starting(d)
      /\ UNCHANGED <<files, asked, deaths, raced>>
      /\ \/ HasPID("daemon") /\ Goto(d, "probe") /\ saw' = [saw EXCEPT ![d] = locks["daemon"].by]
         \/ ~ HasPID("daemon") /\ Goto(d, "stat") /\ saw' = saw
  BY <1>1 DEF AcquireRead, Flying, Starting
<1>3. \A e \in Daemons : Owns(e) => /\ locks["daemon"] # None /\ locks["daemon"].by = e
                                    /\ locks["daemon"].content = "pid" /\ e # d
  BY <1>2 DEF IInv, DaemonLock, OneStarts, Written, Owns, Serving, Starting
<1>4. Sees(d) /\ (HasPID("daemon") => saw'[d] = locks["daemon"].by)
  BY <1>1, <1>2 DEF IInv, TypeOK, LockFile, HasPID, Sees
<1>5. ASSUME NEW phase \in {"probe", "stat"}, Goto(d, phase), (phase = "probe") <=> HasPID("daemon")
      PROVE  IInv'
  <2>1. /\ Rest(d) /\ proc' \in [Process -> Record] /\ proc'[d].phase = phase
        /\ proc'[d].then = proc[d].then /\ proc'[d].parent = proc[d].parent
    <3>1. phase \in DaemonPhase \ {"new", "sweep", "zombie", "dead"}
      BY DEF DaemonPhase
    <3> QED
      BY <1>2, <1>5, <3>1, DaemonGoes
  <2>2. TypesStay(d)
    BY <1>2, <1>4, <2>1 DEF TypesStay, IInv, TypeOK, Kinds, files
  <2>3. \A e \in Daemons : /\ Owns(e)' => Owns(e) /\ proc'[e].phase = proc[e].phase
                           /\ e # d => ~ Judging(e)'
    BY <1>2, <2>1 DEF Owns, Serving, Rest, Process, IInv, OneStarts, Starting, Judging
  <2>4. \A e \in Daemons : Owns(e) => phase = "probe" /\ saw'[d] = e
    BY <1>3, <1>4, <1>5 DEF HasPID
  <2>5. DaemonLock'
    BY <1>2, <2>1, <2>3, <2>4 DEF IInv, DaemonLock, Written, Judging, files
  <2>6. Found'
    BY <1>1, <1>2, <2>1, <2>3, StartsStay DEF IInv, Found, Owns, Serving, files
  <2> QED
    BY <1>2, <2>1, <2>2, <2>5, <2>6, DaemonFlies DEF DaemonPhase, Starting, files
<1> QED
  BY <1>2, <1>5

(* It judges the lock by what it read: by the file, or by the process.     *)
LEMMA DaemonJudges ==
  ASSUME LifecycleAssumption, IInv, NEW d \in Daemons, AcquireStat(d) \/ AcquireProbe(d)
  PROVE  IInv'
<1> USE DEF At
<1>1. LockOf(d) = "daemon" /\ d \in Process /\ d \in Daemons \cup Stoppers
  BY DEF LockOf, Process
<1>2. /\ proc[d].phase \in {"stat", "probe"} /\ Flying(d) /\ Starting(d) /\ Alive(d)
      /\ UNCHANGED <<files, asked, deaths, raced>>
      /\ \/ Goto(d, "remove") /\ (At(d, "probe") => ~ Signalled(saw[d]))
         \/ Exit(d)
  BY DEF AcquireStat, AcquireProbe, Flying, Starting, Alive, Refused
<1>3. Sees(d)
  BY DEF AcquireStat, AcquireProbe, IInv, TypeOK, Sees
<1>4. CASE Goto(d, "remove") /\ (At(d, "probe") => ~ Signalled(saw[d]))
  <2>1. /\ Rest(d) /\ proc' \in [Process -> Record] /\ proc'[d].phase = "remove"
        /\ proc'[d].then = proc[d].then /\ proc'[d].parent = proc[d].parent
    <3>1. "remove" \in DaemonPhase \ {"new", "sweep", "zombie", "dead"}
      BY DEF DaemonPhase
    <3> QED
      BY <1>2, <1>4, <3>1, DaemonGoes
  <2>2. TypesStay(d)
    BY <1>2, <1>3, <2>1 DEF TypesStay, IInv, TypeOK, Kinds, files
  <2>3. \A e \in Daemons : ~ Owns(e)
    BY <1>2, <1>4 DEF IInv, DaemonLock, Signalled, Owns, Serving
  <2>4. \A e \in Daemons : ~ Owns(e)'
    BY <1>2, <2>1, <2>3 DEF Owns, Serving, Rest, Process
  <2>5. DaemonLock' /\ Found'
    BY <2>4 DEF DaemonLock, Found, Owns
  <2> QED
    BY <1>2, <2>1, <2>2, <2>5, DaemonFlies DEF DaemonPhase, Starting, files
<1>5. CASE Exit(d)
  BY <1>2, <1>3, <1>5, ProcessEnds DEF IInv, TypeOK
<1> QED
  BY <1>2, <1>4, <1>5

(* It removes what is at the path of the lock. *)
LEMMA DaemonRemoves ==
  ASSUME LifecycleAssumption, IInv, NEW d \in Daemons, AcquireRemove(d) PROVE IInv'
<1> USE DEF At
<1>1. d \in Process /\ d \in Daemons \cup Stoppers /\ "lock" \in File
  BY DEF Process, File
<1>2. /\ proc[d].phase = "remove" /\ Flying(d) /\ Starting(d) /\ Alive(d)
      /\ Remove("lock") /\ UNCHANGED <<asked, deaths, raced>> /\ Sees(d)
      /\ \A e \in Daemons : ~ Owns(e)
  BY SawStays DEF AcquireRemove, Flying, Starting, Alive, IInv, DaemonLock
<1>3. /\ locks' \in [Lock -> LockFile \cup {None}]
      /\ locks'["daemon"] = None /\ locks'["startup"] = locks["startup"]
      /\ UNCHANGED <<address, pidfile, socket>>
  BY <1>1, <1>2, Removes DEF IInv
<1>4. CASE proc[d].attempt = 0
  <2>1. /\ Rest(d) /\ proc' \in [Process -> Record] /\ proc'[d].phase = "create"
        /\ proc'[d].then = proc[d].then /\ proc'[d].parent = proc[d].parent
    <3> DEFINE rec == [proc[d] EXCEPT !.phase = "create", !.attempt = 1]
    <3>1. proc \in [Process -> Record] /\ proc[d] \in Record
      BY <1>1 DEF IInv, TypeOK, Record
    <3>2. /\ rec \in Record /\ rec.phase = "create" /\ rec.parent = proc[d].parent
          /\ rec.then = proc[d].then
      BY <1>1, <3>1 DEF Record, Phase
    <3>3. proc' = [proc EXCEPT ![d] = rec]
      BY <1>4, <3>1 DEF AcquireRemove
    <3> HIDE DEF rec
    <3> QED
      BY <1>1, <3>1, <3>2, <3>3 DEF Rest
  <2>2. TypesStay(d)
    BY <1>2, <1>3, <2>1 DEF TypesStay, IInv, TypeOK
  <2>3. \A e \in Daemons : ~ Owns(e)'
    BY <1>2, <2>1 DEF Owns, Serving, Rest, Process
  <2>4. DaemonLock' /\ Found'
    BY <2>3 DEF DaemonLock, Found, Owns
  <2> QED
    BY <1>2, <1>3, <2>1, <2>2, <2>4, DaemonFlies DEF DaemonPhase, Starting
<1>5. CASE proc[d].attempt # 0
  <2>1. Exit(d)
    BY <1>5 DEF AcquireRemove, Refused
  <2> QED
    BY <1>2, <2>1, ProcessEnds DEF IInv, TypeOK
<1> QED
  BY <1>4, <1>5

(* It binds the socket: whatever was at the path is gone. *)
LEMMA DaemonBinds ==
  ASSUME LifecycleAssumption, IInv, NEW d \in Daemons, ListenUnlink(d) \/ ListenBind(d)
  PROVE  IInv'
<1> USE DEF At
<1>1. d \in Process /\ d \in Daemons \cup Stoppers /\ "socket" \in File
  BY DEF Process, File
<1>2. /\ proc[d].phase \in {"unlink", "bind"} /\ Flying(d) /\ Starting(d) /\ Alive(d) /\ Owns(d)
      /\ UNCHANGED <<asked, deaths, raced>> /\ Sees(d)
  BY SawStays DEF ListenUnlink, ListenBind, Flying, Starting, Alive, Owns
<1>3. /\ {"bind", "address"} \subseteq DaemonPhase \ {"new", "sweep", "zombie", "dead"}
  BY DEF DaemonPhase
<1>4. \A e \in Daemons \ {d} : ~ Owns(e) /\ ~ Judging(e)
  BY <1>2, OwnerAlone DEF IInv, OneStarts, Starting, Judging
<1>5. ASSUME NEW phase \in {"bind", "address"}, Goto(d, phase), UNCHANGED <<locks, address, pidfile>>,
             socket' \in Daemons \cup {None}, phase = "address" => socket' = d
      PROVE  IInv'
  <2>1. /\ Rest(d) /\ proc' \in [Process -> Record] /\ proc'[d].phase = phase
        /\ proc'[d].then = proc[d].then /\ proc'[d].parent = proc[d].parent
    BY <1>2, <1>3, <1>5, DaemonGoes
  <2>2. TypesStay(d)
    BY <1>2, <1>5, <2>1 DEF TypesStay, IInv, TypeOK, Kinds
  <2>3. \A e \in Daemons \ {d} : ~ Owns(e)' /\ ~ Judging(e)'
    BY <1>2, <1>4, <2>1 DEF Owns, Serving, Rest, Process, Judging
  <2>4. DaemonLock'
    BY <1>2, <1>5, <2>1, <2>3 DEF IInv, DaemonLock, Written, Judging
  <2>5. Found'
    BY <1>5, <2>1, <2>3 DEF Found, Owns, Serving
  <2> QED
    BY <1>2, <1>3, <1>5, <2>1, <2>2, <2>4, <2>5, DaemonFlies DEF Starting
<1>6. CASE ListenUnlink(d)
  <2>1. Remove("socket") /\ Goto(d, "bind")
    BY <1>6 DEF ListenUnlink
  <2>2. UNCHANGED <<locks, address, pidfile>> /\ socket' = None
    BY <2>1 DEF Remove, IInv, TypeOK, Lock
  <2> QED
    BY <1>5, <2>1, <2>2
<1>7. CASE ListenBind(d)
  <2>1. CASE socket = None
    BY <1>5, <1>7, <2>1 DEF ListenBind
  <2>2. CASE socket # None
    BY <1>2, <1>7, <2>2, ProcessEnds DEF ListenBind, files, IInv, TypeOK
  <2> QED
    BY <2>1, <2>2
<1> QED
  BY <1>6, <1>7

(* It writes its address, and its pid. *)
LEMMA DaemonServes ==
  ASSUME LifecycleAssumption, IInv, NEW d \in Daemons, WriteAddr(d) \/ WritePID(d)
  PROVE  IInv'
<1> USE DEF At
<1>1. d \in Process /\ d \in Daemons \cup Stoppers
  BY DEF Process
<1>2. /\ proc[d].phase \in {"address", "pid"} /\ Flying(d) /\ Owns(d)
      /\ UNCHANGED <<locks, socket, asked, deaths, raced>> /\ socket = d /\ Sees(d)
  BY SawStays DEF WriteAddr, WritePID, Flying, Starting, Owns, IInv, Found
<1>3. {"pid", "serve"} \subseteq DaemonPhase \ {"new", "sweep", "zombie", "dead"}
  BY DEF DaemonPhase
<1>4. ASSUME NEW phase \in {"pid", "serve"}, Goto(d, phase), address' = TRUE,
             pidfile' \in Daemons \cup {None},
             Starting(d) \/ address, ~ Starting(d)',
             pidfile' = pidfile \/ phase = "serve", phase = "serve" => pidfile' = d
      PROVE  IInv'
  <2>1. /\ Rest(d) /\ proc' \in [Process -> Record] /\ proc'[d].phase = phase
        /\ proc'[d].then = proc[d].then /\ proc'[d].parent = proc[d].parent
    BY <1>2, <1>3, <1>4, DaemonGoes
  <2>2. TypesStay(d)
    BY <1>2, <1>4, <2>1 DEF TypesStay, IInv, TypeOK, Kinds
  <2>3. \A e \in Daemons \ {d} : ~ Owns(e)'
    BY <1>2, <2>1, OwnerAlone DEF Owns, Serving, Rest, Process
  <2>4. \A e \in Daemons \ {d} : Judging(e)' => At(e, "probe")' /\ saw'[e] = d
    <3>1. \A e \in Daemons : Judging(e) => At(e, "probe") /\ saw[e] = d
      BY <1>2 DEF IInv, DaemonLock, Judging
    <3> QED
      BY <1>2, <2>1, <3>1 DEF Rest, Process, Judging, Sees
  <2>5. DaemonLock'
    <3>1. locks["daemon"] # None /\ locks["daemon"].by = d /\ locks["daemon"].content = "pid"
      BY <1>2 DEF IInv, DaemonLock, Written
    <3> QED
      BY <1>2, <2>1, <2>3, <2>4, <3>1 DEF DaemonLock, Written, Judging
  <2>6. Found'
    BY <1>2, <1>4, <2>1, <2>3 DEF Found, Owns, Serving
  <2> QED
    BY <1>2, <1>3, <1>4, <2>1, <2>2, <2>5, <2>6, DaemonFlies
<1>5. CASE WriteAddr(d)
  <2>1. /\ Goto(d, "pid") /\ address' = TRUE /\ pidfile' = pidfile /\ Starting(d)
        /\ pidfile \in Daemons \cup {None}
    BY <1>5 DEF WriteAddr, Starting, IInv, TypeOK
  <2>2. ~ Starting(d)'
    BY <1>1, <2>1 DEF Goto, Starting, IInv, TypeOK
  <2> QED
    BY <1>4, <2>1, <2>2
<1>6. CASE WritePID(d)
  <2>1. Goto(d, "serve") /\ address' = TRUE /\ pidfile' = d /\ address
    BY <1>6 DEF WritePID, IInv, Found
  <2>2. ~ Starting(d)'
    BY <1>1, <2>1 DEF Goto, Starting, IInv, TypeOK
  <2> QED
    BY <1>4, <2>1, <2>2
<1> QED
  BY <1>5, <1>6

(* The service manager starts a daemon when nothing else is on its way. *)
LEMMA ServiceStarts ==
  ASSUME LifecycleAssumption, Orderly, IInv, NEW d \in Daemons, ServiceStart(d) PROVE IInv'
<1> USE DEF At, IInv
<1>1. d \in Process /\ d \in Daemons \cup Stoppers /\ d \notin Stoppers
  BY DEF Process, LifecycleAssumption
<1>2. /\ proc[d].phase = "new" /\ UNCHANGED <<files, asked, deaths, raced>>
      /\ proc[d].parent = None /\ Goto(d, "create") /\ Sees(d)
  BY SawStays DEF ServiceStart, Kinds
<1>3. /\ \A s \in Starters : ~ Moving(s)
      /\ \A e \in Daemons : ~ Flying(e) /\ ~ Leaving(e)
      /\ \A x \in Stoppers : ~ At(x, "sweep")
  BY SettledMeans DEF ServiceStart, Orderly
<1>4. /\ Rest(d) /\ proc' \in [Process -> Record] /\ proc'[d].phase = "create"
      /\ proc'[d].then = proc[d].then /\ proc'[d].parent = None
  BY <1>1, <1>2, GoesTo DEF Keeps, Phase
<1>5. TypesStay(d)
  BY <1>2, <1>4 DEF TypesStay, TypeOK, Kinds, files
<1>6. TypeOK' /\ Kinds' /\ Todos' /\ StartLock'
  BY <1>1, <1>2, <1>4, <1>5, KindsStay DEF DaemonPhase
<1>7. Cleared'
  BY <1>1, <1>3, <1>4, <1>5, NobodyCleans DEF Moving, Cleaning
<1>8. /\ \A s \in Starters : ~ Moving(s)' /\ proc'[s].phase = proc[s].phase
      /\ \A e \in Daemons \ {d} : ~ Flying(e)' /\ (Owns(e)' <=> Owns(e))
      /\ \A e \in Daemons \ {d} : /\ proc[e].phase # "zombie" => proc'[e].phase = proc[e].phase
                                  /\ proc[e].phase = "zombie" => proc'[e].phase \in {"zombie", "dead"}
      /\ \A x \in Stoppers : proc'[x].phase = proc[x].phase
  BY <1>1, <1>2, <1>3, <1>4, <1>5, StartsStay DEF Rest, Process, Owns, Serving
<1>9. Asked'
  BY <1>2, <1>8 DEF Asked, files
<1>10. Alone'
  <2>1. \A e \in Daemons : ~ Leaving(e)'
    BY <1>2, <1>3, <1>4, <1>8 DEF Leaving
  <2> QED
    BY <1>3, <1>8, <2>1 DEF Alone, LifecycleAssumption
<1>11. OneStarts'
  BY <1>4, <1>8 DEF OneStarts, Flying
<1>12. DaemonLock'
  BY <1>2, <1>4, <1>8 DEF DaemonLock, Owns, Serving, Written, Flying, Starting, files
<1>13. Found'
  BY <1>2, <1>4, <1>8 DEF Found, Serving, Flying, Starting, files
<1> QED
  BY <1>6, <1>7, <1>9, <1>10, <1>11, <1>12, <1>13

(* When those that live are daemons that leave, their files may go. *)
LEMMA LastOnesLeave ==
  ASSUME LifecycleAssumption, IInv, NEW p \in Daemons \cup Stoppers, Rest(p), TypesStay(p),
         proc'[p].then = proc[p].then, proc'[p].parent = proc[p].parent,
         proc'[p].phase = "sweep", proc'[p].todo \in Seq(File \ {"startup"}),
         pidfile' \in {pidfile, None}, asked' \subseteq asked \cup {pidfile},
         \A s \in Starters : ~ Moving(s),
         \A d \in Daemons : Alive(d)' => At(d, "sweep")' \/ (At(d, "serve")' /\ d \in asked'),
         \A d, e \in Daemons : Alive(d)' /\ Alive(e)' => d = e,
         \A x, y \in Stoppers : At(x, "sweep")' /\ At(y, "sweep")' => x = y
  PROVE  IInv'
<1> USE DEF At, IInv
<1>1. TypeOK' /\ Kinds' /\ Todos' /\ StartLock'
  BY KindsStay DEF DaemonPhase
<1>2. Cleared'
  BY NobodyCleans DEF Moving, Cleaning
<1>3. /\ \A s \in Starters : ~ Moving(s)'
      /\ \A e \in Daemons \ {p} : /\ proc[e].phase # "zombie" => proc'[e].phase = proc[e].phase
                                  /\ proc[e].phase = "zombie" => proc'[e].phase \in {"zombie", "dead"}
  BY StartsStay DEF Rest, Process
<1>4. Asked'
  BY <1>3 DEF Asked, LifecycleAssumption, Process
<1>5. \A d \in Daemons : /\ ~ Owns(d)' /\ ~ Flying(d)'
                         /\ Alive(d)' <=> Leaving(d)'
  BY DEF Owns, Serving, Flying, Starting, Alive, Leaving
<1>6. Alone'
  <2>1. \A d \in Daemons : Leaving(d)' => \A e \in Daemons \ {d} : ~ Alive(e)'
    BY <1>5
  <2> QED
    BY <1>3, <1>5, <2>1 DEF Alone, LifecycleAssumption
<1>7. OneStarts' /\ DaemonLock' /\ Found'
  BY <1>5 DEF OneStarts, DaemonLock, Found, Owns, Flying, Starting
<1> QED
  BY <1>1, <1>2, <1>4, <1>6, <1>7

LEMMA SweepsAre ==
  /\ <<"address", "pid", "lock", "lock">> \in Seq(File \ {"startup"})
  /\ <<"address", "pid", "lock", "socket">> \in Seq(File \ {"startup"})
  /\ "sweep" \in Phase
  /\ \A list \in Seq(File \ {"startup"}) : list \in Seq(File)
BY DEF File, Phase

(* A daemon is asked to stop, or has lost its parent. *)
LEMMA Shutdowns ==
  ASSUME LifecycleAssumption, Orderly, IInv, NEW d \in Daemons, Shutdown(d) PROVE IInv'
<1> USE DEF At, IInv
<1>1. d \in Process /\ d \in Daemons \cup Stoppers /\ d \notin Stoppers /\ "socket" \in File
  BY DEF Process, LifecycleAssumption, File
<1>2. /\ proc[d].phase = "serve" /\ Remove("socket") /\ UNCHANGED <<asked, deaths, raced>>
      /\ Sees(d)
  BY SawStays DEF Shutdown
<1>3. /\ \A s \in Starters : ~ Moving(s)
      /\ \A e \in Daemons \ {d} : ~ Alive(e)
  <2>1. CASE d \in asked
    BY <1>2, <2>1 DEF Alone, Leaving
  <2>2. CASE d \notin asked
    <3>1. Settled(Process)
      BY <2>2 DEF Shutdown, Orderly
    <3>2. Owns(d)
      BY <1>2, <2>2 DEF Owns, Serving
    <3>3. ASSUME NEW e \in Daemons, Alive(e) PROVE e = d
      <4>1. Owns(e)
        BY <3>1, <3>3, SettledMeans DEF Settled, Owns, Serving, Process, Kinds, DaemonPhase
      <4> QED
        BY <3>2, <4>1, OwnerAlone
    <3> QED
      BY <3>1, <3>3, SettledMeans
  <2> QED
    BY <2>1, <2>2
<1>4. /\ locks' \in [Lock -> LockFile \cup {None}]
      /\ address' \in BOOLEAN /\ pidfile' \in Daemons \cup {None}
      /\ socket' \in Daemons \cup {None}
      /\ UNCHANGED pidfile /\ locks'["startup"] = locks["startup"]
      /\ locks'["daemon"] = locks["daemon"]
  BY <1>1, <1>2, Removes
<1>5. /\ Rest(d) /\ proc' \in [Process -> Record] /\ proc'[d].phase = "sweep"
      /\ proc'[d].todo = <<"address", "pid", "lock", "lock">>
      /\ proc'[d].then = proc[d].then /\ proc'[d].parent = proc[d].parent
  <2> DEFINE rec == [proc[d] EXCEPT !.phase = "sweep", !.todo = <<"address", "pid", "lock", "lock">>]
  <2>1. proc \in [Process -> Record] /\ proc[d] \in Record
    BY <1>1 DEF TypeOK, Record
  <2>2. /\ rec \in Record /\ rec.phase = "sweep" /\ rec.parent = proc[d].parent
        /\ rec.todo = <<"address", "pid", "lock", "lock">> /\ rec.then = proc[d].then
    BY <2>1, SweepsAre DEF Record
  <2>3. proc' = [proc EXCEPT ![d] = rec]
    BY <2>1 DEF Shutdown
  <2> HIDE DEF rec
  <2> QED
    BY <1>1, <2>1, <2>2, <2>3 DEF Rest
<1>6. TypesStay(d)
  BY <1>2, <1>4, <1>5 DEF TypesStay, TypeOK, Kinds
<1>7. \A e \in Daemons \ {d} : ~ Alive(e)'
  BY <1>1, <1>3, <1>5, StartsStay DEF Rest, Process, Alive
<1>8. \A x, y \in Stoppers : At(x, "sweep")' /\ At(y, "sweep")' => x = y
  <2>1. \A x \in Stoppers : proc'[x].phase = proc[x].phase
    BY <1>1, <1>5, StartsStay
  <2> QED
    BY <2>1 DEF Alone
<1> QED
  BY <1>1, <1>2, <1>3, <1>4, <1>5, <1>6, <1>7, <1>8, SweepsAre, LastOnesLeave

(* A list of files to remove without a look. *)
LEMMA RestOf ==
  ASSUME NEW list \in Seq(File \ {"startup"}), list # <<>>
  PROVE  Head(list) \in File \ {"startup"} /\ Tail(list) \in Seq(File \ {"startup"})
BY HeadTailProperties

(* A daemon or a stop removes the next file, or ends. *)
LEMMA Sweeps ==
  ASSUME LifecycleAssumption, IInv, NEW p \in Daemons \cup Stoppers, Sweep(p) PROVE IInv'
<1> USE DEF At, IInv
<1>1. /\ p \in Process /\ p \notin Starters
      /\ proc[p].phase = "sweep" /\ Alive(p) /\ UNCHANGED <<asked, deaths, raced>> /\ Sees(p)
      /\ proc[p].todo \in Seq(File \ {"startup"}) /\ proc[p].then = "dead"
  BY SawStays DEF Process, LifecycleAssumption, Sweep, Alive, Todos, Kinds
<1>2. /\ \A s \in Starters : ~ Moving(s)
      /\ \A d \in Daemons : Alive(d) => Leaving(d)
      /\ \A d, e \in Daemons : Alive(d) /\ Alive(e) => d = e
      /\ \A x, y \in Stoppers : At(x, "sweep") /\ At(y, "sweep") => x = y
  BY <1>1 DEF Alone, Leaving
<1>3. CASE proc[p].todo = <<>>
  BY <1>1, <1>3, ProcessEnds DEF Sweep, Finish, TypeOK
<1>4. CASE proc[p].todo # <<>>
  <2>1. /\ Remove(Head(proc[p].todo))
        /\ proc' = [proc EXCEPT ![p].todo = Tail(proc[p].todo)]
    BY <1>4 DEF Sweep
  <2>2. /\ Head(proc[p].todo) \in File \ {"startup"}
        /\ Tail(proc[p].todo) \in Seq(File \ {"startup"}) /\ Tail(proc[p].todo) \in Seq(File)
    BY <1>1, <1>4, RestOf, SweepsAre
  <2>3. /\ locks' \in [Lock -> LockFile \cup {None}]
        /\ address' \in BOOLEAN /\ pidfile' \in Daemons \cup {None}
        /\ socket' \in Daemons \cup {None}
        /\ pidfile' \in {pidfile, None} /\ locks'["startup"] = locks["startup"]
        /\ locks'["daemon"] \in {locks["daemon"], None}
    BY <2>1, <2>2, Removes
  <2>4. /\ Rest(p) /\ proc' \in [Process -> Record] /\ proc'[p].phase = "sweep"
        /\ proc'[p].todo \in Seq(File \ {"startup"})
        /\ proc'[p].then = proc[p].then /\ proc'[p].parent = proc[p].parent
        /\ \A q \in Process : proc'[q].phase = proc[q].phase
    <3> DEFINE rec == [proc[p] EXCEPT !.todo = Tail(proc[p].todo)]
    <3>1. proc \in [Process -> Record] /\ proc[p] \in Record
      BY <1>1 DEF TypeOK, Record
    <3>2. /\ rec \in Record /\ rec.phase = "sweep" /\ rec.parent = proc[p].parent
          /\ rec.todo \in Seq(File \ {"startup"}) /\ rec.then = proc[p].then
      BY <1>1, <2>2, <3>1 DEF Record
    <3>3. proc' = [proc EXCEPT ![p] = rec]
      BY <2>1, <3>1
    <3> HIDE DEF rec
    <3> QED
      BY <1>1, <3>1, <3>2, <3>3 DEF Rest
  <2>5. TypesStay(p)
    BY <1>1, <2>3, <2>4 DEF TypesStay, TypeOK, Kinds
  <2>6. /\ \A d \in Daemons : Alive(d)' => At(d, "sweep")' \/ (At(d, "serve")' /\ d \in asked')
        /\ \A d, e \in Daemons : Alive(d)' /\ Alive(e)' => d = e
        /\ \A x, y \in Stoppers : At(x, "sweep")' /\ At(y, "sweep")' => x = y
    BY <1>1, <1>2, <2>4 DEF Alive, Leaving, Process
  <2> QED
    BY <1>1, <1>2, <2>3, <2>4, <2>5, <2>6, LastOnesLeave
<1> QED
  BY <1>3, <1>4

(* forge stop asks the daemon that it finds in the pid file. *)
LEMMA Stops ==
  ASSUME LifecycleAssumption, Orderly, IInv, NEW x \in Stoppers, Stop(x) PROVE IInv'
<1> USE DEF At, IInv
<1> DEFINE list == <<"address", "pid", "lock", "socket">>
<1>1. /\ x \in Process /\ x \in Daemons \cup Stoppers /\ x \notin Daemons
      /\ proc[x].phase = "new" /\ UNCHANGED <<files, deaths, raced>> /\ Sees(x)
      /\ asked' = asked \cup ({pidfile} \ {None}) /\ Settled(Process)
      /\ proc' = [proc EXCEPT ![x].phase = "sweep", ![x].todo = list]
  BY SawStays DEF Process, LifecycleAssumption, Stop, Orderly
<1>2. /\ \A s \in Starters : ~ Moving(s)
      /\ \A y \in Stoppers : ~ At(y, "sweep")
      /\ \A d \in Daemons : Alive(d) => Serving(d)
  BY <1>1, SettledMeans DEF Settled, Serving, Process, Kinds, DaemonPhase
<1>3. /\ Rest(x) /\ proc' \in [Process -> Record] /\ proc'[x].phase = "sweep"
      /\ proc'[x].todo = list
      /\ proc'[x].then = proc[x].then /\ proc'[x].parent = proc[x].parent
      /\ \A q \in Process \ {x} : proc'[q].phase = proc[q].phase
  <2> DEFINE rec == [proc[x] EXCEPT !.phase = "sweep", !.todo = list]
  <2>1. proc \in [Process -> Record] /\ proc[x] \in Record
    BY <1>1 DEF TypeOK, Record
  <2>2. /\ rec \in Record /\ rec.phase = "sweep" /\ rec.parent = proc[x].parent
        /\ rec.todo = list /\ rec.then = proc[x].then
    BY <2>1, SweepsAre DEF Record
  <2>3. proc' = [proc EXCEPT ![x] = rec]
    BY <1>1, <2>1
  <2> HIDE DEF rec, list
  <2> QED
    BY <1>1, <2>1, <2>2, <2>3 DEF Rest
<1>4. TypesStay(x)
  BY <1>1, <1>3 DEF TypesStay, TypeOK, Kinds, files
<1>5. /\ \A d \in Daemons : Alive(d)' => At(d, "sweep")' \/ (At(d, "serve")' /\ d \in asked')
      /\ \A d, e \in Daemons : Alive(d)' /\ Alive(e)' => d = e
      /\ \A y, z \in Stoppers : At(y, "sweep")' /\ At(z, "sweep")' => y = z
  <2>1. \A d \in Daemons : Alive(d)' <=> Alive(d)
    BY <1>1, <1>3 DEF Alive, Process
  <2>2. \A d \in Daemons : Serving(d) => d = pidfile /\ d # None
    BY DEF Found, LifecycleAssumption, Process
  <2> QED
    BY <1>1, <1>2, <1>3, <2>1, <2>2 DEF Serving, Process
<1> QED
  BY <1>1, <1>2, <1>3, <1>4, <1>5, SweepsAre, LastOnesLeave DEF files

-----------------------------------------------------------------------------
(* Deaths and time. *)

LEMMA Dies ==
  ASSUME LifecycleAssumption, Orderly, IInv, NEW p \in Process, Die(p) PROVE IInv'
<1>1. p \in Daemons \cup Stoppers
  BY DEF Die, Orderly, Process
<1>2. deaths' \in 0 .. MaxDeaths
  BY DEF Die, IInv, TypeOK, LifecycleAssumption
<1> QED
  BY <1>1, <1>2, SawStays, ProcessEnds DEF Die

(* Only a dead daemon leaves a lock that is empty for a second. *)
LEMMA Ages ==
  ASSUME LifecycleAssumption, Orderly, IInv, NEW l \in Lock, LockAges(l) PROVE IInv'
<1> USE DEF At, IInv
<1>1. /\ locks[l] # None /\ locks[l].content = "empty" /\ ~ Alive(locks[l].by)
      /\ locks' = [locks EXCEPT ![l] = [locks[l] EXCEPT !.content = "old"]]
      /\ UNCHANGED <<address, pidfile, socket, proc, asked, saw, deaths, raced>>
  BY DEF LockAges, Orderly, TypeOK
<1>2. l = "daemon"
  <2>1. ASSUME l = "startup" PROVE FALSE
    <3>1. PICK s \in Starters : s = locks["startup"].by
      BY <1>1, <2>1 DEF Kinds
    <3>2. Holds(s)
      BY <1>1, <2>1, <3>1 DEF StartLock
    <3> QED
      BY <1>1, <2>1, <3>1, <3>2 DEF Holds, Clearing, Cleaning, Alive
  <2> QED
    BY <2>1 DEF Lock
<1>3. \A d \in Daemons : ~ Owns(d)
  BY <1>1, <1>2 DEF DaemonLock, Owns, Serving, Alive
<1>4. /\ locks' \in [Lock -> LockFile \cup {None}] /\ locks'["startup"] = locks["startup"]
      /\ locks'["daemon"] # None => locks'["daemon"].by \in Daemons
  <2>1. locks["daemon"] \in LockFile
    BY <1>1, <1>2 DEF TypeOK, Lock
  <2>2. /\ [locks["daemon"] EXCEPT !.content = "old"] \in LockFile
        /\ [locks["daemon"] EXCEPT !.content = "old"].by = locks["daemon"].by
    BY <2>1 DEF LockFile
  <2> QED
    BY <1>1, <1>2, <2>1, <2>2 DEF TypeOK, Lock, Kinds
<1>5. TypeOK' /\ Kinds'
  BY <1>1, <1>4 DEF TypeOK, Kinds
<1>6. Todos' /\ Asked' /\ Alone' /\ OneStarts'
  BY <1>1 DEF Todos, StartTodo, Cleaning, Asked, Alone, Leaving, Moving, Alive, OneStarts, Starting
<1>7. StartLock'
  BY <1>1, <1>4 DEF StartLock, Seen, Holds, Clearing, Cleaning, Written
<1>8. Cleared'
  BY <1>1 DEF Cleared, Clear, Judged, Cleaning, Clearing, Flying, Starting, Ready, Listening,
              Owns, Serving
<1>9. DaemonLock' /\ Found'
  BY <1>1, <1>3 DEF DaemonLock, Found, Owns, Serving
<1> QED
  BY <1>5, <1>6, <1>7, <1>8, <1>9

-----------------------------------------------------------------------------
(* The theorems. *)

LEMMA InitTyped ==
  ASSUME LifecycleAssumption, Init PROVE TypeOK
<1>1. New \in [phase : Phase, attempt : {0, 1}, todo : Seq(File), then : Phase,
               parent : Starters \cup {None}]
  <2>1. <<>> \in Seq(File) /\ "new" \in Phase /\ "dead" \in Phase
    BY DEF Phase
  <2> QED
    BY <2>1 DEF New
<1>2. 0 \in 0 .. MaxDeaths
  BY DEF LifecycleAssumption
<1> QED
  BY <1>1, <1>2 DEF Init, TypeOK

LEMMA Initially ==
  ASSUME LifecycleAssumption, Init PROVE IInv
<1> USE DEF At
<1>1. /\ \A p \in Process : /\ proc[p].phase = "new" /\ proc[p].then = "dead"
                            /\ proc[p].parent = None
      /\ locks = [l \in Lock |-> None] /\ ~ address /\ pidfile = None /\ socket = None
      /\ asked = {} /\ deaths = 0
  BY DEF Init, New
<1>2. TypeOK
  BY InitTyped
<1>3. Kinds /\ Todos /\ Asked
  BY <1>1 DEF Kinds, Todos, StartTodo, Cleaning, Asked, DaemonPhase, StarterPhase, Process, Lock,
              LifecycleAssumption
<1>4. Alone /\ StartLock /\ OneStarts
  BY <1>1 DEF Alone, Moving, Leaving, StartLock, Seen, Holds, Clearing, Cleaning, OneStarts,
              Starting, Lock, Process
<1>5. Cleared /\ DaemonLock /\ Found
  BY <1>1 DEF Cleared, Clear, Judged, Clearing, Cleaning, DaemonLock, Owns, Serving, Found, Process
<1> QED
  BY <1>2, <1>3, <1>4, <1>5 DEF IInv

LEMMA InvStep ==
  ASSUME LifecycleAssumption, Orderly, IInv, [Next]_vars, ~ raced'
  PROVE  IInv'
<1>1. CASE UNCHANGED vars
  <2> USE <1>1 DEF vars, files, At
  <2>1. TypeOK' /\ Kinds' /\ Todos' /\ Asked' /\ Alone' /\ StartLock' /\ OneStarts'
    BY DEF IInv, TypeOK, Kinds, Todos, StartTodo, Cleaning, Asked, Alone, Leaving, Moving, Alive,
           StartLock, Seen, Holds, Clearing, Written, OneStarts, Starting
  <2>2. Cleared' /\ DaemonLock' /\ Found'
    BY DEF IInv, Cleared, Clear, Judged, Cleaning, Clearing, Flying, Starting, Ready, Listening,
           Owns, Serving, DaemonLock, Written, Found
  <2> QED
    BY <2>1, <2>2 DEF IInv
<1>2. ASSUME NEW d \in Daemons, DaemonStep(d) \/ ServiceStart(d) \/ Shutdown(d) PROVE IInv'
  BY <1>2, DaemonCreates, DaemonWrites, DaemonReads, DaemonJudges, DaemonRemoves, DaemonBinds, DaemonServes,
     Sweeps, ServiceStarts, Shutdowns DEF DaemonStep, Acquire
<1>3. ASSUME NEW s \in Starters, StarterStep(s) \/ StartBegin(s) \/ ServerExit(s) PROVE IInv'
  <2>1. CASE Acquire(s)
    BY <2>1, StartCreates, StartWrites, StartReads, StartJudges, StartRemoves DEF Acquire
  <2>2. CASE StartCheck(s) \/ StartRecheck(s) \/ Await(s) \/ AwaitOther(s) \/ Sweep(s)
    BY <2>2, Checks, Rechecks, StartAwaits, StartSweeps
  <2>3. CASE CleanLook(s) \/ CleanRead(s) \/ CleanSize(s) \/ CleanAlive(s) \/ CleanDrop(s)
    BY <2>3, CleanLooks, CleanReads, CleanJudges, CleanDrops
  <2>4. CASE StartBegin(s) \/ ServerExit(s) \/ \E d \in Daemons : Spawn(s, d)
    BY <2>4, Begins, ServerExits, Spawns
  <2> QED
    BY <1>3, <2>1, <2>2, <2>3, <2>4 DEF StarterStep
<1>4. ASSUME NEW x \in Stoppers, Stop(x) \/ Sweep(x) PROVE IInv'
  BY <1>4, Stops, Sweeps
<1> QED
  BY <1>1, <1>2, <1>3, <1>4, Dies, Ages DEF Next

(* Starts that have raced stay in the history. *)
LEMMA RacedStays ==
  ASSUME [Next]_vars, raced PROVE raced'
BY DEF vars, Next, DaemonStep, StarterStep, Acquire, ServiceStart, Shutdown, StartBegin, ServerExit,
       Stop, Sweep, Die, LockAges, AcquireCreate, AcquireWrite, AcquireRead, AcquireStat,
       AcquireProbe, AcquireRemove, ListenUnlink, ListenBind, WriteAddr, WritePID, StartCheck,
       StartRecheck, CleanLook, CleanRead, CleanSize, CleanAlive, CleanDrop, Spawn, Await, AwaitOther

LEMMA Inductive ==
  ASSUME LifecycleAssumption, Orderly
  PROVE  /\ Init => (raced \/ IInv)
         /\ (raced \/ IInv) /\ [Next]_vars => (raced \/ IInv)'
BY Initially, InvStep, RacedStays

LEMMA InvMeans ==
  ASSUME LifecycleAssumption, raced \/ IInv
  PROVE  OneDaemon /\ ServingReachable
<1> USE DEF At
<1>1. ASSUME ~ raced, NEW d \in Daemons, NEW e \in Daemons, Working(d), Working(e) PROVE d = e
  <2>1. \A f \in {d, e} : Alive(f) /\ (Leaving(f) \/ Owns(f))
    BY <1>1 DEF Working, Alive, Leaving, Owns, Serving
  <2>2. CASE Leaving(d) \/ Leaving(e)
    BY <1>1, <2>1, <2>2 DEF IInv, Alone
  <2>3. CASE Owns(d) /\ Owns(e)
    BY <1>1, <2>3, OwnerAlone
  <2> QED
    BY <2>1, <2>2, <2>3
<1>2. ASSUME ~ raced, NEW d \in Daemons, Serving(d), \A s \in Doctors : At(s, "new")
      PROVE  Ready /\ socket = d /\ pidfile = d
  BY <1>2 DEF IInv, Found, Serving, Ready, Listening, LifecycleAssumption, Process
<1> QED
  BY <1>1, <1>2 DEF OneDaemon, ServingReachable, Serving

(* However many starts, daemons, repairs and stops there are: as long as   *)
(* no start takes the start lock between two system calls of another that  *)
(* judges it, the two lock files let one daemon work at a time             *)
(* (acquirePIDLock, ensureDaemonRunning, runDaemon).                       *)
THEOREM OneDaemonCorrect ==
  ASSUME LifecycleAssumption, Orderly
  PROVE  Spec => []OneDaemon
<1>1. Init => (raced \/ IInv)
  BY Inductive
<1>2. (raced \/ IInv) /\ [Next]_vars => (raced \/ IInv)'
  BY Inductive
<1>3. (raced \/ IInv) => OneDaemon
  BY InvMeans
<1> QED
  BY <1>1, <1>2, <1>3, PTL DEF Spec

(* The daemon that serves has its socket, its address and its pid in place *)
(* until it is asked to stop, unless a repair removed them or starts have  *)
(* raced (cleanStaleDaemonState, forge doctor --repair).                   *)
THEOREM ServingReachableCorrect ==
  ASSUME LifecycleAssumption, Orderly
  PROVE  Spec => []ServingReachable
<1>1. Init => (raced \/ IInv)
  BY Inductive
<1>2. (raced \/ IInv) /\ [Next]_vars => (raced \/ IInv)'
  BY Inductive
<1>3. (raced \/ IInv) => ServingReachable
  BY InvMeans
<1> QED
  BY <1>1, <1>2, <1>3, PTL DEF Spec

-----------------------------------------------------------------------------
(* Types, without an assumption on how commands are given. *)

(* A start that judges or removes a file has one to remove. *)
Dropping == {"read", "size", "alive", "drop"}

Listed ==
  \A p \in Process : /\ proc[p].then \notin Dropping
                     /\ proc[p].phase \in Dropping => proc[p].todo # <<>>

USE DEF Dropping

LEMMA ListedStays ==
  ASSUME Listed, NEW p \in Process, Rest(p), proc'[p].then \notin Dropping,
         proc'[p].phase \in Dropping => proc'[p].todo # <<>>
  PROVE  Listed'
BY DEF Listed, Rest, At

(* A process goes where its program says, or exits. *)
LEMMA GoesTyped ==
  ASSUME TypeOK, Listed, NEW p \in Process, NEW phase \in Phase, Goto(p, phase),
         phase \in Dropping => proc[p].todo # <<>>
  PROVE  proc' \in [Process -> Record] /\ Listed'
<1>1. proc'[p].phase = phase /\ Keeps(p) /\ Rest(p) /\ proc' \in [Process -> Record]
  BY GoesTo
<1>2. proc'[p].then \notin Dropping /\ (proc'[p].phase \in Dropping => proc'[p].todo # <<>>)
  BY <1>1 DEF Listed, Keeps
<1> QED BY <1>1, <1>2, ListedStays

LEMMA ExitsTyped ==
  ASSUME TypeOK, Listed, NEW p \in Process, Exit(p)
  PROVE  proc' \in [Process -> Record] /\ Listed'
<1>1. /\ proc'[p].phase \in {"zombie", "dead"}
      /\ Keeps(p) /\ Rest(p) /\ proc' \in [Process -> Record]
  BY Exits
<1>2. proc'[p].then \notin Dropping /\ (proc'[p].phase \in Dropping => proc'[p].todo # <<>>)
  BY <1>1 DEF Listed, Keeps
<1> QED BY <1>1, <1>2, ListedStays

LEMMA FinishTyped ==
  ASSUME TypeOK, Listed, NEW p \in Process, NEW after, Finish(p, after)
  PROVE  proc' \in [Process -> Record] /\ Listed'
<1>1. CASE after = "run"
  <2>1. Goto(p, "run") /\ "run" \in Phase
    BY <1>1 DEF Finish, Phase
  <2> QED BY <2>1, GoesTyped
<1>2. CASE after # "run"
  BY <1>2, ExitsTyped DEF Finish
<1> QED BY <1>1, <1>2

(* One process gets another row. *)
LEMMA RowTyped ==
  ASSUME TypeOK, Listed, NEW p \in Process, NEW row \in Record, proc' = [proc EXCEPT ![p] = row],
         row.then \notin Dropping, row.phase \in Dropping => row.todo # <<>>
  PROVE  proc' \in [Process -> Record] /\ Listed'
<1>1. proc \in [Process -> Record]
  BY DEF TypeOK, Record
<1>2. proc' \in [Process -> Record] /\ proc'[p] = row /\ Rest(p)
  BY <1>1 DEF Rest
<1> QED BY <1>2, ListedStays

LEMMA TurnsTyped ==
  ASSUME TypeOK, Listed, NEW p \in Process, NEW phase \in Phase, phase \notin Dropping,
         NEW todo \in Seq(File), NEW then \in Phase, then \notin Dropping,
         proc' = [proc EXCEPT ![p].phase = phase, ![p].todo = todo, ![p].then = then]
  PROVE  proc' \in [Process -> Record] /\ Listed'
<1> DEFINE rec == [proc[p] EXCEPT !.phase = phase, !.todo = todo, !.then = then]
<1>1. proc \in [Process -> Record] /\ proc[p] \in Record
  BY DEF TypeOK, Record
<1>2. /\ rec \in Record /\ rec.phase = phase /\ rec.then = then
  BY <1>1 DEF Record
<1>3. proc' = [proc EXCEPT ![p] = rec]
  BY <1>1
<1> HIDE DEF rec
<1> QED BY <1>2, <1>3, RowTyped

(* The files of a process change, and nothing else of it. *)
LEMMA TailTyped ==
  ASSUME TypeOK, Listed, NEW p \in Process, NEW phase \in Phase \ Dropping,
         NEW todo \in Seq(File),
         proc' = [proc EXCEPT ![p].phase = phase, ![p].todo = todo]
  PROVE  proc' \in [Process -> Record] /\ Listed'
<1> DEFINE rec == [proc[p] EXCEPT !.phase = phase, !.todo = todo]
<1>1. proc \in [Process -> Record] /\ proc[p] \in Record
  BY DEF TypeOK, Record
<1>2. /\ rec \in Record /\ rec.phase = phase /\ rec.then = proc[p].then
  BY <1>1 DEF Record
<1>3. proc' = [proc EXCEPT ![p] = rec]
  BY <1>1
<1>4. rec.then \notin Dropping
  BY <1>2 DEF Listed
<1> HIDE DEF rec
<1> QED BY <1>2, <1>3, <1>4, RowTyped

LEMMA RefusedTyped ==
  ASSUME TypeOK, Listed, NEW p \in Process, Refused(p)
  PROVE  proc' \in [Process -> Record] /\ Listed'
<1>1. CASE p \in Daemons
  BY <1>1, ExitsTyped DEF Refused
<1>2. CASE p \notin Daemons
  <2>1. Goto(p, "waitOther") /\ "waitOther" \in Phase
    BY <1>2 DEF Refused, Phase
  <2> QED BY <2>1, GoesTyped
<1> QED BY <1>1, <1>2

(* The lock's file is created, written or removed. *)
LEMMA AcquireTyped ==
  ASSUME LifecycleAssumption, TypeOK, Listed, NEW p \in Process, Acquire(p)
  PROVE  TypeOK' /\ Listed'
<1> USE DEF Phase
<1>1. LockOf(p) \in Lock
  BY DEF LockOf, Lock
<1>2. CASE AcquireCreate(p)
  <2>1. \/ Goto(p, "write") \/ Goto(p, "judge")
    BY <1>2 DEF AcquireCreate
  <2>2. proc' \in [Process -> Record] /\ Listed'
    BY <2>1, GoesTyped DEF Dropping
  <2>3. [by |-> p, content |-> "empty"] \in LockFile
    BY DEF LockFile
  <2>4. locks' \in [Lock -> LockFile \cup {None}]
    BY <1>1, <1>2, <2>3 DEF AcquireCreate, TypeOK
  <2>5. raced' \in BOOLEAN
    BY <1>2 DEF AcquireCreate, Races, TypeOK
  <2> QED BY <1>2, <2>2, <2>4, <2>5 DEF AcquireCreate, TypeOK, Record
<1>3. CASE AcquireWrite(p)
  <2>1. \/ Goto(p, "unlink") \/ Goto(p, "recheck")
    BY <1>3 DEF AcquireWrite
  <2>2. proc' \in [Process -> Record] /\ Listed'
    BY <2>1, GoesTyped DEF Dropping
  <2>3. locks[LockOf(p)] # None =>
          [locks[LockOf(p)] EXCEPT !.content = "pid"] \in LockFile
    <3>1. locks[LockOf(p)] # None => locks[LockOf(p)] \in LockFile
      BY <1>1 DEF TypeOK
    <3> QED BY <3>1 DEF LockFile
  <2>4. locks' \in [Lock -> LockFile \cup {None}]
    BY <1>1, <1>3, <2>3 DEF AcquireWrite, TypeOK
  <2>5. raced' \in BOOLEAN
    BY <1>3 DEF AcquireWrite, Races, TypeOK
  <2> QED BY <1>3, <2>2, <2>4, <2>5 DEF AcquireWrite, TypeOK, Record
<1>4. CASE AcquireRead(p)
  <2>1. Goto(p, "probe") \/ Goto(p, "stat")
    BY <1>4 DEF AcquireRead
  <2>2. proc' \in [Process -> Record] /\ Listed'
    BY <2>1, GoesTyped DEF Dropping
  <2>3. saw' \in [Process -> Process \cup {None}]
    BY <1>1, <1>4 DEF AcquireRead, TypeOK, LockFile, HasPID
  <2> QED BY <1>4, <2>2, <2>3 DEF AcquireRead, TypeOK, Record, files
<1>5. CASE AcquireStat(p) \/ AcquireProbe(p)
  <2>1. Goto(p, "remove") \/ Refused(p)
    BY <1>5 DEF AcquireStat, AcquireProbe
  <2>2. proc' \in [Process -> Record] /\ Listed'
    BY <2>1, GoesTyped, RefusedTyped DEF Dropping
  <2>3. saw' \in [Process -> Process \cup {None}]
    BY <1>5 DEF AcquireStat, AcquireProbe, TypeOK
  <2> QED BY <1>5, <2>2, <2>3 DEF AcquireStat, AcquireProbe, TypeOK, Record, files
<1>6. CASE AcquireRemove(p)
  <2>1. PICK file \in File : Remove(file)
    BY <1>6 DEF AcquireRemove, File
  <2>2. proc' \in [Process -> Record] /\ Listed'
    <3>1. CASE proc[p].attempt = 0
      <4> DEFINE rec == [proc[p] EXCEPT !.phase = "create", !.attempt = 1]
      <4>1. proc \in [Process -> Record] /\ proc[p] \in Record
        BY DEF TypeOK, Record
      <4>2. rec \in Record /\ rec.phase = "create" /\ rec.then = proc[p].then
        BY <4>1 DEF Record
      <4>3. proc' = [proc EXCEPT ![p] = rec]
        BY <1>6, <3>1, <4>1 DEF AcquireRemove
      <4>4. rec.then \notin Dropping
        BY <4>2 DEF Listed
      <4> HIDE DEF rec
      <4> QED BY <4>2, <4>3, <4>4, RowTyped
    <3>2. CASE proc[p].attempt # 0
      BY <1>6, <3>2, RefusedTyped DEF AcquireRemove
    <3> QED BY <3>1, <3>2
  <2> QED BY <1>6, <2>1, <2>2, Removes DEF AcquireRemove, TypeOK, Record
<1> QED BY <1>2, <1>3, <1>4, <1>5, <1>6 DEF Acquire

LEMMA SweepTyped ==
  ASSUME TypeOK, Listed, NEW p \in Process, Sweep(p)
  PROVE  TypeOK' /\ Listed'
<1>1. CASE proc[p].todo # <<>>
  <2>1. proc[p].todo \in Seq(File)
    BY DEF TypeOK
  <2>2. Head(proc[p].todo) \in File /\ Tail(proc[p].todo) \in Seq(File)
    BY <1>1, <2>1, TailShorter
  <2>3. Remove(Head(proc[p].todo))
    BY <1>1 DEF Sweep
  <2>4. proc' = [proc EXCEPT ![p].phase = "sweep", ![p].todo = Tail(proc[p].todo)]
    BY <1>1 DEF Sweep, TypeOK, At
  <2>5. proc' \in [Process -> Record] /\ Listed'
    BY <2>2, <2>4, TailTyped DEF Phase
  <2> QED BY <2>2, <2>3, <2>5, Removes DEF Sweep, TypeOK, Record
<1>2. CASE proc[p].todo = <<>>
  <2>1. proc' \in [Process -> Record] /\ Listed'
    BY <1>2, FinishTyped DEF Sweep
  <2> QED BY <1>2, <2>1 DEF Sweep, TypeOK, Record, files
<1> QED BY <1>1, <1>2

(* The steps of a daemon. *)
LEMMA DaemonTyped ==
  ASSUME LifecycleAssumption, TypeOK, Listed, NEW d \in Daemons,
         DaemonStep(d) \/ ServiceStart(d) \/ Shutdown(d)
  PROVE  TypeOK' /\ Listed'
<1> USE DEF Phase
<1>1. d \in Process
  BY DEF Process
<1>2. CASE Acquire(d) \/ Sweep(d)
  BY <1>1, <1>2, AcquireTyped, SweepTyped
<1>3. CASE ListenUnlink(d)
  <2>1. Remove("socket") /\ "socket" \in File
    BY <1>3 DEF ListenUnlink, File
  <2>2. proc' \in [Process -> Record] /\ Listed'
    BY <1>1, <1>3, GoesTyped DEF ListenUnlink
  <2> QED BY <1>3, <2>1, <2>2, Removes DEF ListenUnlink, TypeOK, Record
<1>4. CASE ListenBind(d)
  <2>1. Goto(d, "address") \/ Exit(d)
    BY <1>4 DEF ListenBind
  <2>2. proc' \in [Process -> Record] /\ Listed'
    BY <1>1, <2>1, GoesTyped, ExitsTyped
  <2>3. socket' \in Daemons \cup {None}
    BY <1>4 DEF ListenBind, TypeOK
  <2> QED BY <1>4, <2>2, <2>3 DEF ListenBind, TypeOK, Record
<1>5. CASE WriteAddr(d) \/ WritePID(d)
  <2>1. Goto(d, "pid") \/ Goto(d, "serve")
    BY <1>5 DEF WriteAddr, WritePID
  <2>2. proc' \in [Process -> Record] /\ Listed'
    BY <1>1, <2>1, GoesTyped
  <2> QED BY <1>5, <2>2 DEF WriteAddr, WritePID, TypeOK, Record
<1>6. CASE ServiceStart(d)
  <2>1. proc' \in [Process -> Record] /\ Listed'
    BY <1>1, <1>6, GoesTyped DEF ServiceStart
  <2> QED BY <1>6, <2>1 DEF ServiceStart, TypeOK, Record, files
<1>7. CASE Shutdown(d)
  <2> DEFINE todo == <<"address", "pid", "lock", "lock">>
  <2>1. Remove("socket") /\ "socket" \in File /\ todo \in Seq(File)
    BY <1>7 DEF Shutdown, File
  <2>2. proc' = [proc EXCEPT ![d].phase = "sweep", ![d].todo = todo]
    BY <1>7 DEF Shutdown
  <2> HIDE DEF todo
  <2>3. proc' \in [Process -> Record] /\ Listed'
    BY <1>1, <2>1, <2>2, TailTyped
  <2> QED BY <1>7, <2>1, <2>3, Removes DEF Shutdown, TypeOK, Record
<1> QED BY <1>2, <1>3, <1>4, <1>5, <1>6, <1>7 DEF DaemonStep

(* A start begins, or turns to the files it removes. *)
LEMMA StartTurnsTyped ==
  ASSUME LifecycleAssumption, TypeOK, Listed, NEW s \in Starters,
         \/ StartBegin(s) \/ StartRecheck(s) \/ Await(s)
  PROVE  proc' \in [Process -> Record] /\ Listed'
<1>1. s \in Process /\ DaemonFiles \in Seq(File) /\ <<"startup">> \in Seq(File)
  BY DaemonFilesAre DEF Process, File
<1>2. /\ {"check", "look", "spawn", "sweep"} \subseteq Phase \ Dropping
      /\ \A ready : After(s, ready) \in Phase \ Dropping
  BY DEF After, Phase
<1>3. CASE StartBegin(s)
  <2>1. \/ Goto(s, "check")
        \/ proc' = [proc EXCEPT ![s].phase = "look", ![s].todo = DaemonFiles,
                                ![s].then = "check"]
    BY <1>3 DEF StartBegin
  <2>2. CASE Goto(s, "check")
    BY <1>1, <1>2, <2>2, GoesTyped
  <2>3. CASE proc' = [proc EXCEPT ![s].phase = "look", ![s].todo = DaemonFiles,
                                  ![s].then = "check"]
    <3>1. "look" \in Phase \ Dropping /\ "check" \in Phase \ Dropping
      BY <1>2
    <3> QED BY <1>1, <2>3, <3>1, TurnsTyped
  <2> QED BY <2>1, <2>2, <2>3
<1>4. CASE StartRecheck(s) \/ Await(s)
  <2>1. CleanUp(s) \/ \E ready \in BOOLEAN : Release(s, ready)
    <3>1. Ready \in BOOLEAN
      BY DEF Ready, TypeOK, Listening
    <3>2. CASE StartRecheck(s)
      BY <3>2, Zenon DEF StartRecheck
    <3>3. CASE Await(s)
      BY <3>1, <3>3 DEF Await
    <3> QED BY <1>4, <3>2, <3>3
  <2>2. CASE CleanUp(s)
    <3>1. "look" \in Phase \ Dropping /\ "spawn" \in Phase \ Dropping
      BY <1>2
    <3> QED BY <1>1, <2>2, <3>1, TurnsTyped DEF CleanUp
  <2>3. ASSUME NEW ready \in BOOLEAN, Release(s, ready)
        PROVE  proc' \in [Process -> Record] /\ Listed'
    <3>1. "sweep" \in Phase \ Dropping /\ After(s, ready) \in Phase \ Dropping
      BY <1>2
    <3> QED BY <1>1, <2>3, <3>1, TurnsTyped DEF Release
  <2> QED BY <2>1, <2>2, <2>3
<1> QED BY <1>3, <1>4

(* It looks at a file, judges it, and removes it. *)
LEMMA CleanTyped ==
  ASSUME TypeOK, Listed, NEW s \in Process,
         CleanLook(s) \/ CleanRead(s) \/ CleanSize(s) \/ CleanAlive(s) \/ CleanDrop(s)
  PROVE  TypeOK' /\ Listed'
<1> USE DEF Phase
<1>1. proc[s].todo \in Seq(File) /\ proc[s].then \in Phase \ Dropping
  BY DEF TypeOK, Listed
<1>2. ASSUME Pass(s), proc[s].todo # <<>> PROVE proc' \in [Process -> Record] /\ Listed'
  <2>1. Tail(proc[s].todo) \in Seq(File) /\ "look" \in Phase \ Dropping
    BY <1>1, <1>2, TailShorter DEF Dropping
  <2>2. proc' = [proc EXCEPT ![s].phase = "look", ![s].todo = Tail(proc[s].todo)]
    BY <1>2 DEF Pass, TypeOK
  <2> QED BY <2>1, <2>2, TailTyped
<1>3. CASE CleanLook(s)
  <2>1. proc' \in [Process -> Record] /\ Listed'
    <3>1. CASE proc[s].todo = <<>>
      BY <1>1, <1>3, <3>1, GoesTyped DEF CleanLook
    <3>2. CASE proc[s].todo # <<>>
      <4>1. Goto(s, "drop") \/ Goto(s, "alive") \/ Goto(s, "read") \/ Pass(s)
        BY <1>3, <3>2 DEF CleanLook
      <4> QED BY <1>2, <3>2, <4>1, GoesTyped
    <3> QED BY <3>1, <3>2
  <2>2. saw' \in [Process -> Process \cup {None}]
    BY <1>3 DEF CleanLook, TypeOK, Process
  <2> QED BY <1>3, <2>1, <2>2 DEF CleanLook, TypeOK, Record, files
<1>4. CASE CleanRead(s) \/ CleanSize(s) \/ CleanAlive(s)
  <2>1. proc[s].todo # <<>>
    BY <1>4 DEF CleanRead, CleanSize, CleanAlive, Listed, Dropping, At
  <2>2. Goto(s, "alive") \/ Goto(s, "drop") \/ Goto(s, "size") \/ Pass(s)
    BY <1>4 DEF CleanRead, CleanSize, CleanAlive
  <2>3. proc' \in [Process -> Record] /\ Listed'
    BY <1>2, <2>1, <2>2, GoesTyped
  <2>4. saw' \in [Process -> Process \cup {None}]
    <3>1. \A file : LockFor(file) \in Lock
      BY DEF LockFor, Lock
    <3>2. \A l \in Lock : HasPID(l) => locks[l].by \in Process
      BY DEF HasPID, TypeOK, LockFile
    <3> QED BY <1>4, <3>1, <3>2 DEF CleanRead, CleanSize, CleanAlive, TypeOK
  <2> QED BY <1>4, <2>3, <2>4 DEF CleanRead, CleanSize, CleanAlive, TypeOK, Record, files
<1>5. CASE CleanDrop(s)
  <2>1. proc[s].todo # <<>>
    BY <1>5 DEF CleanDrop, Listed, Dropping, At
  <2>2. Head(proc[s].todo) \in File
    BY <1>1, <2>1, TailShorter
  <2>3. proc' \in [Process -> Record] /\ Listed'
    BY <1>2, <1>5, <2>1 DEF CleanDrop
  <2> QED BY <1>5, <2>2, <2>3, Removes DEF CleanDrop, TypeOK, Record
<1> QED BY <1>3, <1>4, <1>5

(* It becomes the parent of a daemon. *)
LEMMA SpawnTyped ==
  ASSUME LifecycleAssumption, TypeOK, Listed, NEW s \in Starters, NEW d \in Daemons, Spawn(s, d)
  PROVE  TypeOK' /\ Listed'
<1> DEFINE parent == [proc[s] EXCEPT !.phase = "await"]
           child == [proc[d] EXCEPT !.phase = "create", !.parent = s]
<1>1. s \in Process /\ d \in Process /\ s # d
  BY DEF Process, LifecycleAssumption
<1>2. proc \in [Process -> Record] /\ proc[s] \in Record /\ proc[d] \in Record
  BY <1>1 DEF TypeOK, Record
<1>3. parent \in Record /\ parent.phase = "await" /\ parent.then = proc[s].then
  BY <1>2 DEF Record, Phase
<1>4. child \in Record /\ child.phase = "create" /\ child.then = proc[d].then
  BY <1>2 DEF Record, Phase
<1>5. proc' = [proc EXCEPT ![s] = parent, ![d] = child]
  BY <1>1, <1>2 DEF Spawn
<1> HIDE DEF parent, child
<1>6. /\ proc' \in [Process -> Record] /\ proc'[s] = parent /\ proc'[d] = child
      /\ \A q \in Process \ {s, d} : proc'[q] = proc[q]
  BY <1>1, <1>2, <1>3, <1>4, <1>5
<1>7. Listed'
  BY <1>3, <1>4, <1>6 DEF Listed, At
<1> QED BY <1>6, <1>7 DEF Spawn, TypeOK, Record, files

(* The steps of a start. *)
LEMMA StarterTyped ==
  ASSUME LifecycleAssumption, TypeOK, Listed, NEW s \in Starters,
         StarterStep(s) \/ StartBegin(s) \/ ServerExit(s)
  PROVE  TypeOK' /\ Listed'
<1>1. s \in Process
  BY DEF Process
<1>2. CASE \/ Acquire(s) \/ Sweep(s) \/ CleanLook(s) \/ CleanRead(s)
            \/ CleanSize(s) \/ CleanAlive(s) \/ CleanDrop(s)
  BY <1>1, <1>2, AcquireTyped, SweepTyped, CleanTyped
<1>3. CASE \E d \in Daemons : Spawn(s, d)
  BY <1>3, SpawnTyped
<1>4. CASE StartBegin(s) \/ StartRecheck(s) \/ Await(s)
  <2>1. proc' \in [Process -> Record] /\ Listed'
    BY <1>4, StartTurnsTyped
  <2> QED BY <1>4, <2>1 DEF StartBegin, StartRecheck, Await, TypeOK, Record, files
<1>5. CASE StartCheck(s) \/ AwaitOther(s) \/ ServerExit(s)
  <2>1. Goto(s, "create") \/ Exit(s) \/ \E after \in Phase : Finish(s, after)
    <3>1. \A ready : After(s, ready) \in Phase
      BY DEF After, Phase
    <3>2. CASE StartCheck(s)
      <4>1. Finish(s, After(s, TRUE)) \/ Goto(s, "create")
        BY <3>2 DEF StartCheck
      <4> QED BY <3>1, <4>1
    <3>3. CASE AwaitOther(s)
      <4>1. Finish(s, After(s, Ready))
        BY <3>3 DEF AwaitOther
      <4> QED BY <3>1, <4>1
    <3>4. CASE ServerExit(s)
      BY <3>4 DEF ServerExit
    <3> QED BY <1>5, <3>2, <3>3, <3>4
  <2>2. "create" \in Phase
    BY DEF Phase
  <2>3. proc' \in [Process -> Record] /\ Listed'
    BY <1>1, <2>1, <2>2, GoesTyped, ExitsTyped, FinishTyped
  <2> QED BY <1>5, <2>3 DEF StartCheck, AwaitOther, ServerExit, TypeOK, Record, files
<1> QED BY <1>2, <1>3, <1>4, <1>5 DEF StarterStep

(* Stops, deaths and the age of locks. *)
LEMMA EndsTyped ==
  ASSUME LifecycleAssumption, TypeOK, Listed,
         \/ \E x \in Stoppers : Stop(x)
         \/ \E p \in Process : Die(p)
         \/ \E l \in Lock : LockAges(l)
  PROVE  TypeOK' /\ Listed'
<1>1. ASSUME NEW x \in Stoppers, Stop(x) PROVE TypeOK' /\ Listed'
  <2> DEFINE todo == <<"address", "pid", "lock", "socket">>
  <2>1. x \in Process /\ todo \in Seq(File) /\ "sweep" \in Phase
    BY DEF Process, File, Phase
  <2>2. proc' = [proc EXCEPT ![x].phase = "sweep", ![x].todo = todo]
    BY <1>1 DEF Stop
  <2> HIDE DEF todo
  <2>3. proc' \in [Process -> Record] /\ Listed'
    BY <2>1, <2>2, TailTyped
  <2> QED BY <1>1, <2>3 DEF Stop, TypeOK, Record, files
<1>2. ASSUME NEW p \in Process, Die(p) PROVE TypeOK' /\ Listed'
  <2>1. proc' \in [Process -> Record] /\ Listed'
    BY <1>2, ExitsTyped DEF Die
  <2>2. deaths' \in 0 .. MaxDeaths
    BY <1>2 DEF Die, TypeOK, LifecycleAssumption
  <2> QED BY <1>2, <2>1, <2>2 DEF Die, TypeOK, Record, files
<1>3. ASSUME NEW l \in Lock, LockAges(l) PROVE TypeOK' /\ Listed'
  <2>1. [locks[l] EXCEPT !.content = "old"] \in LockFile
    BY <1>3 DEF LockAges, TypeOK, LockFile
  <2>2. locks' \in [Lock -> LockFile \cup {None}]
    BY <1>3, <2>1 DEF LockAges, TypeOK
  <2> QED BY <1>3, <2>2 DEF LockAges, TypeOK, Listed, At
<1> QED BY <1>1, <1>2, <1>3

(* Whatever people do, and whichever files are removed under a process:    *)
(* every file names a process that can have written it, and no process     *)
(* removes a file from an empty list (cleanStaleDaemonState, Remove).      *)
THEOREM TypeCorrect ==
  ASSUME LifecycleAssumption PROVE Spec => []TypeOK
<1>1. Init => TypeOK /\ Listed
  <2>1. Init => TypeOK
    BY InitTyped
  <2>2. Init => Listed
    BY DEF Init, New, Listed, At
  <2> QED BY <2>1, <2>2
<1>2. TypeOK /\ Listed /\ [Next]_vars => TypeOK' /\ Listed'
  <2> SUFFICES ASSUME TypeOK, Listed, [Next]_vars PROVE TypeOK' /\ Listed'
    OBVIOUS
  <2>1. CASE UNCHANGED vars
    BY <2>1 DEF vars, files, TypeOK, Listed, At
  <2>2. ASSUME NEW x \in Stoppers, Sweep(x) PROVE TypeOK' /\ Listed'
    BY <2>2, SweepTyped DEF Process
  <2>3. CASE Next
    BY <2>2, <2>3, DaemonTyped, StarterTyped, EndsTyped DEF Next
  <2> QED BY <2>1, <2>3
<1> QED BY <1>1, <1>2, PTL DEF Spec
=============================================================================
