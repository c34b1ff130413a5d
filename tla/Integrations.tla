----------------------------- MODULE Integrations -----------------------------
(***************************************************************************)
(* How Forge registers itself with the coding agents of a machine          *)
(* (internal/agent, cmd/init_integrations.go), and with the service        *)
(* manager (internal/service, cmd/start.go).                               *)
(*                                                                         *)
(* Every agent keeps its settings in files that its user, the agent        *)
(* itself and Forge edit.  forge init, forge sync-integrations and forge   *)
(* start, run from any of the binaries installed on the machine, read each *)
(* file, put the path of a binary into it and write it back; forge start   *)
(* does so only after it has found a path that leads to no binary, or to   *)
(* another one.                                                            *)
(*                                                                         *)
(* The events Forge hooks in an agent are handled alike and are one event  *)
(* here; the SessionStart hook, which older versions installed and this    *)
(* one neither installs nor removes, is kept apart.  Skill texts without a *)
(* path in them are left out.                                              *)
(***************************************************************************)
EXTENDS Integers, Sequences, FiniteSets, FiniteSetsExt

CONSTANTS Bin,        \* paths at which a forge binary may be installed
          Unstable,   \* those of them that are build artifacts
          PathBin,    \* the one that a search of PATH finds
          Managed,    \* those that forge doctor --repair may remove
          Mine,       \* what users put into the settings of their agents
          Proc,       \* running forge commands
          Installed,  \* the sets of agents that a machine may have
          MaxRuns,    \* commands that are started
          MaxChanges, \* changes made by anyone but Forge
          MaxFaults   \* writes declined, refused or cut short

ASSUME PathsAssumption == /\ Unstable \subseteq Bin
                          /\ Managed \subseteq Bin
                          /\ PathBin \in Bin \ Unstable
                          /\ Managed # {}

Agents == <<"claude", "gemini", "codex", "opencode", "antigravity">>
AgentSet == {"claude", "gemini", "codex", "opencode", "antigravity"}

ASSUME MachinesAssumption == /\ Installed \subseteq SUBSET AgentSet
                             /\ MaxRuns \in Nat /\ MaxChanges \in Nat /\ MaxFaults \in Nat

FilesOf == [claude      |-> <<"claude/settings">>,
            gemini      |-> <<"gemini/settings">>,
            codex       |-> <<"codex/config", "codex/skill">>,
            opencode    |-> <<"opencode/config", "opencode/plugin">>,
            antigravity |-> <<"antigravity/mcp", "antigravity/hooks">>]

FilesIn(a) == {FilesOf[a][i] : i \in DOMAIN FilesOf[a]}
File == UNION {FilesIn(a) : a \in AgentSet}
AgentOf(f) == CHOOSE a \in AgentSet : f \in FilesIn(a)

HookFile == {"claude/settings", "gemini/settings"}
ServerFile == {"opencode/config", "antigravity/mcp", "codex/config"}
WholeFile == {"codex/skill", "opencode/plugin"}

(***************************************************************************)
(* A settings file: whether it exists and parses, the path of its MCP      *)
(* server, its hooks for the event and for the start of a session, and     *)
(* what else its user keeps in it.  A hook is a group of commands; a       *)
(* command of a user may run a forge binary as well.                       *)
(***************************************************************************)
None == "none"
Command == [by : {"forge", "user"}, name : Mine \cup {"hook"}, bin : Bin \cup {None}]
Hook == (SUBSET Command) \ {{}}

Empty(kind) == [kind |-> kind, mcp |-> None, event |-> <<>>, start |-> <<>>, mine |-> {}]
ForgeHook(b) == {[by |-> "forge", name |-> "hook", bin |-> b]}
UserHook(m, b) == {[by |-> "user", name |-> m, bin |-> b]}

VARIABLES version,   \* what is installed at each path; 0 for nothing
          file,      \* the settings files
          unit,      \* the binary that the service runs
          detected,  \* the agents that are installed
          run,       \* the running commands
          owed,      \* what users have put into a file and may expect to find there
          settled,   \* the command that ended last, if nothing went wrong and nothing changed since
          runs, changes, faults

vars == <<version, file, unit, detected, run, owed, settled, runs, changes, faults>>
counters == <<runs, changes, faults>>

Idle == [pc |-> "idle", cmd |-> None, exe |-> None, todo |-> <<>>,
         snap |-> Empty("absent"), clean |-> TRUE]
Unsettled == [cmd |-> None, exe |-> None]

-----------------------------------------------------------------------------
(* Paths. *)

(* The path that is registered is not that of a build artifact. *)
ForgePath(exe) == IF exe \notin Unstable THEN exe ELSE PathBin

(* One file, reached by another path or copied to it, is one binary. *)
Equivalent(b, current) ==
    \/ b = current
    \/ version[b] # 0 /\ version[b] = version[current]

CommandsOf(hooks) == UNION {hooks[i] : i \in DOMAIN hooks}

codexMCPForgeCommand(c) == c.mcp

ForgeServer(b) == [by |-> "forge", name |-> "hook", bin |-> b]

(* The commands and the servers whose paths the check of forge start reads;
   it does not look at the servers that the files with hooks register, nor
   into antigravity's server file. *)
Scanned(f, c) ==
    IF c.kind # "json" THEN {}
    ELSE IF f = "codex/config" THEN {ForgeServer(codexMCPForgeCommand(c))}
    ELSE IF f = "opencode/config" THEN {ForgeServer(c.mcp)}
    ELSE CommandsOf(c.event) \cup CommandsOf(c.start)

StaleIn(f, current) ==
    {c \in Scanned(f, file[f]) : c.bin # None /\ ~Equivalent(c.bin, current)}

checkAndRepairIntegrationPaths(current) == \E f \in File : StaleIn(f, current) # {}

-----------------------------------------------------------------------------
(* What is written. *)

Owned(hook) == \E c \in hook : c.by = "forge"

\* A mutant: the hook of an older binary is not recognised.
UpsertHookAppends(hooks, new) ==
    IF \E i \in DOMAIN hooks : hooks[i] = new THEN hooks ELSE Append(hooks, new)

(* The members of a list that are not in S, in their order. *)
Without(list, S) ==
    LET upto[i \in 0..Len(list)] ==
            IF i = 0 THEN <<>>
            ELSE IF list[i] \in S THEN upto[i - 1] ELSE Append(upto[i - 1], list[i])
    IN upto[Len(list)]

(* The new hook takes the place of the first of Forge's, the others go. *)
UpsertHook(hooks, new) ==
    LET ours == {i \in DOMAIN hooks : Owned(hooks[i])}
        Place(i) == IF i \notin ours THEN hooks[i]
                    ELSE IF i = Min(ours) THEN new ELSE {}
    IN IF ours = {} THEN Append(hooks, new)
       ELSE Without([i \in DOMAIN hooks |-> Place(i)], {{}})

(* A file that does not parse is taken for an empty one. *)
Parsed(c) == IF c.kind = "json" THEN c ELSE Empty("json")

(* Gemini's hooks have no environment: a command is Forge's by its text, wherever
   its binary is. *)
upsertCommandHookArray(hooks, new) == UpsertHook(hooks, new)

setupClaude(c, b) == [Parsed(c) EXCEPT !.mcp = b, !.event = UpsertHook(@, ForgeHook(b))]
setupGemini(c, b) == [Parsed(c) EXCEPT !.mcp = b,
                                       !.event = upsertCommandHookArray(@, ForgeHook(b))]

(* codex edits its own settings; the skill is written as a whole. *)
registerCodexMCP(c, b) == [Parsed(c) EXCEPT !.mcp = b]
setupCodex(b) == [Empty("json") EXCEPT !.event = <<ForgeHook(b)>>]

setupOpencode(c, b) == [Parsed(c) EXCEPT !.mcp = b]
opencodePlugin(b) == [Empty("json") EXCEPT !.event = <<ForgeHook(b)>>]

(* Antigravity's hooks are Forge's under a key of its own, those of others under theirs. *)
antigravityServer(c, b) == [Parsed(c) EXCEPT !.mcp = b]
antigravityHooks(c, b) == [Parsed(c) EXCEPT !.event = <<ForgeHook(b)>>]

\* A mutant: Forge's hook replaces all the hooks of its event.
SetupReplaces(f, c, b) ==
    IF f \in ServerFile THEN registerCodexMCP(c, b)
    ELSE [Parsed(c) EXCEPT !.mcp = IF f \in HookFile THEN b ELSE @, !.event = <<ForgeHook(b)>>]

Setup(f, c, b) ==
    CASE f = "claude/settings"   -> setupClaude(c, b)
      [] f = "gemini/settings"   -> setupGemini(c, b)
      [] f = "codex/config"      -> registerCodexMCP(c, b)
      [] f = "codex/skill"       -> setupCodex(b)
      [] f = "opencode/config"   -> setupOpencode(c, b)
      [] f = "opencode/plugin"   -> opencodePlugin(b)
      [] f = "antigravity/mcp"   -> antigravityServer(c, b)
      [] f = "antigravity/hooks" -> antigravityHooks(c, b)

(* What a user has in a file: settings, and commands in hooks. *)
MineIn(c) == c.mine \cup {x.name : x \in {y \in CommandsOf(c.event) \cup CommandsOf(c.start) :
                                             y.by = "user"}}

(* A command that shares a hook with one of Forge's goes with it. *)
Shared(c) == {x.name : x \in UNION {h \in {c.event[i] : i \in DOMAIN c.event} : Owned(h)}}

-----------------------------------------------------------------------------
(* An installation as older versions may have left it, and a fresh one. *)
Before(kind, f) ==
    LET old == CHOOSE b \in Managed : TRUE
        hooks == CASE kind = "new" -> <<>>
                   [] kind = "moved" -> <<ForgeHook(old), ForgeHook(old)>>
                   [] kind = "old" -> <<ForgeHook(old)>>
    IN IF kind = "new" THEN Empty("absent")
       ELSE [kind  |-> "json",
             mcp   |-> IF f \in HookFile \cup ServerFile THEN old ELSE None,
             event |-> IF f \in ServerFile THEN <<>> ELSE IF f \in HookFile THEN hooks ELSE <<ForgeHook(old)>>,
             start |-> IF f \in HookFile /\ kind = "old" THEN <<ForgeHook(old)>> ELSE <<>>,
             mine  |-> {}]

Init == /\ version \in [Bin -> 1..2] /\ \A b \in Unstable \cup {PathBin} : version[b] = 1
        /\ \E kind \in {"new", "moved", "old"} : file = [f \in File |-> Before(kind, f)]
        /\ unit \in Managed \cup {None}
        /\ detected \in Installed
        /\ run = [p \in Proc |-> Idle]
        /\ owed = [f \in File |-> {}]
        /\ settled = Unsettled
        /\ runs = 0 /\ changes = 0 /\ faults = 0

(* Whoever changes a file, a binary or an agent disturbs the other commands. *)
Disturbed(ps) == [p \in Proc |-> IF p \in ps THEN [run[p] EXCEPT !.clean = FALSE] ELSE run[p]]

-----------------------------------------------------------------------------
(* The commands. *)

Todo(agents) ==
    LET Of(i) == IF Agents[i] \in agents THEN FilesOf[Agents[i]] ELSE <<>>
    IN Of(1) \o Of(2) \o Of(3) \o Of(4) \o Of(5)

(* A binary that is installed is run: forge init, sync-integrations, start. *)
Begin(p, cmd, exe) ==
    /\ run[p].pc = "idle" /\ runs < MaxRuns
    /\ version[exe] # 0
    /\ run' = [run EXCEPT ![p] = [Idle EXCEPT !.cmd = cmd, !.exe = exe,
                                              !.pc = IF cmd = "init" THEN "sync" ELSE "scan"]]
    /\ runs' = runs + 1
    /\ UNCHANGED <<version, file, unit, detected, owed, settled, changes, faults>>

(* forge sync-integrations looks for stale paths first, and syncs again afterwards. *)
Scan(p) ==
    /\ run[p].pc = "scan"
    /\ run' = [run EXCEPT ![p].pc =
                 IF checkAndRepairIntegrationPaths(ForgePath(run[p].exe)) \/ run[p].cmd = "sync"
                 THEN "sync" ELSE "service"]
    /\ UNCHANGED <<version, file, unit, detected, owed, settled, counters>>

syncIntegrations(p) ==
    /\ run[p].pc = "sync"
    /\ run' = [run EXCEPT ![p].pc = "read", ![p].todo = Todo(detected)]
    /\ UNCHANGED <<version, file, unit, detected, owed, settled, counters>>

Read(p) ==
    /\ run[p].pc = "read" /\ run[p].todo # <<>>
    /\ run' = [run EXCEPT ![p].pc = "write", ![p].snap = file[Head(run[p].todo)]]
    /\ UNCHANGED <<version, file, unit, detected, owed, settled, counters>>

Went(p, todo, clean) ==
    [run[p] EXCEPT !.pc = "read", !.todo = todo, !.snap = Idle.snap, !.clean = @ /\ clean]

(* WriteFileConfirm: nothing is written when nothing changes.  codex/config is
   written by codex itself, which is asked to register the server. *)
Write(p) ==
    LET f == Head(run[p].todo)
        before == IF f = "codex/config" THEN file[f] ELSE run[p].snap
        c == Setup(f, before, ForgePath(run[p].exe))
    IN
    /\ run[p].pc = "write"
    /\ IF file[f] = c
       THEN /\ run' = [run EXCEPT ![p] = Went(p, Tail(run[p].todo), TRUE)]
            /\ UNCHANGED <<file, owed, settled>>
       ELSE /\ file' = [file EXCEPT ![f] = c]
            /\ owed' = [owed EXCEPT ![f] =
                          IF before.kind = "json"
                          THEN @ \cap (MineIn(before) \ Shared(before)) ELSE {}]
            /\ run' = [Disturbed(Proc \ {p}) EXCEPT ![p] = Went(p, Tail(run[p].todo), TRUE)]
            /\ settled' = Unsettled
    /\ UNCHANGED <<version, unit, detected, counters>>

(* A user declines the change: Forge goes on as if it were made.  The write is
   refused: the agent's other files are left alone. *)
Refused(p) ==
    LET f == Head(run[p].todo)
        rest == IF f = "codex/config" THEN Tail(run[p].todo)
                ELSE Without(Tail(run[p].todo), FilesIn(AgentOf(f)))
    IN
    /\ run[p].pc = "write" /\ faults < MaxFaults
    /\ \E todo \in {Tail(run[p].todo), rest} :
          run' = [run EXCEPT ![p] = Went(p, todo, FALSE)]
    /\ faults' = faults + 1
    /\ UNCHANGED <<version, file, unit, detected, owed, settled, runs, changes>>

(* os.WriteFile empties the file before it writes: a command that ends in between
   leaves it so.  A command may end anywhere else, too. *)
Die(p) ==
    /\ run[p].pc # "idle" /\ faults < MaxFaults
    /\ \/ file' = file
       \/ /\ run[p].pc = "write" /\ Head(run[p].todo) # "codex/config"
          /\ file' = [file EXCEPT ![Head(run[p].todo)] = Empty("broken")]
    /\ owed' = [f \in File |-> IF file'[f] = file[f] THEN owed[f] ELSE {}]
    /\ run' = [Disturbed(Proc \ {p}) EXCEPT ![p] = Idle]
    /\ settled' = Unsettled
    /\ faults' = faults + 1
    /\ UNCHANGED <<version, unit, detected, runs, changes>>

Finished(p) ==
    /\ run' = [run EXCEPT ![p] = Idle]
    /\ settled' = IF run[p].clean THEN [cmd |-> run[p].cmd, exe |-> run[p].exe] ELSE Unsettled

SyncEnds(p) ==
    /\ run[p].pc = "read" /\ run[p].todo = <<>>
    /\ IF run[p].cmd = "start"
       THEN run' = [run EXCEPT ![p].pc = "service"] /\ UNCHANGED settled
       ELSE Finished(p)
    /\ UNCHANGED <<version, file, unit, detected, owed, counters>>

(* forge start compares the path in the service file with its own; a service that
   names another binary is removed, then installed. *)
RepairService(p) ==
    /\ run[p].pc = "service"
    /\ IF unit \in {None, run[p].exe}
       THEN Finished(p) /\ UNCHANGED unit
       ELSE /\ unit' = None
            /\ run' = [Disturbed(Proc \ {p}) EXCEPT ![p].pc = "install"]
            /\ settled' = Unsettled
    /\ UNCHANGED <<version, file, detected, owed, counters>>

InstallService(p) ==
    /\ run[p].pc = "install"
    /\ unit' = run[p].exe
    /\ run' = [Disturbed(Proc \ {p}) EXCEPT ![p] = Idle]
    /\ settled' = IF run[p].clean THEN [cmd |-> run[p].cmd, exe |-> run[p].exe] ELSE Unsettled
    /\ UNCHANGED <<version, file, detected, owed, counters>>

(* forge doctor --repair removes the binaries of other versions. *)
DoctorRepair(exe) ==
    /\ runs < MaxRuns /\ version[exe] # 0
    /\ LET active == ForgePath(exe) IN
       version' = [b \in Bin |-> IF b \in Managed /\ b # active /\ version[b] # version[active]
                                 THEN 0 ELSE version[b]]
    /\ version' # version
    /\ run' = Disturbed(Proc) /\ settled' = Unsettled
    /\ runs' = runs + 1
    /\ UNCHANGED <<file, unit, detected, owed, changes, faults>>

(* forge service-install and forge service-uninstall. *)
ServiceCommand(exe) ==
    /\ runs < MaxRuns /\ version[exe] # 0
    /\ unit' = IF unit = None THEN exe ELSE None
    /\ run' = Disturbed(Proc) /\ settled' = Unsettled
    /\ runs' = runs + 1
    /\ UNCHANGED <<version, file, detected, owed, changes, faults>>

-----------------------------------------------------------------------------
(* Everybody else. *)

Changed == /\ changes < MaxChanges
           /\ changes' = changes + 1
           /\ run' = Disturbed(Proc) /\ settled' = Unsettled

(* A user, or the agent, adds a setting, a hook of its own, or a command to a hook
   of Forge's. *)
Edit(f, m, b) ==
    /\ Changed
    /\ AgentOf(f) \in detected /\ f \notin WholeFile
    /\ file[f].kind = "json" /\ m \notin MineIn(file[f])
    /\ \/ file' = [file EXCEPT ![f].mine = @ \cup {m}]
       \/ f \in HookFile /\ file' = [file EXCEPT ![f].event = Append(@, UserHook(m, b))]
       \/ /\ f \in HookFile /\ file[f].event # <<>>
          /\ file' = [file EXCEPT ![f].event[1] = @ \cup UserHook(m, b)]
    /\ owed' = [owed EXCEPT ![f] = @ \cup {m}]
    /\ UNCHANGED <<version, unit, detected, runs, faults>>

(* A binary is installed, upgraded or removed. *)
Upgrade(b, v) ==
    /\ Changed
    /\ version[b] # v /\ version' = [version EXCEPT ![b] = v]
    /\ version'[PathBin] # 0
    /\ UNCHANGED <<file, unit, detected, owed, runs, faults>>

(* An agent leaves the machine; its settings stay. *)
Leave(a) ==
    /\ Changed
    /\ a \in detected /\ detected' = detected \ {a}
    /\ UNCHANGED <<version, file, unit, owed, runs, faults>>

Next ==
    \/ \E p \in Proc : \/ \E cmd \in {"init", "sync", "start"}, exe \in Bin : Begin(p, cmd, exe)
                       \/ Scan(p) \/ syncIntegrations(p) \/ Read(p) \/ Write(p) \/ Refused(p)
                       \/ Die(p) \/ SyncEnds(p) \/ RepairService(p) \/ InstallService(p)
    \/ \E exe \in Bin : DoctorRepair(exe) \/ ServiceCommand(exe)
    \/ \E f \in File, m \in Mine, b \in Managed \cup {None} : Edit(f, m, b)
    \/ \E b \in Bin \ Unstable, v \in 0..2 : Upgrade(b, v)
    \/ \E a \in AgentSet : Leave(a)

Spec == Init /\ [][Next]_vars

-----------------------------------------------------------------------------
(* Properties. *)

Content == [kind : {"absent", "json", "broken"}, mcp : Bin \cup {None},
            event : Seq(Hook), start : Seq(Hook), mine : SUBSET Mine]

TypeOK ==
    /\ version \in [Bin -> 0..2]
    /\ file \in [File -> Content]
    /\ unit \in Bin \cup {None}
    /\ detected \subseteq AgentSet
    /\ run \in [Proc -> [pc : {"idle", "scan", "sync", "read", "write", "service", "install"},
                        cmd : {"init", "sync", "start", None}, exe : Bin \cup {None},
                        todo : Seq(File), snap : Content, clean : BOOLEAN]]
    /\ owed \in [File -> SUBSET Mine]
    /\ settled \in [cmd : {"init", "sync", "start", None}, exe : Bin \cup {None}]
    /\ runs \in 0..MaxRuns /\ changes \in 0..MaxChanges /\ faults \in 0..MaxFaults

(* What a user put into a settings file stays there, however many commands of
   whichever binaries rewrite it: unless the file was edited between a command's
   reading and its writing it, did not parse, or the user's command was in a hook
   together with Forge's (upsertHookArray, setupClaude, setupGemini, setupOpencode,
   setupAntigravity). *)
MineKept == \A f \in File : owed[f] \subseteq MineIn(file[f])

(* A command during which nothing failed and nobody else changed anything leaves no
   stale path where forge start looks for one, except in the settings of agents
   that are not detected, in a user's own commands, and in the SessionStart hooks
   of older versions; forge start also leaves no service of another binary, and
   forge init and sync-integrations leave exactly one hook for an event. *)
RepairReaches ==
    LET current == ForgePath(settled.exe) IN
    settled # Unsettled =>
        /\ \A f \in File : \A c \in StaleIn(f, current) :
              \/ AgentOf(f) \notin detected
              \/ c.by = "user"
              \/ c \in CommandsOf(file[f].start)
        /\ settled.cmd = "start" => unit \in {None, settled.exe}
        /\ settled.cmd # "start" =>
              \A f \in HookFile : AgentOf(f) \in detected =>
                  Cardinality({i \in DOMAIN file[f].event : Owned(file[f].event[i])}) = 1
=============================================================================
