----------------------------- MODULE SigningKeys -----------------------------
(***************************************************************************)
(* The key principles are sealed with: where it is kept (the keychain of   *)
(* the system, or the file ~/.forge/forge.key), how a process finds or     *)
(* creates it, and how "forge harden rotate-key" replaces it and seals the *)
(* stored principles again.                                                *)
(*                                                                         *)
(* Every call to the keychain, every access to the key file and every      *)
(* statement or transaction of the database is a step, which includes what *)
(* it does to the marker; a process may end between any two of them, and a *)
(* write of the file may fail.  The feature is enabled in every process    *)
(* (FORGE_DISABLE_KEY is not set).                                         *)
(***************************************************************************)
EXTENDS Naturals, FiniteSets

CONSTANTS
  Proc,        \* the processes of forge
  Rotator,     \* those that may run "forge harden rotate-key"
  Principle,   \* the stored principles
  MaxKeys,     \* a bound on the keys generated
  MaxWrites,   \* a bound on the texts written, with the damage done to them
  MaxMishaps   \* a bound on ends of processes, failed writes, and the keychain's moves

ASSUME RotatorAssumption == Rotator \subseteq Proc
ASSUME BoundsAssumption == MaxKeys \in Nat \ {0, 1} /\ MaxWrites \in Nat /\ MaxMishaps \in Nat

NoKey == 0
Key == 1..MaxKeys
\* A file that is no key of 32 bytes; a narrative that no key opens.
Garbage == MaxKeys + 1
Version == 0..MaxWrites
Nobody == "nobody"
Orphan == "orphan"
ASSUME HolderAssumption == Nobody \notin Proc /\ Orphan \notin Proc

\* What is stored of a principle: the key its narrative is encrypted with, NoKey
\* for plaintext, and a signature: under which key and over which content.
Unsigned == [key |-> NoKey, title |-> 0, narrative |-> 0]
Signature == {Unsigned} \cup [key : Key, title : Version, narrative : Version]
SealedRow == [title : Version, narrative : Version, key : Key \cup {NoKey, Garbage},
              sig : Signature, status : {"absent", "active", "revoked"}]
Unwritten == [title |-> 0, narrative |-> 0, key |-> NoKey, sig |-> Unsigned, status |-> "absent"]

VARIABLES
  chain,       \* the key in the keychain
  up,          \* the keychain answers in time
  late,        \* keys of calls to the keychain that were given up but may still land
  keyFile,     \* what is in the file
  marker,      \* the marker "keychain-unavailable", less than ten minutes old
  probe,       \* who holds the probe lock, Orphan when its holder is gone
  proc,        \* per process, what it does and the key it has
  sealed,      \* the table of principles
  keys, writes, mishaps,
  trusted,     \* history: per principle, the contents that forge wrote, or that
               \* were in the row while it had no signature
  retired,     \* history: the keys replaced by a rotation the keychain took part in
  causes       \* history: what may have made two keys be in use

storage == <<chain, up, late, keyFile, marker>>
counters == <<keys, writes, mishaps>>
history == <<trusted, retired, causes>>
keyVars == <<storage, probe, proc, sealed, counters, history>>

Idle == [at |-> "idle", doing |-> "use", key |-> NoKey, new |-> NoKey,
         snap |-> [r \in Principle |-> Unwritten]]
At(p) == proc[p].at
Fresh == keys + 1

KeysInit ==
  /\ chain \in {NoKey, 1} /\ keyFile \in {NoKey, 2} /\ up \in BOOLEAN
  /\ late = {} /\ marker = FALSE /\ probe = Nobody
  /\ proc = [p \in Proc |-> Idle]
  /\ sealed = [r \in Principle |-> Unwritten]
  /\ keys = 2 /\ writes = 0 /\ mishaps = 0
  /\ trusted = [r \in Principle |-> {}] /\ retired = {} /\ causes = {}

(* --------------------------- sealed content --------------------------- *)

Sign(key, title, narrative) ==
  IF key = NoKey THEN Unsigned ELSE [key |-> key, title |-> title, narrative |-> narrative]

\* sealPrincipleContent: Encrypt and Sign under one key, or neither without one.
Seal(title, narrative, key) ==
  [title |-> title, narrative |-> narrative, key |-> key,
   sig |-> Sign(key, title, narrative), status |-> "active"]

\* scanPrinciples keeps a row: Decrypt opens it, plaintext as it is, and Verify
\* accepts it, unless there is no signature or no key to look at it with.
Opens(row, key) ==
  /\ row.key \in {NoKey, key}
  /\ \/ key = NoKey \/ row.sig = Unsigned
     \/ row.sig = Sign(key, row.title, row.narrative)

(* --------------------------- GetOrCreateKey --------------------------- *)

\* The process asks for the key: for its own use, or before it rotates it.
\* With a recent marker, or while another process probes, it takes the file.
GetOrCreateKey(p, doing) ==
  /\ At(p) = "idle"
  /\ LET ask == ~marker /\ probe = Nobody IN
     /\ proc' = [proc EXCEPT ![p] = [Idle EXCEPT !.doing = doing,
                                       !.at = IF ask THEN "get" ELSE "read"]]
     /\ probe' = IF ask THEN p ELSE probe
     /\ causes' = IF ~ask /\ ~marker /\ up THEN causes \cup {"peer"} ELSE causes
  /\ UNCHANGED <<storage, sealed, counters, trusted, retired>>

\* The key is found: the probe lock is released, and the caller goes on.
Found(p, key) ==
  /\ proc' = [proc EXCEPT ![p].at = IF proc[p].doing = "use" THEN "ready" ELSE "rotate",
                          ![p].key = key, ![p].new = NoKey]
  /\ probe' = IF probe = p THEN Nobody ELSE probe

\* keyringGetWithTimeout, in time.
KeyringGet(p) ==
  /\ At(p) = "get" /\ up /\ chain # NoKey
  /\ Found(p, chain)
  /\ marker' = FALSE
  /\ UNCHANGED <<chain, up, late, keyFile, sealed, counters, history>>

\* There is no entry, or no answer: both are a reason to generate a key.
KeyringGetFails(p) ==
  /\ At(p) = "get" /\ (up => chain = NoKey)
  /\ keys < MaxKeys /\ keys' = Fresh
  /\ proc' = [proc EXCEPT ![p].at = "set", ![p].new = Fresh]
  /\ UNCHANGED <<storage, probe, sealed, writes, mishaps, history>>

\* keyringSetWithTimeout stores what was generated.
KeyringSet(p) ==
  /\ At(p) = "set" /\ up
  /\ chain' = proc[p].new /\ marker' = FALSE
  /\ Found(p, proc[p].new)
  /\ UNCHANGED <<up, late, keyFile, sealed, counters, history>>

\* A mutant: the key is used although it was not stored.
KeyringSetUnchecked(p) ==
  /\ At(p) = "set" /\ ~up
  /\ marker' = TRUE
  /\ late' \in {late, late \cup {proc[p].new}}
  /\ Found(p, proc[p].new)
  /\ UNCHANGED <<chain, up, keyFile, sealed, counters, history>>

\* It fails, or is given up: then the call may still store the key later.
KeyringSetFails(p) ==
  /\ At(p) = "set" /\ ~up
  /\ marker' = TRUE
  /\ late' \in {late, late \cup {proc[p].new}}
  /\ proc' = [proc EXCEPT ![p].at = "read", ![p].new = NoKey]
  /\ UNCHANGED <<chain, up, keyFile, probe, sealed, counters, history>>

\* The fallback: the key of the file, if there is one.
ReadKeyFile(p) ==
  /\ At(p) = "read"
  /\ \/ keyFile \in Key /\ Found(p, keyFile)
     \/ keyFile \notin Key /\ proc' = [proc EXCEPT ![p].at = "write"] /\ probe' = probe
  /\ UNCHANGED <<storage, sealed, counters, history>>

\* Otherwise a new one is written, over what another process wrote meanwhile.
WriteKeyFile(p) ==
  /\ At(p) = "write"
  /\ keys < MaxKeys /\ keys' = Fresh
  /\ keyFile' = Fresh
  /\ causes' = IF keyFile \in Key THEN causes \cup {"race"} ELSE causes
  /\ Found(p, Fresh)
  /\ UNCHANGED <<chain, up, late, marker, sealed, writes, mishaps, trusted, retired>>

\* The write fails, before or after os.WriteFile truncated the file.  hmacKey goes
\* on without a key, forge harden rotate-key ends.
KeyFileFails(p) ==
  /\ At(p) = "write" /\ mishaps < MaxMishaps /\ mishaps' = mishaps + 1
  /\ keyFile' \in {keyFile, Garbage}
  /\ proc' = [proc EXCEPT ![p] = [Idle EXCEPT
                 !.at = IF proc[p].doing = "use" THEN "ready" ELSE "idle"]]
  /\ probe' = IF probe = p THEN Nobody ELSE probe
  /\ causes' = causes \cup {"keyless"}
  /\ UNCHANGED <<chain, up, late, marker, sealed, keys, writes, trusted, retired>>

(* ----------------------------- principles ----------------------------- *)

\* InsertPrinciple and UpdatePrincipleText, in a process that has asked for its
\* key; one that got none stores plaintext without a signature.
WritePrinciple(p, r) ==
  /\ At(p) = "ready" /\ writes < MaxWrites /\ writes' = writes + 1
  /\ sealed' = [sealed EXCEPT ![r] =
                [Seal(writes', writes', proc[p].key) EXCEPT
                   !.status = IF sealed[r].status = "absent" THEN "active" ELSE sealed[r].status]]
  /\ trusted' = [trusted EXCEPT ![r] = @ \cup {<<writes', writes'>>}]
  /\ UNCHANGED <<storage, probe, proc, keys, mishaps, retired, causes>>

RevokePrinciple(p, r) ==
  /\ At(p) = "ready" /\ sealed[r].status = "active"
  /\ sealed' = [sealed EXCEPT ![r].status = "revoked"]
  /\ UNCHANGED <<storage, probe, proc, counters, history>>

\* The process is done with its work.
Exit(p) ==
  /\ At(p) = "ready"
  /\ proc' = [proc EXCEPT ![p] = Idle]
  /\ UNCHANGED <<storage, probe, sealed, counters, history>>

(* ------------------------------ rotation ------------------------------ *)

\* RotateKey generates a key and stores it in the keychain, unless the marker
\* is there or the keychain does not take it.  What it replaces there, and the
\* key it started from, are retired from now on.
RotateKey(p) ==
  /\ At(p) = "rotate"
  /\ keys < MaxKeys /\ keys' = Fresh
  /\ LET stored == ~marker /\ up IN
     /\ chain' = IF stored THEN Fresh ELSE chain
     /\ marker' = ~stored
     /\ late' \in IF stored \/ marker THEN {late} ELSE {late, late \cup {Fresh}}
     /\ proc' = [proc EXCEPT ![p].at = IF stored THEN "refresh" ELSE "replace", ![p].new = Fresh]
     /\ retired' = IF stored THEN retired \cup ({proc[p].key, chain} \ {NoKey}) ELSE retired
     /\ causes' = causes \cup {"rotation"}
  /\ UNCHANGED <<up, keyFile, probe, sealed, writes, mishaps, trusted>>

\* A mutant: a key in the keychain needs no file.
RefreshNothing(p) ==
  /\ At(p) \in {"refresh", "replace"}
  /\ keyFile' = IF At(p) = "replace" THEN proc[p].new ELSE keyFile
  /\ proc' = [proc EXCEPT ![p].at = "list"]
  /\ UNCHANGED <<chain, up, late, marker, probe, sealed, counters, history>>

\* It refreshes the file, when there is one or the keychain did not take the key.
RefreshKeyFile(p) ==
  /\ At(p) \in {"refresh", "replace"}
  /\ keyFile' = IF At(p) = "replace" \/ keyFile # NoKey THEN proc[p].new ELSE keyFile
  /\ proc' = [proc EXCEPT ![p].at = "list"]
  /\ UNCHANGED <<chain, up, late, marker, probe, sealed, counters, history>>

\* A rotation that ends before the file is refreshed, when the keychain has the
\* new key already, is cut short.
CutShort(p) == IF At(p) = "refresh" THEN causes \cup {"cut"} ELSE causes

\* The write fails, before or after the file was truncated: the command ends, and
\* no row is signed again.
RefreshFails(p) ==
  /\ At(p) = "replace" \/ (At(p) = "refresh" /\ keyFile # NoKey)
  /\ mishaps < MaxMishaps /\ mishaps' = mishaps + 1
  /\ keyFile' \in {keyFile, Garbage}
  /\ proc' = [proc EXCEPT ![p] = Idle]
  /\ causes' = CutShort(p)
  /\ UNCHANGED <<chain, up, late, marker, probe, sealed, keys, writes, trusted, retired>>

\* ResignAllPrinciples reads every row before its transaction begins.
ListPrinciples(p) ==
  /\ At(p) = "list"
  /\ proc' = [proc EXCEPT ![p].at = "resign", ![p].snap = sealed]
  /\ UNCHANGED <<storage, probe, sealed, counters, history>>

\* A mutant: every row is signed again as it is.
ResignUnverified(row, snap, old, new) ==
  IF snap.status = "absent" THEN row
  ELSE [row EXCEPT !.narrative = snap.narrative, !.key = new,
                   !.sig = Sign(new, snap.title, snap.narrative)]

\* A row that does not open or verify under the old key is revoked; another, and
\* one that has no signature, gets the narrative that was read, sealed with the new
\* key.  Its title is not written.
Resign(row, snap, old, new) ==
  IF snap.status = "absent" THEN row
  ELSE IF ~Opens(snap, old) THEN [row EXCEPT !.status = "revoked"]
  ELSE [row EXCEPT !.narrative = snap.narrative, !.key = new,
                   !.sig = Sign(new, snap.title, snap.narrative)]

\* The transaction of ResignAllPrinciples, and the end of the command.
ResignAllPrinciples(p) ==
  /\ At(p) = "resign"
  /\ sealed' = [r \in Principle |-> Resign(sealed[r], proc[p].snap[r], proc[p].key, proc[p].new)]
  /\ proc' = [proc EXCEPT ![p] = Idle]
  /\ UNCHANGED <<storage, probe, counters, history>>

(* --------------------------- the environment -------------------------- *)

\* The marker is ten minutes old.
MarkerExpires ==
  /\ marker /\ marker' = FALSE
  /\ UNCHANGED <<chain, up, late, keyFile, probe, proc, sealed, counters, history>>

\* A store that was given up lands.
LateStore(k) ==
  /\ k \in late /\ late' = late \ {k}
  /\ chain' = k
  /\ causes' = causes \cup {"slow"}
  /\ UNCHANGED <<up, keyFile, marker, probe, proc, sealed, counters, trusted, retired>>

\* The keychain stops answering in time, or answers again.
KeychainMoves ==
  /\ mishaps < MaxMishaps /\ mishaps' = mishaps + 1
  /\ up' = ~up
  /\ causes' = causes \cup {"moved"}
  /\ UNCHANGED <<chain, late, keyFile, marker, probe, proc, sealed, keys, writes, trusted, retired>>

\* A process ends anywhere: the probe lock it holds stays.
Crash(p) ==
  /\ At(p) # "idle" /\ mishaps < MaxMishaps /\ mishaps' = mishaps + 1
  /\ proc' = [proc EXCEPT ![p] = Idle]
  /\ probe' = IF probe = p THEN Orphan ELSE probe
  /\ causes' = CutShort(p)
  /\ UNCHANGED <<storage, sealed, keys, writes, trusted, retired>>

Content(row) == <<row.title, row.narrative>>

\* Something else changes the row: its title, its narrative into a plaintext or
\* into what no key opens, or it loses its signature.
Damage(r) ==
  /\ sealed[r].status = "active" /\ writes < MaxWrites /\ writes' = writes + 1
  /\ \E row \in {[sealed[r] EXCEPT !.title = writes'],
                 [sealed[r] EXCEPT !.narrative = writes', !.key = NoKey],
                 [sealed[r] EXCEPT !.key = Garbage],
                 [sealed[r] EXCEPT !.sig = Unsigned]} :
       /\ sealed' = [sealed EXCEPT ![r] = row]
       /\ trusted' = IF row.sig = Unsigned THEN [trusted EXCEPT ![r] = @ \cup {Content(row)}]
                     ELSE trusted
  /\ UNCHANGED <<storage, probe, proc, keys, mishaps, retired, causes>>

Looks(p) ==
  \/ GetOrCreateKey(p, "use") \/ KeyringGet(p) \/ KeyringGetFails(p)
  \/ KeyringSet(p) \/ KeyringSetFails(p) \/ ReadKeyFile(p)
  \/ WriteKeyFile(p) \/ KeyFileFails(p)

Rotates(p) ==
  \/ p \in Rotator /\ GetOrCreateKey(p, "rotate")
  \/ RotateKey(p) \/ RefreshKeyFile(p) \/ RefreshFails(p) \/ ListPrinciples(p) \/ ResignAllPrinciples(p)

KeysNext ==
  \/ \E p \in Proc : Looks(p) \/ Rotates(p) \/ Exit(p) \/ Crash(p)
  \/ \E p \in Proc, r \in Principle : WritePrinciple(p, r) \/ RevokePrinciple(p, r)
  \/ \E r \in Principle : Damage(r)
  \/ MarkerExpires \/ KeychainMoves
  \/ \E k \in Key : LateStore(k)

KeysSpec == KeysInit /\ [][KeysNext]_keyVars

(* ------------------------------ properties ---------------------------- *)

\* Every variable keeps its type; the probe lock is held by at most one
\* process that may be talking to the keychain (GetOrCreateKey).
KeysTypeOK ==
  /\ chain \in Key \cup {NoKey} /\ keyFile \in Key \cup {NoKey, Garbage} /\ late \subseteq Key
  /\ up \in BOOLEAN /\ marker \in BOOLEAN /\ probe \in Proc \cup {Nobody, Orphan}
  /\ \A p \in Proc : /\ At(p) \in {"idle", "get", "set", "read", "write", "ready", "rotate",
                                   "refresh", "replace", "list", "resign"}
                     /\ proc[p].key \in Key \cup {NoKey} /\ proc[p].snap \in [Principle -> SealedRow]
                     /\ At(p) \in {"get", "set"} => probe = p
                     /\ At(p) \in {"ready", "rotate"} => probe # p
                     /\ At(p) = "rotate" => proc[p].key # NoKey
  /\ sealed \in [Principle -> SealedRow]
  /\ keys \in 0..MaxKeys /\ writes \in Version /\ mishaps \in 0..MaxMishaps

\* A row whose signature accepts its title and its narrative, or that has none.
Undamaged(row) ==
  row.key # Garbage /\ row.sig \in {Unsigned, Sign(row.sig.key, row.title, row.narrative)}

\* NothingDamagedIsSigned: a content that a signature accepts was written by
\* forge, title and narrative together, or was in the row while the row had no
\* signature: that is the only damage a rotation takes for sound, however it races
\* with writers and damage (ResignAllPrinciples verifies every row that has a
\* signature before it signs it, and trusts the others).
NothingDamagedIsSigned ==
  \A r \in Principle :
    sealed[r].sig # Unsigned /\ Opens(sealed[r], sealed[r].sig.key)
      => Content(sealed[r]) \in trusted[r]

\* RetiredStaysRetired: a key that a rotation replaced in the keychain does not
\* come back there, and is in the file only until that rotation has refreshed it,
\* unless a store that was given up lands later, or the rotation was cut short in
\* between (RotateKey refreshes the file too, "so a keychain that becomes
\* unavailable later doesn't resurrect the pre-rotation key").
RetiredStaysRetired ==
  "slow" \notin causes =>
    \A k \in retired : /\ k # chain
                      /\ k = keyFile => "cut" \in causes \/ \E p \in Proc : At(p) = "refresh"

\* NotResurrected: the same without the last exception, as the comment has it.
NotResurrected ==
  "slow" \notin causes =>
    \A k \in retired : k = keyFile => \E p \in Proc : At(p) = "refresh"

\* KeysAgree: every process that has asked for its key has the same one, and every
\* active row that nothing damaged opens under it, unless one of these happened: a
\* process used the file because another was probing the keychain, two processes
\* created the file or one could not, the keychain changed or answered late, the
\* key was rotated (GetOrCreateKey).
KeysAgree ==
  causes = {} =>
    \A p \in Proc : At(p) = "ready" =>
      /\ \A q \in Proc : At(q) = "ready" => proc[q].key = proc[p].key
      /\ \A r \in Principle : sealed[r].status = "active" /\ Undamaged(sealed[r])
                              => Opens(sealed[r], proc[p].key)

\* SealedVerifies: the same, when all that happened is that a process used the
\* file because another was probing.  key.go: "peers use the fallback while that
\* probe is in flight"; principles.go: "so a rewritten row keeps a signature
\* scanPrinciples can verify".
SealedVerifies ==
  causes \subseteq {"peer"} =>
    \A p \in Proc : At(p) = "ready" =>
      \A r \in Principle : sealed[r].status = "active" /\ Undamaged(sealed[r])
                           => Opens(sealed[r], proc[p].key)

\* RotationKeepsRows: a rotation leaves every row that verified under the old key
\* verifying under the new one.  principles.go: "used by `forge harden rotate-key`
\* right after the key itself rotates, so existing principles don't all start
\* failing".
RotationKeepsRows ==
  [][\A p \in Proc, r \in Principle :
       At(p) = "resign" /\ At(p)' = "idle" /\ mishaps' = mishaps
         /\ sealed[r].status = "active" /\ Opens(sealed[r], proc[p].key)
         => Opens(sealed[r]', proc[p].new)]_keyVars
==============================================================================
