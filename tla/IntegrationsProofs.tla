-------------------------- MODULE IntegrationsProofs --------------------------
(***************************************************************************)
(* Proofs about Integrations: its type, that what users keep in settings   *)
(* files stays there, and that an undisturbed command leaves no stale      *)
(* path.                                                                   *)
(***************************************************************************)
EXTENDS Integrations, FiniteSetTheorems, SequenceTheorems, WellFoundedInduction, TLAPS

-----------------------------------------------------------------------------
(* The inductive invariant. *)

Members(s) == {s[i] : i \in DOMAIN s}

(* What of a file only Forge writes. *)
ForgesPart(f, c) ==
    /\ f \in ServerFile => c.event = <<>>
    /\ f \notin HookFile => c.start = <<>> /\ \A x \in CommandsOf(c.event) : x.by = "forge"
    /\ f \in WholeFile => c.mine = {}

(* Every stale path that a setup of f could have replaced is gone: c is in the
   file, v is installed. *)
Repaired(f, c, v, current) ==
    \A x \in Scanned(f, c) :
       \/ x.bin = None \/ x.bin = current
       \/ v[x.bin] # 0 /\ v[x.bin] = v[current]
       \/ x.by = "user" \/ x \in CommandsOf(c.start)

OneHook(c) == \E i \in DOMAIN c.event : {j \in DOMAIN c.event : Owned(c.event[j])} = {i}

(* What a running command may rely on, and, as long as nothing disturbed it, what
   it has done by now, for the files F, the versions V and the agents D. *)
Going(r, F, V, D) ==
    /\ r.pc # "idle" => r.exe \in Bin /\ r.cmd # None
    /\ r.pc = "scan" => r.cmd \in {"sync", "start"}
    /\ r.pc \in {"service", "install"} => r.cmd = "start"
    /\ r.pc = "write" => r.todo # <<>> /\ ForgesPart(Head(r.todo), r.snap)
    /\ r.clean /\ r.pc \in {"read", "write"} =>
          \A f \in File : AgentOf(f) \in D /\ f \notin Members(r.todo) =>
             /\ Repaired(f, F[f], V, ForgePath(r.exe))
             /\ f \in HookFile => OneHook(F[f])
    /\ r.clean /\ r.pc \in {"service", "install"} =>
          \A f \in File : AgentOf(f) \in D => Repaired(f, F[f], V, ForgePath(r.exe))

(* What the command that ended last has left. *)
Ended(s, F, V, D, U) ==
    s # Unsettled =>
       /\ \A f \in File : AgentOf(f) \in D => Repaired(f, F[f], V, ForgePath(s.exe))
       /\ s.cmd = "start" => U \in {None, s.exe}
       /\ s.cmd # "start" => \A f \in HookFile : AgentOf(f) \in D => OneHook(F[f])

IInv ==
    /\ TypeOK
    /\ \A f \in File : ForgesPart(f, file[f])
    /\ \A p \in Proc : Going(run[p], file, version, detected)
    /\ MineKept
    /\ Ended(settled, file, version, detected, unit)

RunRecord == [pc : {"idle", "scan", "sync", "read", "write", "service", "install"},
              cmd : {"init", "sync", "start", None}, exe : Bin \cup {None},
              todo : Seq(File), snap : Content, clean : BOOLEAN]
Outcome == [cmd : {"init", "sync", "start", None}, exe : Bin \cup {None}]

-----------------------------------------------------------------------------
(* Numbers. *)

(* Among natural numbers there is a smallest one (WFMin of the library has
   no operator parameter, and so can be cited). *)
LEMMA NatMin ==
  ASSUME NEW T \in SUBSET Nat, T # {}
  PROVE  \E n \in T : \A m \in T : n <= m
<1> DEFINE R == OpToRel(<, Nat)
<1>1. IsWellFoundedOn(R, Nat)
  BY NatLessThanWellFounded
<1>2. \A i, j \in Nat : i < j => <<i, j>> \in R
  BY DEF OpToRel
<1> HIDE DEF R
<1>3. PICK x \in T : \A y \in T : ~ (<<y, x>> \in R)
  BY <1>1, WFMin, Zenon
<1>4. \A y \in T : x <= y
  <2> TAKE y \in T
  <2>1. ~ (<<y, x>> \in R)
    BY <1>3
  <2>2. x \in Nat /\ y \in Nat
    OBVIOUS
  <2>3. ~ (y < x)
    BY <2>1, <2>2, <1>2, Zenon
  <2> QED BY <2>2, <2>3
<1> QED BY <1>4

(* Induction over the natural numbers, with a set for the property. *)
LEMMA Induction ==
  ASSUME NEW T, 0 \in T, \A n \in Nat : n \in T => n + 1 \in T
  PROVE  \A n \in Nat : n \in T
<1> DEFINE Left == {n \in Nat : n \notin T}
<1> SUFFICES ASSUME Left # {} PROVE FALSE
  OBVIOUS
<1>1. PICK n \in Left : \A m \in Left : n <= m
  BY NatMin
<1>2. n # 0 /\ n - 1 \in Nat /\ n - 1 \in T
  BY <1>1
<1> QED BY <1>1, <1>2

-----------------------------------------------------------------------------
(* Lists.  Without is a recursive function: it has the value that its
   equation names, because the function exists for every length. *)

Fits(f, s, S, n) ==
    f = [i \in 0..n |-> IF i = 0 THEN <<>>
                        ELSE IF s[i] \in S THEN f[i - 1] ELSE Append(f[i - 1], s[i])]

Builds(upto, s, S) ==
    /\ DOMAIN upto = 0..Len(s)
    /\ upto[0] = <<>>
    /\ \A i \in 1..Len(s) :
          upto[i] = IF s[i] \in S THEN upto[i - 1] ELSE Append(upto[i - 1], s[i])
    /\ Without(s, S) = upto[Len(s)]

(* r lists the members of the first n of s that are not in S, which are at pos. *)
Places(pos, r, s, S, n) ==
    /\ pos \in [1..Len(r) -> {j \in 1..n : s[j] \notin S}]
    /\ \A j, k \in 1..Len(r) : pos[j] = pos[k] => j = k
    /\ \A j \in 1..n : s[j] \notin S => \E k \in 1..Len(r) : pos[k] = j
    /\ \A k \in 1..Len(r) : r[k] = s[pos[k]]

(* The function that Without builds its answer with exists, for any length. *)
LEMMA UptoExists ==
  ASSUME NEW s, NEW S
  PROVE  \A n \in Nat : \E f : Fits(f, s, S, n)
<1> DEFINE Body(f, i) == IF i = 0 THEN <<>>
            ELSE IF s[i] \in S THEN f[i - 1] ELSE Append(f[i - 1], s[i])
           T == {n \in Nat : \E f : f = [i \in 0..n |-> Body(f, i)]}
<1>1. 0 \in T
  <2>1. [i \in 0..0 |-> <<>>] = [i \in 0..0 |-> Body([j \in 0..0 |-> <<>>], i)]
    OBVIOUS
  <2> QED BY <2>1
<1>2. ASSUME NEW n \in Nat, n \in T PROVE n + 1 \in T
  <2>1. PICK f : f = [i \in 0..n |-> Body(f, i)]
    BY <1>2
  <2> DEFINE g == [i \in 0..(n + 1) |-> IF i = n + 1 THEN Body(f, n + 1) ELSE f[i]]
  <2>2. \A i \in 0..n : f[i] = Body(f, i)
    BY <2>1
  <2> HIDE DEF Body
  <2>3. ASSUME NEW i \in 0..(n + 1) PROVE Body(g, i) = Body(f, i)
    <3>1. i # 0 => g[i - 1] = f[i - 1]
      OBVIOUS
    <3> QED BY <3>1 DEF Body
  <2>4. ASSUME NEW i \in 0..(n + 1) PROVE g[i] = Body(g, i)
    <3>1. CASE i = n + 1 BY <3>1, <2>3
    <3>2. CASE i # n + 1 
      <4>1. i \in 0..n BY <3>2
      <4> QED BY <3>2, <4>1, <2>2, <2>3
    <3> QED BY <3>1, <3>2
  <2>5. g = [i \in 0..(n + 1) |-> g[i]]
    OBVIOUS
  <2>6. g = [i \in 0..(n + 1) |-> Body(g, i)]
    <3> HIDE DEF g
    <3> QED BY <2>4, <2>5
  <2>7. \E h : h = [i \in 0..(n + 1) |-> Body(h, i)]
    <3> HIDE DEF g
    <3> QED BY <2>6
  <2> QED BY <2>7
<1> HIDE DEF T
<1>3. \A n \in Nat : n \in T
  BY <1>1, <1>2, Induction
<1> QED BY <1>3 DEF T, Fits

(* Without conforms to its equation. *)
LEMMA WithoutUpto ==
  ASSUME NEW S, NEW A, NEW s \in Seq(A)
  PROVE  \E upto : Builds(upto, s, S)
<1> DEFINE u == CHOOSE f : Fits(f, s, S, Len(s))
<1>1. Len(s) \in Nat
  OBVIOUS
<1>2. \E f : Fits(f, s, S, Len(s))
  BY <1>1, UptoExists
<1>3. Fits(u, s, S, Len(s))
  BY <1>2
<1>4. Without(s, S) = u[Len(s)]
  BY DEF Without, Fits
<1> HIDE DEF u
<1>5. DOMAIN u = 0..Len(s)
  BY <1>3 DEF Fits
<1>6. u[0] = <<>>
  BY <1>3, <1>1 DEF Fits
<1>7. \A i \in 1..Len(s) : u[i] = IF s[i] \in S THEN u[i - 1] ELSE Append(u[i - 1], s[i])
  <2> TAKE i \in 1..Len(s)
  <2>1. i \in 0..Len(s) /\ i # 0
    BY <1>1
  <2>2. u[i] = IF i = 0 THEN <<>> ELSE IF s[i] \in S THEN u[i - 1] ELSE Append(u[i - 1], s[i])
    BY <2>1, <1>3, Zenon DEF Fits
  <2> QED BY <2>1, <2>2
<1>8. Builds(u, s, S)
  BY <1>4, <1>5, <1>6, <1>7 DEF Builds
<1> QED BY <1>8
(* One more member of the list keeps the places. *)
LEMMA PlacesNext ==
  ASSUME NEW A, NEW S, NEW s \in Seq(A), NEW n \in Nat, n + 1 \in 1..Len(s),
         NEW r \in Seq(A), NEW pos, Places(pos, r, s, S, n)
  PROVE  \E q : Places(q, IF s[n + 1] \in S THEN r ELSE Append(r, s[n + 1]), s, S, n + 1)
<1>1. CASE s[n + 1] \in S
  <2>1. \A j \in 1..(n + 1) : s[j] \notin S => j \in 1..n
    BY <1>1
  <2>2. pos \in [1..Len(r) -> {j \in 1..(n + 1) : s[j] \notin S}]
    BY DEF Places
  <2>3. Places(pos, r, s, S, n + 1)
    BY <2>1, <2>2 DEF Places
  <2> QED BY <1>1, <2>3
<1>2. CASE s[n + 1] \notin S
  <2> DEFINE t == Append(r, s[n + 1])
             q == [k \in 1..(Len(r) + 1) |-> IF k = Len(r) + 1 THEN n + 1 ELSE pos[k]]
  <2>1. Len(r) \in Nat /\ s[n + 1] \in A
    OBVIOUS
  <2>2. Len(t) = Len(r) + 1 /\ t[Len(r) + 1] = s[n + 1] /\ \A k \in 1..Len(r) : t[k] = r[k]
    BY <2>1
  <2>3. \A k \in 1..Len(r) : pos[k] \in 1..n /\ s[pos[k]] \notin S
    BY DEF Places
  <2> HIDE DEF t
  <2>4. \A k \in 1..(Len(r) + 1) : q[k] \in {j \in 1..(n + 1) : s[j] \notin S}
    <3> TAKE k \in 1..(Len(r) + 1)
    <3>1. CASE k = Len(r) + 1
      BY <3>1, <2>1, <1>2
    <3>2. CASE k # Len(r) + 1
      <4>1. k \in 1..Len(r) /\ q[k] = pos[k]
        BY <3>2, <2>1
      <4> QED BY <4>1, <2>3
    <3> QED BY <3>1, <3>2
  <2>5. \A j, k \in 1..(Len(r) + 1) : q[j] = q[k] => j = k
    <3> SUFFICES ASSUME NEW j \in 1..(Len(r) + 1), NEW k \in 1..(Len(r) + 1), q[j] = q[k]
                 PROVE  j = k
      OBVIOUS
    <3>1. CASE j \in 1..Len(r) /\ k \in 1..Len(r)
      BY <3>1, <2>1 DEF Places
    <3>2. CASE j \in 1..Len(r) /\ k = Len(r) + 1
      BY <3>2, <2>1, <2>3
    <3>3. CASE k \in 1..Len(r) /\ j = Len(r) + 1
      BY <3>3, <2>1, <2>3
    <3>4. CASE j = Len(r) + 1 /\ k = Len(r) + 1
      BY <3>4
    <3> QED BY <3>1, <3>2, <3>3, <3>4, <2>1
  <2>6. ASSUME NEW j \in 1..(n + 1), s[j] \notin S PROVE \E k \in 1..(Len(r) + 1) : q[k] = j
    <3>1. CASE j = n + 1
      <4>1. Len(r) + 1 \in 1..(Len(r) + 1) /\ q[Len(r) + 1] = j
        BY <3>1, <2>1
      <4> QED BY <4>1
    <3>2. CASE j \in 1..n
      <4>1. PICK k \in 1..Len(r) : pos[k] = j
        BY <3>2, <2>6 DEF Places
      <4>2. k \in 1..(Len(r) + 1) /\ q[k] = j
        BY <4>1, <2>1
      <4> QED BY <4>2
    <3> QED BY <3>1, <3>2
  <2>7. \A k \in 1..(Len(r) + 1) : t[k] = s[q[k]]
    <3> TAKE k \in 1..(Len(r) + 1)
    <3>1. CASE k = Len(r) + 1
      BY <3>1, <2>1, <2>2
    <3>2. CASE k # Len(r) + 1
      <4>1. k \in 1..Len(r) /\ q[k] = pos[k]
        BY <3>2, <2>1
      <4>2. r[k] = s[pos[k]]
        BY <4>1 DEF Places
      <4> QED BY <4>1, <4>2, <2>2
    <3> QED BY <3>1, <3>2
  <2>8. q \in [1..(Len(r) + 1) -> {j \in 1..(n + 1) : s[j] \notin S}]
    BY <2>4
  <2> HIDE DEF q
  <2>9. Places(q, t, s, S, n + 1)
    BY <2>2, <2>5, <2>6, <2>7, <2>8 DEF Places
  <2> QED BY <1>2, <2>9 DEF t
<1> QED BY <1>1, <1>2

(* One member of the list is in O. *)
OnlyOne(s, O) == \E k \in DOMAIN s : {i \in DOMAIN s : s[i] \in O} = {k}

(* What Without returns is a list of the members that are left, each once. *)
LEMMA WithoutPlaces ==
  ASSUME NEW A, NEW S, NEW s \in Seq(A)
  PROVE  /\ Without(s, S) \in Seq(A)
         /\ \E pos : Places(pos, Without(s, S), s, S, Len(s))
<1>0. PICK upto : Builds(upto, s, S)
  BY WithoutUpto
<1>1. /\ upto[0] = <<>> /\ Without(s, S) = upto[Len(s)]
      /\ \A i \in 1..Len(s) : upto[i] = IF s[i] \in S THEN upto[i - 1] ELSE Append(upto[i - 1], s[i])
  BY <1>0 DEF Builds
<1> DEFINE Good(n) == upto[n] \in Seq(A) /\ \E pos : Places(pos, upto[n], s, S, n)
           T == {n \in Nat : n <= Len(s) => Good(n)}
<1>2. 0 \in T
  <2>1. <<>> \in Seq(A) /\ Len(<<>>) = 0
    OBVIOUS
  <2>2. Places([k \in {} |-> 0], <<>>, s, S, 0)
    BY <2>1 DEF Places
  <2> QED BY <1>1, <2>1, <2>2
<1>3. ASSUME NEW n \in Nat, n \in T PROVE n + 1 \in T
  <2> SUFFICES ASSUME n + 1 <= Len(s) PROVE Good(n + 1)
    OBVIOUS
  <2>1. Good(n) /\ n + 1 \in 1..Len(s)
    BY <1>3
  <2> DEFINE r == upto[n]
             r1 == upto[n + 1]
  <2>2. r1 = IF s[n + 1] \in S THEN r ELSE Append(r, s[n + 1])
    BY <2>1, <1>1
  <2>3. r \in Seq(A) /\ s[n + 1] \in A
    BY <2>1
  <2>4. PICK pos : Places(pos, r, s, S, n)
    BY <2>1
  <2> HIDE DEF r, r1
  <2>5. r1 \in Seq(A)
    BY <2>2, <2>3
  <2>6. \E q : Places(q, r1, s, S, n + 1)
    BY <2>1, <2>2, <2>3, <2>4, PlacesNext
  <2> QED BY <2>5, <2>6 DEF r1
<1> HIDE DEF T
<1>4. Len(s) \in T
  BY <1>2, <1>3, Induction
<1> QED BY <1>4, <1>1 DEF T

(* Without drops the members of S and no others. *)
LEMMA WithoutMembers ==
  ASSUME NEW A, NEW S, NEW s \in Seq(A)
  PROVE  /\ Without(s, S) \in Seq(A)
         /\ \A x : (\E k \in DOMAIN Without(s, S) : Without(s, S)[k] = x)
                     <=> (x \notin S /\ \E j \in DOMAIN s : s[j] = x)
<1> DEFINE r == Without(s, S)
<1>1. r \in Seq(A)
  BY WithoutPlaces
<1>2. PICK pos : Places(pos, r, s, S, Len(s))
  BY WithoutPlaces
<1> HIDE DEF r
<1>3. DOMAIN r = 1..Len(r) /\ DOMAIN s = 1..Len(s)
  BY <1>1
<1>4. ASSUME NEW k \in DOMAIN r PROVE r[k] \notin S /\ \E j \in DOMAIN s : s[j] = r[k]
  BY <1>2, <1>3 DEF Places
<1>5. ASSUME NEW j \in DOMAIN s, s[j] \notin S PROVE \E k \in DOMAIN r : r[k] = s[j]
  <2>1. PICK k \in 1..Len(r) : pos[k] = j
    BY <1>2, <1>3, <1>5 DEF Places
  <2>2. r[k] = s[j]
    BY <2>1, <1>2 DEF Places
  <2> QED BY <2>1, <2>2, <1>3
<1>6. \A x : (\E k \in DOMAIN r : r[k] = x) <=> (x \notin S /\ \E j \in DOMAIN s : s[j] = x)
  BY <1>4, <1>5
<1> QED BY <1>1, <1>6 DEF r

(* A member of a kind that is not dropped, the only one in the list, is the
   only one in what is left (upsertHookArray). *)
LEMMA WithoutOne ==
  ASSUME NEW A, NEW S, NEW s \in Seq(A), NEW O, O \cap S = {}, OnlyOne(s, O)
  PROVE  OnlyOne(Without(s, S), O)
<1>0. PICK j \in DOMAIN s : {i \in DOMAIN s : s[i] \in O} = {j}
  BY DEF OnlyOne
<1> DEFINE r == Without(s, S)
<1>1. r \in Seq(A)
  BY WithoutPlaces
<1>2. PICK pos : Places(pos, r, s, S, Len(s))
  BY WithoutPlaces
<1> HIDE DEF r
<1>3. DOMAIN r = 1..Len(r) /\ DOMAIN s = 1..Len(s)
  BY <1>1
<1>8. s[j] \in O /\ s[j] \notin S
  BY <1>0
<1>4. PICK k \in 1..Len(r) : pos[k] = j
  BY <1>2, <1>3, <1>8, <1>0 DEF Places
<1>5. r[k] \in O
  BY <1>4, <1>2, <1>3, <1>8 DEF Places
<1>6. ASSUME NEW i \in 1..Len(r), r[i] \in O PROVE i = k
  <2>1. pos[i] \in DOMAIN s /\ s[pos[i]] = r[i]
    BY <1>2, <1>3 DEF Places
  <2>2. pos[i] = j
    BY <2>1, <1>6, <1>0
  <2> QED BY <2>2, <1>4, <1>2 DEF Places
<1>7. {i \in DOMAIN r : r[i] \in O} = {k}
  BY <1>3, <1>5, <1>6
<1> QED BY <1>7, <1>3, <1>4 DEF r, OnlyOne

-----------------------------------------------------------------------------
(* Files, and what a setup makes of them. *)

LEMMA FileNames ==
  /\ File = {"claude/settings", "gemini/settings", "codex/config", "codex/skill",
             "opencode/config", "opencode/plugin", "antigravity/mcp", "antigravity/hooks"}
  /\ \A a \in AgentSet : FilesOf[a] \in Seq(File) /\ FilesIn(a) = Members(FilesOf[a])
<1>1. /\ FilesIn("claude") = {"claude/settings"}
      /\ FilesIn("gemini") = {"gemini/settings"}
      /\ FilesIn("codex") = {"codex/config", "codex/skill"}
      /\ FilesIn("opencode") = {"opencode/config", "opencode/plugin"}
      /\ FilesIn("antigravity") = {"antigravity/mcp", "antigravity/hooks"}
  BY DEF FilesIn, FilesOf
<1>2. File = {"claude/settings", "gemini/settings", "codex/config", "codex/skill",
             "opencode/config", "opencode/plugin", "antigravity/mcp", "antigravity/hooks"}
  BY <1>1 DEF File, AgentSet
<1>3. \A a \in AgentSet : FilesIn(a) = Members(FilesOf[a])
  BY DEF FilesIn, Members
<1>4. \A a \in AgentSet : FilesOf[a] \in Seq(File)
  <2>1. \A x, y \in File : <<x>> \in Seq(File) /\ <<x, y>> \in Seq(File)
    OBVIOUS
  <2>2. /\ FilesOf["claude"] = <<"claude/settings">> /\ FilesOf["gemini"] = <<"gemini/settings">>
        /\ FilesOf["codex"] = <<"codex/config", "codex/skill">>
        /\ FilesOf["opencode"] = <<"opencode/config", "opencode/plugin">>
        /\ FilesOf["antigravity"] = <<"antigravity/mcp", "antigravity/hooks">>
    BY DEF FilesOf
  <2>3. /\ "claude/settings" \in File /\ "gemini/settings" \in File
        /\ "codex/config" \in File /\ "codex/skill" \in File
        /\ "opencode/config" \in File /\ "opencode/plugin" \in File
        /\ "antigravity/mcp" \in File /\ "antigravity/hooks" \in File
    BY <1>2
  <2>4. /\ FilesOf["claude"] \in Seq(File) /\ FilesOf["gemini"] \in Seq(File)
        /\ FilesOf["codex"] \in Seq(File) /\ FilesOf["opencode"] \in Seq(File)
        /\ FilesOf["antigravity"] \in Seq(File)
    BY <2>1, <2>2, <2>3
  <2> QED BY <2>4 DEF AgentSet
<1> QED BY <1>2, <1>3, <1>4

(* A list of members of a set is a list over that set. *)
LEMMA SeqNarrows ==
  ASSUME NEW A, NEW B, NEW s \in Seq(A), \A i \in DOMAIN s : s[i] \in B
  PROVE  s \in Seq(B)
<1>1. DOMAIN s = 1..Len(s) /\ Len(s) \in Nat /\ s = [i \in 1..Len(s) |-> s[i]]
  OBVIOUS
<1>2. s \in [1..Len(s) -> B]
  BY <1>1
<1> QED BY <1>1, <1>2

LEMMA HookFacts ==
  ASSUME NEW b \in Bin
  PROVE  /\ ForgeHook(b) \in Hook /\ Owned(ForgeHook(b))
         /\ \A x \in ForgeHook(b) : x.by = "forge" /\ x.bin = b
<1>1. [by |-> "forge", name |-> "hook", bin |-> b] \in Command
  BY DEF Command
<1> QED BY <1>1 DEF ForgeHook, Hook, Owned

(* What upsertHookArray makes of the hooks of an event: a list of hooks, of which
   exactly one is Forge's, the new one, and all hooks without a command of Forge's
   are still there. *)
THEOREM UpsertHookMakes ==
  ASSUME NEW hooks \in Seq(Hook), NEW new \in Hook, Owned(new)
  PROVE  /\ UpsertHook(hooks, new) \in Seq(Hook)
         /\ \A h \in Members(UpsertHook(hooks, new)) : h = new \/ (h \in Members(hooks) /\ ~Owned(h))
         /\ \A h \in Members(hooks) : ~Owned(h) => h \in Members(UpsertHook(hooks, new))
         /\ \E i \in DOMAIN UpsertHook(hooks, new) :
               {j \in DOMAIN UpsertHook(hooks, new) : Owned(UpsertHook(hooks, new)[j])} = {i}
<1> DEFINE ours == {i \in DOMAIN hooks : Owned(hooks[i])}
           Place(i) == IF i \notin ours THEN hooks[i] ELSE IF i = Min(ours) THEN new ELSE {}
           placed == [i \in DOMAIN hooks |-> Place(i)]
           result == UpsertHook(hooks, new)
           O == {h \in Hook : Owned(h)}
<1>0. DOMAIN hooks = 1..Len(hooks) /\ Len(hooks) \in Nat /\ \A i \in DOMAIN hooks : hooks[i] \in Hook
  OBVIOUS
<1>1. CASE ours = {}
  <2>1. result = Append(hooks, new)
    BY <1>1 DEF UpsertHook
  <2> HIDE DEF result
  <2>2. result \in Seq(Hook) /\ DOMAIN result = 1..(Len(hooks) + 1)
        /\ result[Len(hooks) + 1] = new /\ \A i \in DOMAIN hooks : result[i] = hooks[i]
    BY <2>1, <1>0
  <2>3. \A i \in DOMAIN result : i = Len(hooks) + 1 \/ i \in DOMAIN hooks
    BY <2>2, <1>0
  <2>4. \A i \in DOMAIN hooks : ~Owned(hooks[i])
    BY <1>1
  <2>5. ASSUME NEW h \in Members(result) PROVE h = new \/ (h \in Members(hooks) /\ ~Owned(h))
    <3>1. PICK j \in DOMAIN result : result[j] = h
      BY DEF Members
    <3>2. CASE j = Len(hooks) + 1
      BY <3>1, <3>2, <2>2
    <3>3. CASE j \in DOMAIN hooks
      BY <3>1, <3>3, <2>2, <2>4 DEF Members
    <3> QED BY <3>2, <3>3, <2>3
  <2>6. \A h \in Members(hooks) : h \in Members(result)
    BY <2>2, <1>0 DEF Members
  <2>7. {j \in DOMAIN result : Owned(result[j])} = {Len(hooks) + 1} /\ Len(hooks) + 1 \in DOMAIN result
    BY <2>2, <2>3, <2>4, <1>0
  <2> QED BY <2>2, <2>5, <2>6, <2>7 DEF result
<1>2. CASE ours # {}
  <2>1. result = Without(placed, {{}})
    BY <1>2 DEF UpsertHook
  <2>2. Min(ours) \in ours
    <3>1. ours \in SUBSET Nat
      BY <1>0
    <3>2. \E x \in ours : \A y \in ours : x <= y
      BY <3>1, <1>2, NatMin
    <3> QED BY <3>2 DEF Min
  <2> DEFINE first == Min(ours)
  <2> HIDE DEF first, result
  <2>3. /\ first \in DOMAIN hooks /\ placed[first] = new
        /\ \A i \in DOMAIN hooks : i # first =>
              IF Owned(hooks[i]) THEN placed[i] = {} ELSE placed[i] = hooks[i]
    BY <2>2 DEF first
  <2>4. ~Owned({}) /\ {} \notin Hook
    BY DEF Owned, Hook
  <2>5. placed \in Seq(Hook \cup {{}}) /\ DOMAIN placed = DOMAIN hooks
    <3>1. \A i \in DOMAIN hooks : placed[i] \in Hook \cup {{}}
      BY <1>0, <2>3
    <3>2. placed \in [1..Len(hooks) -> Hook \cup {{}}]
      BY <3>1, <1>0
    <3> QED BY <3>2, <1>0
  <2> HIDE DEF placed, ours
  <2> DEFINE A == Hook \cup {{}}
             E == {{}}
  <2>14. placed \in Seq(A) /\ result = Without(placed, E) /\ E = {{}}
    BY <2>1, <2>5
  <2> HIDE DEF A, E
  <2>16. placed \in Seq(A)
    BY <2>14
  <2>15. /\ Without(placed, E) \in Seq(A)
        /\ \A x : (\E k \in DOMAIN Without(placed, E) : Without(placed, E)[k] = x)
                    <=> (x \notin E /\ \E j \in DOMAIN placed : placed[j] = x)
    BY <2>16, WithoutMembers, Zenon
  <2>6. /\ result \in Seq(Hook \cup {{}})
        /\ \A x : (\E k \in DOMAIN result : result[k] = x) <=> (x \notin {{}} /\ \E j \in DOMAIN placed : placed[j] = x)
    BY <2>15, <2>14 DEF A
  <2>7. ASSUME NEW k \in DOMAIN result PROVE result[k] \in Hook
    <3>1. result[k] \notin {{}}
      BY <2>6
    <3> QED BY <2>6, <3>1
  <2>8. result \in Seq(Hook)
    BY <2>6, <2>7, SeqNarrows
  <2>9. ASSUME NEW h \in Members(result) PROVE h = new \/ (h \in Members(hooks) /\ ~Owned(h))
    <3>1. PICK j \in DOMAIN placed : placed[j] = h /\ h # {}
      BY <2>6 DEF Members
    <3>2. CASE j = first
      BY <3>1, <3>2, <2>3
    <3>3. CASE j # first
      BY <3>1, <3>3, <2>3, <2>5 DEF Members
    <3> QED BY <3>2, <3>3
  <2>10. ASSUME NEW h \in Members(hooks), ~Owned(h) PROVE h \in Members(result)
    <3>1. PICK j \in DOMAIN hooks : hooks[j] = h
      BY DEF Members
    <3>2. j # first
      <4>1. Owned(hooks[first])
        BY <2>2 DEF first, ours
      <4> QED BY <3>1, <2>10, <4>1
    <3>3. placed[j] = h /\ h \notin {{}}
      BY <3>1, <3>2, <2>3, <2>4, <2>10, <1>0
    <3> QED BY <3>3, <2>6, <2>5 DEF Members
  <2>11. OnlyOne(result, O)
    <3>1. O \cap E = {} /\ placed[first] \in O /\ first \in DOMAIN placed
      BY <2>3, <2>4, <2>5, <2>14
    <3>2. ASSUME NEW i \in DOMAIN placed, placed[i] \in O PROVE i = first
      BY <3>2, <2>3, <2>4, <2>5
    <3>3. {i \in DOMAIN placed : placed[i] \in O} = {first}
      BY <3>1, <3>2
    <3> HIDE DEF O
    <3>4. OnlyOne(placed, O)
      BY <3>1, <3>3 DEF OnlyOne
    <3> QED BY <3>1, <3>4, <2>14, <2>16, WithoutOne
  <2>12. {i \in DOMAIN result : result[i] \in O} = {i \in DOMAIN result : Owned(result[i])}
    BY <2>7
  <2>13. \E i \in DOMAIN result : {j \in DOMAIN result : Owned(result[j])} = {i}
    BY <2>11, <2>12 DEF OnlyOne
  <2> QED BY <2>8, <2>9, <2>10, <2>13 DEF result
<1> QED BY <1>1, <1>2

(* d is what a setup makes of a file with c in it. *)
Makes(f, c, b, d) ==
    /\ f \in HookFile => d =
         [Parsed(c) EXCEPT !.mcp = b, !.event = UpsertHook(Parsed(c).event, ForgeHook(b))]
    /\ f \in ServerFile => d = [Parsed(c) EXCEPT !.mcp = b]
    /\ f \in WholeFile => d = [Empty("json") EXCEPT !.event = <<ForgeHook(b)>>]
    /\ f = "antigravity/hooks" => d = [Parsed(c) EXCEPT !.event = <<ForgeHook(b)>>]
    /\ f \in HookFile \cup ServerFile \cup WholeFile \cup {"antigravity/hooks"}

(* A setup does one of four things to a file (setupClaude, setupGemini; codex's
   registration, setupOpencode, setupAntigravity; the files written as a whole). *)
LEMMA SetupCases ==
  ASSUME NEW f \in File, NEW c, NEW b
  PROVE  Makes(f, c, b, Setup(f, c, b))
<1> USE DEF Makes
<1>1. CASE f = "claude/settings"
  BY <1>1 DEF Setup, setupClaude, HookFile, ServerFile, WholeFile
<1>2. CASE f = "gemini/settings"
  BY <1>2 DEF Setup, setupGemini, upsertCommandHookArray, HookFile, ServerFile, WholeFile
<1>3. CASE f = "codex/config"
  BY <1>3 DEF Setup, registerCodexMCP, HookFile, ServerFile, WholeFile
<1>4. CASE f = "codex/skill"
  BY <1>4 DEF Setup, setupCodex, HookFile, ServerFile, WholeFile
<1>5. CASE f = "opencode/config"
  BY <1>5 DEF Setup, setupOpencode, HookFile, ServerFile, WholeFile
<1>6. CASE f = "opencode/plugin"
  BY <1>6 DEF Setup, opencodePlugin, HookFile, ServerFile, WholeFile
<1>7. CASE f = "antigravity/mcp"
  BY <1>7 DEF Setup, antigravityServer, HookFile, ServerFile, WholeFile
<1>8. CASE f = "antigravity/hooks"
  BY <1>8 DEF Setup, antigravityHooks, HookFile, ServerFile, WholeFile
<1> QED BY <1>1, <1>2, <1>3, <1>4, <1>5, <1>6, <1>7, <1>8, FileNames

LEMMA EmptyTyped ==
  ASSUME NEW kind \in {"absent", "json", "broken"}
  PROVE  /\ Empty(kind) \in Content /\ Empty(kind).kind = kind /\ Empty(kind).event = <<>>
         /\ Empty(kind).start = <<>> /\ Empty(kind).mine = {}
         /\ \A f \in File : ForgesPart(f, Empty(kind))
<1>1. <<>> \in Seq(Hook) /\ CommandsOf(<<>>) = {}
  BY DEF CommandsOf
<1> QED BY <1>1 DEF Empty, Content, ForgesPart

LEMMA ParsedTyped ==
  ASSUME NEW c \in Content, NEW f \in File, ForgesPart(f, c)
  PROVE  Parsed(c) \in Content /\ Parsed(c).kind = "json" /\ ForgesPart(f, Parsed(c))
BY EmptyTyped DEF Parsed

(* What a setup leaves: a settings file, with Forge's part as Forge writes it, its
   paths those of the binary, and one hook for an event. *)
LEMMA SetupMakes ==
  ASSUME NEW f \in File, NEW c \in Content, NEW b \in Bin, ForgesPart(f, c)
  PROVE  /\ Setup(f, c, b) \in Content /\ Setup(f, c, b).kind = "json"
         /\ ForgesPart(f, Setup(f, c, b))
         /\ \A x \in Scanned(f, Setup(f, c, b)) :
               x.by = "user" \/ x.bin = b \/ x \in CommandsOf(Setup(f, c, b).start)
         /\ f \in HookFile => \E i \in DOMAIN Setup(f, c, b).event :
               {j \in DOMAIN Setup(f, c, b).event : Owned(Setup(f, c, b).event[j])} = {i}
<1> DEFINE d == Setup(f, c, b)
           e == Parsed(c)
           h == ForgeHook(b)
<1>1. e \in Content /\ e.kind = "json" /\ ForgesPart(f, e)
  BY ParsedTyped
<1>2. h \in Hook /\ Owned(h) /\ \A x \in h : x.by = "forge" /\ x.bin = b
  BY HookFacts
<1>3. /\ f \in HookFile => d = [e EXCEPT !.mcp = b, !.event = UpsertHook(e.event, h)]
      /\ f \in ServerFile => d = [e EXCEPT !.mcp = b]
      /\ f \in WholeFile => d = [Empty("json") EXCEPT !.event = <<h>>]
      /\ f = "antigravity/hooks" => d = [e EXCEPT !.event = <<h>>]
      /\ f \in HookFile \cup ServerFile \cup WholeFile \cup {"antigravity/hooks"}
  <2>1. Makes(f, c, b, d)
    BY SetupCases
  <2> HIDE DEF d
  <2> QED BY <2>1 DEF Makes
<1>4. e.event \in Seq(Hook) /\ e.start \in Seq(Hook) /\ e.mine \subseteq Mine /\ e.mcp \in Bin \cup {None}
  BY <1>1 DEF Content
<1>5. /\ Empty("json") \in Content /\ Empty("json").kind = "json" /\ Empty("json").event = <<>>
      /\ Empty("json").start = <<>> /\ Empty("json").mine = {}
  BY EmptyTyped
<1>6. <<h>> \in Seq(Hook) /\ CommandsOf(<<h>>) = h /\ CommandsOf(<<>>) = {}
  <2>1. <<h>> \in Seq(Hook)
    BY <1>2
  <2>2. DOMAIN <<h>> = {1} /\ <<h>>[1] = h
    OBVIOUS
  <2> HIDE DEF h
  <2> QED BY <2>1, <2>2 DEF CommandsOf
<1>7. f \in HookFile => f \notin ServerFile /\ f \notin WholeFile
  BY DEF HookFile, ServerFile, WholeFile
<1>8. f \in ServerFile => f \notin HookFile /\ f \notin WholeFile
  BY DEF HookFile, ServerFile, WholeFile
<1>9. f \in WholeFile => f \notin HookFile /\ f \notin ServerFile /\ f # "codex/config" /\ f # "opencode/config"
  BY DEF HookFile, ServerFile, WholeFile
<1>10. f = "antigravity/hooks" => f \notin HookFile /\ f \notin ServerFile /\ f \notin WholeFile
  BY DEF HookFile, ServerFile, WholeFile
<1>11. f \in HookFile => f # "codex/config" /\ f # "opencode/config"
  BY DEF HookFile
<1> HIDE DEF e, h, d
<1>12. CASE f \in HookFile
  <2> DEFINE u == UpsertHook(e.event, h)
  <2>1. /\ u \in Seq(Hook)
        /\ \A g \in Members(u) : g = h \/ (g \in Members(e.event) /\ ~Owned(g))
        /\ \E i \in DOMAIN u : {j \in DOMAIN u : Owned(u[j])} = {i}
    BY <1>2, <1>4, UpsertHookMakes
  <2> HIDE DEF u
  <2>2. d = [e EXCEPT !.mcp = b, !.event = u]
    BY <1>12, <1>3 DEF u
  <2>3. d \in Content /\ d.kind = "json" /\ d.event = u /\ d.start = e.start /\ d.mine = e.mine
    BY <2>1, <2>2, <1>1, <1>4 DEF Content
  <2>4. ForgesPart(f, d)
    BY <1>12, <1>7 DEF ForgesPart
  <2>5. \A x \in CommandsOf(u) : x.by = "user" \/ x.bin = b
    <3> SUFFICES ASSUME NEW x \in CommandsOf(u) PROVE x.by = "user" \/ x.bin = b
      OBVIOUS
    <3>1. PICK i \in DOMAIN u : x \in u[i]
      BY DEF CommandsOf
    <3>2. u[i] \in Hook /\ u[i] \in Members(u)
      BY <2>1 DEF Members
    <3>3. CASE u[i] = h
      BY <3>1, <3>3, <1>2
    <3>4. CASE ~Owned(u[i])
      BY <3>1, <3>2, <3>4 DEF Owned, Hook, Command
    <3> QED BY <3>2, <3>3, <3>4, <2>1
  <2>6. \A x \in Scanned(f, d) : x.by = "user" \/ x.bin = b \/ x \in CommandsOf(d.start)
    BY <2>3, <2>5, <1>12, <1>11 DEF Scanned
  <2> QED BY <2>1, <2>3, <2>4, <2>6 DEF d
<1>13. CASE f \in ServerFile
  <2>1. d = [e EXCEPT !.mcp = b]
    BY <1>13, <1>3
  <2>2. /\ d \in Content /\ d.kind = "json" /\ d.mcp = b
        /\ d.event = e.event /\ d.start = e.start /\ d.mine = e.mine
    BY <2>1, <1>1, <1>4 DEF Content
  <2>3. ForgesPart(f, d) /\ d.event = <<>> /\ d.start = <<>>
    BY <2>2, <1>1, <1>13, <1>8 DEF ForgesPart
  <2>4. \A x \in Scanned(f, d) : x.bin = b
    BY <2>2, <2>3, <1>6 DEF Scanned, ForgeServer, codexMCPForgeCommand
  <2> QED BY <2>2, <2>3, <2>4, <1>13, <1>8 DEF d
<1>14. CASE f \in WholeFile
  <2>1. d = [Empty("json") EXCEPT !.event = <<h>>]
    BY <1>14, <1>3
  <2>2. d \in Content /\ d.kind = "json" /\ d.event = <<h>> /\ d.start = <<>> /\ d.mine = {}
    BY <2>1, <1>5, <1>6 DEF Content
  <2>3. ForgesPart(f, d)
    BY <2>2, <1>6, <1>2, <1>14, <1>9 DEF ForgesPart
  <2>4. \A x \in Scanned(f, d) : x.bin = b
    BY <2>2, <1>6, <1>2, <1>14, <1>9 DEF Scanned
  <2> QED BY <2>2, <2>3, <2>4, <1>14, <1>9 DEF d
<1>15. CASE f = "antigravity/hooks"
  <2>1. d = [e EXCEPT !.event = <<h>>]
    BY <1>15, <1>3
  <2>2. d \in Content /\ d.kind = "json" /\ d.event = <<h>> /\ d.start = e.start /\ d.mine = e.mine
    BY <2>1, <1>1, <1>4, <1>6 DEF Content
  <2>3. d.start = <<>>
    BY <2>2, <1>1, <1>15, <1>10 DEF ForgesPart
  <2>4. ForgesPart(f, d)
    BY <2>2, <2>3, <1>6, <1>2, <1>15, <1>10 DEF ForgesPart
  <2>5. \A x \in Scanned(f, d) : x.bin = b
    BY <2>2, <2>3, <1>6, <1>2, <1>15 DEF Scanned
  <2> QED BY <2>2, <2>4, <2>5, <1>15, <1>10 DEF d
<1> QED BY <1>3, <1>12, <1>13, <1>14, <1>15

(* A setup keeps what a user has in a file that parses, except the commands that
   share a hook with one of Forge's. *)
LEMMA SetupKeeps ==
  ASSUME NEW f \in File, NEW c \in Content, NEW b \in Bin, ForgesPart(f, c), c.kind = "json"
  PROVE  MineIn(c) \ Shared(c) \subseteq MineIn(Setup(f, c, b))
<1> DEFINE d == Setup(f, c, b)
           h == ForgeHook(b)
<1>1. c.event \in Seq(Hook) /\ Parsed(c) = c
  BY DEF Content, Parsed
<1>2. h \in Hook /\ Owned(h)
  BY HookFacts
<1> HIDE DEF d
<1>7. Makes(f, c, b, d)
  BY SetupCases DEF d
<1>3. SUFFICES ASSUME NEW m \in MineIn(c), m \notin Shared(c) PROVE m \in MineIn(d)
  BY DEF d
<1>4. CASE f \in HookFile
  <2> DEFINE u == UpsertHook(c.event, h)
  <2>1. d = [c EXCEPT !.mcp = b, !.event = u]
    <3>1. d = [Parsed(c) EXCEPT !.mcp = b, !.event = UpsertHook(Parsed(c).event, h)]
      BY <1>4, <1>7 DEF Makes
    <3> QED BY <3>1, <1>1
  <2>2. u \in Seq(Hook) /\ \A g \in Members(c.event) : ~Owned(g) => g \in Members(u)
    BY <1>1, <1>2, UpsertHookMakes
  <2> HIDE DEF u
  <2>3. d.mine = c.mine /\ d.event = u /\ d.start = c.start
    BY <2>1 DEF Content
  <2>4. CASE m \in c.mine
    BY <2>3, <2>4 DEF MineIn
  <2>5. CASE \E x \in CommandsOf(c.start) : x.by = "user" /\ x.name = m
    BY <2>3, <2>5 DEF MineIn
  <2>6. CASE \E x \in CommandsOf(c.event) : x.by = "user" /\ x.name = m
    <3>1. PICK x \in CommandsOf(c.event) : x.by = "user" /\ x.name = m
      BY <2>6
    <3>2. PICK i \in DOMAIN c.event : x \in c.event[i]
      BY DEF CommandsOf
    <3>3. ~Owned(c.event[i])
      BY <3>1, <3>2, <1>3 DEF Shared
    <3>4. PICK j \in DOMAIN u : u[j] = c.event[i]
      BY <3>3, <2>2 DEF Members
    <3>5. x \in CommandsOf(u)
      BY <3>2, <3>4 DEF CommandsOf
    <3> QED BY <3>1, <3>5, <2>3 DEF MineIn
  <2> QED BY <2>4, <2>5, <2>6 DEF MineIn
<1>5. CASE f \in ServerFile
  <2>1. d = [c EXCEPT !.mcp = b]
    <3>1. d = [Parsed(c) EXCEPT !.mcp = b]
      BY <1>5, <1>7 DEF Makes
    <3> QED BY <3>1, <1>1
  <2>2. d.mine = c.mine /\ d.event = c.event /\ d.start = c.start
    BY <2>1 DEF Content
  <2> QED BY <2>2 DEF MineIn
<1>6. CASE f \in WholeFile \cup {"antigravity/hooks"}
  <2>1. f \notin HookFile
    BY <1>6 DEF HookFile, WholeFile
  <2>2. c.start = <<>> /\ CommandsOf(c.start) = {} /\ \A x \in CommandsOf(c.event) : x.by = "forge"
    BY <2>1 DEF ForgesPart, CommandsOf
  <2>3. m \in c.mine
    BY <2>2 DEF MineIn
  <2>4. f = "antigravity/hooks"
    BY <2>3, <1>6 DEF ForgesPart
  <2>5. d = [c EXCEPT !.event = <<h>>]
    <3>1. d = [Parsed(c) EXCEPT !.event = <<h>>]
      BY <2>4, <1>7 DEF Makes
    <3> QED BY <3>1, <1>1
  <2>6. d.mine = c.mine
    BY <2>5 DEF Content
  <2> QED BY <2>3, <2>6 DEF MineIn
<1> QED BY <1>4, <1>5, <1>6, <1>7 DEF Makes

-----------------------------------------------------------------------------
(* What is left to do. *)

LEMMA SeqMembers ==
  ASSUME NEW A, NEW s \in Seq(A), NEW t \in Seq(A)
  PROVE  /\ s \o t \in Seq(A)
         /\ Members(s) \subseteq Members(s \o t) /\ Members(t) \subseteq Members(s \o t)
<1>1. /\ DOMAIN s = 1..Len(s) /\ DOMAIN t = 1..Len(t) /\ DOMAIN (s \o t) = 1..(Len(s) + Len(t))
      /\ Len(s) \in Nat /\ Len(t) \in Nat
      /\ \A i \in 1..Len(s) : (s \o t)[i] = s[i]
      /\ \A i \in 1..Len(t) : (s \o t)[Len(s) + i] = t[i]
  OBVIOUS
<1>2. s \o t \in Seq(A)
  OBVIOUS
<1> DEFINE u == s \o t
<1> HIDE DEF u
<1>3. ASSUME NEW i \in 1..Len(s) PROVE s[i] \in Members(u)
  <2>1. i \in DOMAIN u /\ u[i] = s[i]
    BY <1>1 DEF u
  <2> QED BY <2>1 DEF Members
<1>4. ASSUME NEW i \in 1..Len(t) PROVE t[i] \in Members(u)
  <2>1. Len(s) + i \in DOMAIN u /\ u[Len(s) + i] = t[i]
    BY <1>1 DEF u
  <2> QED BY <2>1 DEF Members
<1>5. Members(s) \subseteq Members(u) /\ Members(t) \subseteq Members(u)
  <2>1. \A x \in Members(s) : x \in Members(u)
    BY <1>1, <1>3 DEF Members
  <2>2. \A x \in Members(t) : x \in Members(u)
    BY <1>1, <1>4 DEF Members
  <2> QED BY <2>1, <2>2
<1> QED BY <1>2, <1>5 DEF u

LEMMA SeqTail ==
  ASSUME NEW A, NEW s \in Seq(A), s # <<>>
  PROVE  /\ Head(s) \in A /\ Tail(s) \in Seq(A)
         /\ \A x \in Members(s) : x = Head(s) \/ x \in Members(Tail(s))
<1>1. Head(s) = s[1] /\ Head(s) \in A /\ Tail(s) \in Seq(A) /\ Len(s) \in Nat \ {0}
  OBVIOUS
<1>2. DOMAIN Tail(s) = 1..(Len(s) - 1) /\ \A i \in 1..(Len(s) - 1) : Tail(s)[i] = s[i + 1]
  OBVIOUS
<1>3. ASSUME NEW i \in DOMAIN s PROVE s[i] = Head(s) \/ s[i] \in Members(Tail(s))
  <2>1. i \in 1..Len(s)
    OBVIOUS
  <2>2. CASE i = 1
    BY <2>2, <1>1
  <2>3. CASE i # 1
    <3>1. i - 1 \in 1..(Len(s) - 1) /\ (i - 1) + 1 = i
      BY <2>1, <2>3, <1>1
    <3>2. i - 1 \in DOMAIN Tail(s) /\ Tail(s)[i - 1] = s[i]
      BY <3>1, <1>2
    <3> QED BY <3>2 DEF Members
  <2> QED BY <2>2, <2>3
<1> QED BY <1>1, <1>3 DEF Members

LEMMA AgentOfFile ==
  ASSUME NEW f \in File
  PROVE  AgentOf(f) \in AgentSet /\ f \in FilesIn(AgentOf(f))
<1>1. \E a \in AgentSet : f \in FilesIn(a)
  BY DEF File
<1> QED BY <1>1 DEF AgentOf

(* A sync visits every file of the agents that are detected (syncIntegrations). *)
LEMMA TodoVisits ==
  ASSUME NEW D
  PROVE  /\ Todo(D) \in Seq(File)
         /\ \A f \in File : AgentOf(f) \in D => f \in Members(Todo(D))
<1> DEFINE Of(i) == IF Agents[i] \in D THEN FilesOf[Agents[i]] ELSE <<>>
<1>1. \A i \in 1..5 : Agents[i] \in AgentSet
  BY DEF Agents, AgentSet
<1>2. \A i \in 1..5 : Of(i) \in Seq(File)
  <2>1. <<>> \in Seq(File)
    OBVIOUS
  <2> QED BY <2>1, <1>1, FileNames
<1> HIDE DEF Of
<1>3. Of(1) \in Seq(File) /\ Of(2) \in Seq(File) /\ Of(3) \in Seq(File) /\ Of(4) \in Seq(File) /\ Of(5) \in Seq(File)
  BY <1>2
<1> DEFINE s2 == Of(1) \o Of(2)
           s3 == s2 \o Of(3)
           s4 == s3 \o Of(4)
           s5 == s4 \o Of(5)
<1>4. Todo(D) = s5
  BY DEF Todo, Of
<1>5. s2 \in Seq(File) /\ Members(Of(1)) \subseteq Members(s2) /\ Members(Of(2)) \subseteq Members(s2)
  BY <1>3, SeqMembers
<1> HIDE DEF s2
<1>6. s3 \in Seq(File) /\ Members(s2) \subseteq Members(s3) /\ Members(Of(3)) \subseteq Members(s3)
  BY <1>3, <1>5, SeqMembers
<1> HIDE DEF s3
<1>7. s4 \in Seq(File) /\ Members(s3) \subseteq Members(s4) /\ Members(Of(4)) \subseteq Members(s4)
  BY <1>3, <1>6, SeqMembers
<1> HIDE DEF s4
<1>8. s5 \in Seq(File) /\ Members(s4) \subseteq Members(s5) /\ Members(Of(5)) \subseteq Members(s5)
  BY <1>3, <1>7, SeqMembers
<1> HIDE DEF s5
<1>9. \A i \in 1..5 : Members(Of(i)) \subseteq Members(s5)
  <2>1. \A i \in 1..5 : i = 1 \/ i = 2 \/ i = 3 \/ i = 4 \/ i = 5
    OBVIOUS
  <2> QED BY <2>1, <1>5, <1>6, <1>7, <1>8
<1>10. ASSUME NEW f \in File, AgentOf(f) \in D PROVE f \in Members(s5)
  <2>1. PICK i \in 1..5 : Agents[i] = AgentOf(f)
    <3>1. \A a \in AgentSet : \E i \in 1..5 : Agents[i] = a
      BY DEF Agents, AgentSet
    <3> QED BY <3>1, AgentOfFile
  <2>2. f \in Members(FilesOf[AgentOf(f)])
    BY AgentOfFile, FileNames
  <2>3. Of(i) = FilesOf[AgentOf(f)]
    BY <2>1, <1>10 DEF Of
  <2> QED BY <2>2, <2>3, <1>9
<1> QED BY <1>4, <1>8, <1>10

-----------------------------------------------------------------------------
(* Commands. *)

LEMMA ForgePathInstalled ==
  ASSUME NEW e \in Bin
  PROVE  ForgePath(e) \in Bin
BY PathsAssumption DEF ForgePath

LEMMA IdleFacts ==
  ASSUME NEW F, NEW V, NEW D
  PROVE  Idle \in RunRecord /\ Going(Idle, F, V, D)
<1>1. <<>> \in Seq(File) /\ Empty("absent") \in Content
  BY EmptyTyped
<1> QED BY <1>1 DEF Idle, RunRecord, Going

(* A command that something disturbed relies on nothing that others change. *)
LEMMA DisturbedGoes ==
  ASSUME NEW r \in RunRecord, NEW F, NEW V, NEW D, NEW F2, NEW V2, NEW D2, Going(r, F, V, D)
  PROVE  /\ [r EXCEPT !.clean = FALSE] \in RunRecord
         /\ Going([r EXCEPT !.clean = FALSE], F2, V2, D2)
BY DEF RunRecord, Going

Commands == run \in [Proc -> RunRecord] /\ \A p \in Proc : Going(run[p], file, version, detected)

(* One command takes a step that changes nothing for the others. *)
LEMMA OneSteps ==
  ASSUME Commands, NEW p \in Proc, NEW r \in RunRecord, run' = [run EXCEPT ![p] = r],
         UNCHANGED <<file, version, detected>>, Going(r, file, version, detected)
  PROVE  Commands'
BY DEF Commands

(* One command takes a step that disturbs the others. *)
LEMMA OneDisturbs ==
  ASSUME Commands, NEW p \in Proc, NEW r \in RunRecord,
         run' = [Disturbed(Proc \ {p}) EXCEPT ![p] = r], Going(r, file', version', detected')
  PROVE  Commands'
<1> DEFINE d == Disturbed(Proc \ {p})
<1>1. d = [q \in Proc |-> IF q \in Proc \ {p} THEN [run[q] EXCEPT !.clean = FALSE] ELSE run[q]]
  BY DEF Disturbed
<1> HIDE DEF d
<1>2. run' = [d EXCEPT ![p] = r] /\ DOMAIN d = Proc
  BY <1>1 DEF d
<1>3. ASSUME NEW q \in Proc PROVE run'[q] \in RunRecord /\ Going(run'[q], file', version', detected')
  <2>1. CASE q = p
    BY <2>1, <1>2
  <2>2. CASE q # p
    <3>1. run'[q] = [run[q] EXCEPT !.clean = FALSE]
      BY <2>2, <1>1, <1>2
    <3>2. run[q] \in RunRecord /\ Going(run[q], file, version, detected)
      BY DEF Commands
    <3> QED BY <3>1, <3>2, DisturbedGoes
  <2> QED BY <2>1, <2>2
<1>4. run' = [q \in Proc |-> run'[q]]
  BY <1>2
<1>5. run' \in [Proc -> RunRecord]
  BY <1>3, <1>4
<1> QED BY <1>3, <1>5 DEF Commands

(* Somebody else disturbs all commands. *)
LEMMA AllDisturbed ==
  ASSUME Commands, run' = Disturbed(Proc)
  PROVE  Commands'
<1>1. run' = [q \in Proc |-> [run[q] EXCEPT !.clean = FALSE]]
  BY DEF Disturbed
<1>2. ASSUME NEW q \in Proc PROVE run'[q] \in RunRecord /\ Going(run'[q], file', version', detected')
  <2>1. run'[q] = [run[q] EXCEPT !.clean = FALSE]
    BY <1>1
  <2>2. run[q] \in RunRecord /\ Going(run[q], file, version, detected)
    BY DEF Commands
  <2> QED BY <2>1, <2>2, DisturbedGoes
<1>3. run' = [q \in Proc |-> run'[q]]
  BY <1>1
<1>4. run' \in [Proc -> RunRecord]
  BY <1>2, <1>3
<1> QED BY <1>2, <1>4 DEF Commands

LEMMA UnsettledEnded ==
  ASSUME NEW F, NEW V, NEW D, NEW U
  PROVE  Unsettled \in Outcome /\ Ended(Unsettled, F, V, D, U)
BY DEF Ended, Unsettled, Outcome

(* What the steps have to keep beside the commands. *)
Files == file \in [File -> Content] /\ \A f \in File : ForgesPart(f, file[f])
Counts == runs \in 0..MaxRuns /\ changes \in 0..MaxChanges /\ faults \in 0..MaxFaults
Rest == version \in [Bin -> 0..2] /\ unit \in Bin \cup {None} /\ detected \subseteq AgentSet
Kept == owed \in [File -> SUBSET Mine] /\ MineKept
Last == settled \in Outcome /\ Ended(settled, file, version, detected, unit)

LEMMA Parts ==
  /\ IInv <=> Commands /\ Files /\ Counts /\ Rest /\ Kept /\ Last
  /\ IInv' <=> Commands' /\ Files' /\ Counts' /\ Rest' /\ Kept' /\ Last'
BY DEF IInv, Commands, Files, Counts, Rest, Kept, Last, TypeOK, RunRecord, Outcome

LEMMA CountsStay ==
  ASSUME Counts, UNCHANGED counters
  PROVE  Counts'
BY DEF Counts, counters

LEMMA FilesStay ==
  ASSUME Files, Kept, UNCHANGED <<file, owed>>
  PROVE  Files' /\ Kept'
BY DEF Files, Kept, MineKept

LEMMA LastStays ==
  ASSUME Last, UNCHANGED <<settled, file, version, detected, unit>>
  PROVE  Last'
BY DEF Last

LEMMA LastGoes ==
  ASSUME settled' = Unsettled
  PROVE  Last'
BY UnsettledEnded DEF Last

LEMMA RestStays ==
  ASSUME Rest, UNCHANGED <<version, unit, detected>>
  PROVE  Rest'
BY DEF Rest

-----------------------------------------------------------------------------
(* The initial states. *)

LEMMA OldHook ==
  (CHOOSE b \in Managed : TRUE) \in Bin
BY PathsAssumption

LEMMA BeforeTyped ==
  ASSUME NEW kind \in {"new", "moved", "old"}, NEW f \in File
  PROVE  Before(kind, f) \in Content /\ ForgesPart(f, Before(kind, f))
<1>1. CASE kind = "new"
  BY <1>1, EmptyTyped DEF Before
<1>2. CASE kind # "new"
  <2> DEFINE o == CHOOSE b \in Managed : TRUE
             h == ForgeHook(o)
             hooks == CASE kind = "new" -> <<>> [] kind = "moved" -> <<h, h>> [] kind = "old" -> <<h>>
             c == Before(kind, f)
  <2>1. o \in Bin
    BY OldHook
  <2>2. h \in Hook /\ \A x \in h : x.by = "forge"
    BY <2>1, HookFacts
  <2> HIDE DEF o, h
  <2>3. hooks \in {<<h, h>>, <<h>>}
    BY <1>2
  <2>4. <<h, h>> \in Seq(Hook) /\ <<h>> \in Seq(Hook) /\ <<>> \in Seq(Hook)
    BY <2>2
  <2>5. CommandsOf(<<>>) = {} /\ CommandsOf(<<h>>) = h
    <3>1. DOMAIN <<h>> = {1} /\ <<h>>[1] = h
      OBVIOUS
    <3> QED BY <3>1 DEF CommandsOf
  <2>6. c = [kind  |-> "json",
             mcp   |-> IF f \in HookFile \cup ServerFile THEN o ELSE None,
             event |-> IF f \in ServerFile THEN <<>> ELSE IF f \in HookFile THEN hooks ELSE <<h>>,
             start |-> IF f \in HookFile /\ kind = "old" THEN <<h>> ELSE <<>>,
             mine  |-> {}]
    BY <1>2 DEF Before, o, h
  <2> HIDE DEF c, hooks
  <2>7. c.event \in Seq(Hook) /\ c.start \in Seq(Hook) /\ c.mcp \in Bin \cup {None} /\ c.mine = {}
    BY <2>1, <2>3, <2>4, <2>6
  <2>8. c \in Content
    BY <2>6, <2>7 DEF Content
  <2>9. ForgesPart(f, c)
    <3>1. f \in ServerFile => c.event = <<>>
      BY <2>6
    <3>2. f \notin HookFile => c.start = <<>> /\ c.event \in {<<>>, <<h>>}
      BY <2>6
    <3>3. f \notin HookFile => \A x \in CommandsOf(c.event) : x.by = "forge"
      BY <3>2, <2>5, <2>2
    <3> QED BY <3>1, <3>2, <3>3, <2>7 DEF ForgesPart
  <2> QED BY <2>8, <2>9 DEF c
<1> QED BY <1>1, <1>2

LEMMA InvInit == Init => IInv
<1> SUFFICES ASSUME Init PROVE IInv
  OBVIOUS
<1>1. Files
  <2>1. PICK kind \in {"new", "moved", "old"} : file = [f \in File |-> Before(kind, f)]
    BY DEF Init
  <2> QED BY <2>1, BeforeTyped DEF Files
<1>2. Commands
  <2>1. run = [p \in Proc |-> Idle]
    BY DEF Init
  <2> QED BY <2>1, IdleFacts DEF Commands
<1>3. Rest /\ Counts
  BY PathsAssumption, MachinesAssumption DEF Init, Rest, Counts, AgentSet
<1>4. Kept
  BY DEF Init, Kept, MineKept
<1>5. Last
  BY UnsettledEnded DEF Init, Last
<1> QED BY <1>1, <1>2, <1>3, <1>4, <1>5, Parts

-----------------------------------------------------------------------------
(* The steps of a command that write nothing. *)

LEMMA BeginKeeps ==
  ASSUME IInv, NEW p \in Proc, NEW cmd \in {"init", "sync", "start"}, NEW exe \in Bin, Begin(p, cmd, exe)
  PROVE  IInv'
<1> DEFINE r == [Idle EXCEPT !.cmd = cmd, !.exe = exe, !.pc = IF cmd = "init" THEN "sync" ELSE "scan"]
<1>1. Commands /\ Files /\ Counts /\ Rest /\ Kept /\ Last
  BY Parts
<1>2. r \in RunRecord /\ r.pc \in {"sync", "scan"} /\ r.exe = exe /\ r.cmd = cmd
      /\ (r.pc = "scan" => cmd # "init")
  BY IdleFacts DEF RunRecord
<1>3. run' = [run EXCEPT ![p] = r]
  BY DEF Begin
<1> HIDE DEF r
<1>4. cmd # None
  BY DEF None
<1>5. Going(r, file, version, detected)
  BY <1>2, <1>4 DEF Going
<1>6. Commands'
  BY <1>1, <1>2, <1>3, <1>5, OneSteps DEF Begin
<1>7. Counts'
  BY <1>1, MachinesAssumption DEF Counts, Begin
<1> QED BY <1>1, <1>6, <1>7, FilesStay, LastStays, RestStays, Parts DEF Begin

(* A check that finds nothing stale has found every file in order. *)
LEMMA NothingStale ==
  ASSUME NEW current, ~checkAndRepairIntegrationPaths(current), NEW f \in File
  PROVE  Repaired(f, file[f], version, current)
BY DEF checkAndRepairIntegrationPaths, StaleIn, Repaired, Equivalent

LEMMA ScanKeeps ==
  ASSUME IInv, NEW p \in Proc, Scan(p)
  PROVE  IInv'
<1> DEFINE current == ForgePath(run[p].exe)
           pc == IF checkAndRepairIntegrationPaths(current) \/ run[p].cmd = "sync"
                 THEN "sync" ELSE "service"
           r == [run[p] EXCEPT !.pc = pc]
<1>1. Commands /\ Files /\ Counts /\ Rest /\ Kept /\ Last
  BY Parts
<1>2. run[p] \in RunRecord /\ Going(run[p], file, version, detected) /\ run[p].pc = "scan"
  BY <1>1 DEF Commands, Scan
<1>3. run' = [run EXCEPT ![p] = r]
  <2>1. run' = [run EXCEPT ![p].pc = pc]
    BY DEF Scan
  <2> HIDE DEF pc
  <2> QED BY <2>1
<1>4. pc = "service" => run[p].cmd # "sync" /\ \A f \in File : Repaired(f, file[f], version, current)
  BY NothingStale
<1>5. pc \in {"sync", "service"}
  OBVIOUS
<1> HIDE DEF pc, current
<1>6. r \in RunRecord /\ r.pc = pc /\ r.exe = run[p].exe /\ r.cmd = run[p].cmd
  BY <1>2, <1>5 DEF RunRecord
<1> HIDE DEF r
<1>7. run[p].exe \in Bin /\ run[p].cmd \in {"sync", "start"} /\ run[p].cmd # None
  BY <1>2 DEF Going
<1>8. Going(r, file, version, detected)
  BY <1>4, <1>5, <1>6, <1>7 DEF Going, current
<1>9. Commands'
  BY <1>1, <1>3, <1>6, <1>8, OneSteps DEF Scan
<1> QED BY <1>1, <1>9, CountsStay, FilesStay, LastStays, RestStays, Parts DEF Scan

LEMMA SyncKeeps ==
  ASSUME IInv, NEW p \in Proc, syncIntegrations(p)
  PROVE  IInv'
<1> DEFINE todo == Todo(detected)
           r == [run[p] EXCEPT !.pc = "read", !.todo = todo]
<1>1. Commands /\ Files /\ Counts /\ Rest /\ Kept /\ Last
  BY Parts
<1>2. run[p] \in RunRecord /\ Going(run[p], file, version, detected) /\ run[p].pc = "sync"
  BY <1>1 DEF Commands, syncIntegrations
<1>3. todo \in Seq(File) /\ \A f \in File : AgentOf(f) \in detected => f \in Members(todo)
  BY TodoVisits
<1> HIDE DEF todo
<1>4. run' = [run EXCEPT ![p] = r]
  <2>1. run' = [run EXCEPT ![p].pc = "read", ![p].todo = todo]
    BY DEF syncIntegrations, todo
  <2> QED BY <2>1, <1>1 DEF Commands
<1>5. r \in RunRecord /\ r.pc = "read" /\ r.exe = run[p].exe /\ r.cmd = run[p].cmd /\ r.todo = todo
  BY <1>2, <1>3 DEF RunRecord
<1> HIDE DEF r
<1>6. Going(r, file, version, detected)
  BY <1>2, <1>3, <1>5 DEF Going
<1>7. Commands'
  BY <1>1, <1>4, <1>5, <1>6, OneSteps DEF syncIntegrations
<1> QED BY <1>1, <1>7, CountsStay, FilesStay, LastStays, RestStays, Parts DEF syncIntegrations

LEMMA ReadKeeps ==
  ASSUME IInv, NEW p \in Proc, Read(p)
  PROVE  IInv'
<1> DEFINE f == Head(run[p].todo)
           snap == file[f]
           r == [run[p] EXCEPT !.pc = "write", !.snap = snap]
<1>1. Commands /\ Files /\ Counts /\ Rest /\ Kept /\ Last
  BY Parts
<1>2. run[p] \in RunRecord /\ Going(run[p], file, version, detected)
      /\ run[p].pc = "read" /\ run[p].todo # <<>>
  BY <1>1 DEF Commands, Read
<1>3. run[p].todo \in Seq(File) /\ f \in File
  <2>1. run[p].todo \in Seq(File)
    BY <1>2 DEF RunRecord
  <2> QED BY <2>1, <1>2, SeqTail
<1>4. snap \in Content /\ ForgesPart(f, snap)
  BY <1>1, <1>3 DEF Files
<1>5. run' = [run EXCEPT ![p] = r]
  <2>1. run' = [run EXCEPT ![p].pc = "write", ![p].snap = snap]
    BY DEF Read
  <2> QED BY <2>1, <1>1 DEF Commands
<1> HIDE DEF snap
<1>6. r \in RunRecord /\ r.pc = "write" /\ r.exe = run[p].exe /\ r.cmd = run[p].cmd
      /\ r.todo = run[p].todo /\ r.snap = snap /\ r.clean = run[p].clean
  BY <1>2, <1>4 DEF RunRecord
<1> HIDE DEF r
<1>7. Going(r, file, version, detected)
  BY <1>2, <1>4, <1>6 DEF Going
<1>8. Commands'
  BY <1>1, <1>5, <1>6, <1>7, OneSteps DEF Read
<1> QED BY <1>1, <1>8, CountsStay, FilesStay, LastStays, RestStays, Parts DEF Read

-----------------------------------------------------------------------------
(* A write, and what may happen instead of it. *)

LEMMA WriterFacts ==
  ASSUME IInv, NEW p \in Proc, run[p].pc = "write"
  PROVE  /\ run[p] \in RunRecord /\ Going(run[p], file, version, detected)
         /\ run[p].todo \in Seq(File) /\ run[p].todo # <<>>
         /\ Head(run[p].todo) \in File /\ Tail(run[p].todo) \in Seq(File)
         /\ \A x \in Members(run[p].todo) : x = Head(run[p].todo) \/ x \in Members(Tail(run[p].todo))
         /\ run[p].snap \in Content /\ ForgesPart(Head(run[p].todo), run[p].snap)
         /\ run[p].exe \in Bin /\ run[p].cmd # None
<1>1. run[p] \in RunRecord /\ Going(run[p], file, version, detected)
  BY Parts DEF Commands
<1>2. run[p].todo \in Seq(File) /\ run[p].snap \in Content
  BY <1>1 DEF RunRecord
<1>3. run[p].todo # <<>> /\ ForgesPart(Head(run[p].todo), run[p].snap)
      /\ run[p].exe \in Bin /\ run[p].cmd # None
  BY <1>1 DEF Going
<1>4. Head(run[p].todo) \in File /\ Tail(run[p].todo) \in Seq(File)
      /\ \A x \in Members(run[p].todo) : x = Head(run[p].todo) \/ x \in Members(Tail(run[p].todo))
  BY <1>2, <1>3, SeqTail
<1> QED BY <1>1, <1>2, <1>3, <1>4

LEMMA WentTyped ==
  ASSUME NEW p \in Proc, run[p] \in RunRecord, NEW todo \in Seq(File), NEW clean \in BOOLEAN
  PROVE  /\ Went(p, todo, clean) \in RunRecord
         /\ Went(p, todo, clean).pc = "read" /\ Went(p, todo, clean).todo = todo
         /\ Went(p, todo, clean).exe = run[p].exe /\ Went(p, todo, clean).cmd = run[p].cmd
         /\ Went(p, todo, clean).clean = (run[p].clean /\ clean)
<1>1. Idle.snap \in Content
  BY IdleFacts DEF RunRecord
<1>2. (run[p].clean /\ clean) \in BOOLEAN /\ run[p].clean \in BOOLEAN
  BY DEF RunRecord
<1> QED BY <1>1, <1>2 DEF Went, RunRecord

LEMMA WriteKeeps ==
  ASSUME IInv, NEW p \in Proc, Write(p)
  PROVE  IInv'
<1> DEFINE f == Head(run[p].todo)
           before == IF f = "codex/config" THEN file[f] ELSE run[p].snap
           b == ForgePath(run[p].exe)
           c == Setup(f, before, b)
           rest == Tail(run[p].todo)
           r == Went(p, rest, TRUE)
<1>1. Commands /\ Files /\ Counts /\ Rest /\ Kept /\ Last /\ run[p].pc = "write"
  BY Parts DEF Write
<1>2. /\ run[p] \in RunRecord /\ Going(run[p], file, version, detected)
      /\ f \in File /\ rest \in Seq(File) /\ run[p].exe \in Bin /\ run[p].cmd # None
      /\ \A x \in Members(run[p].todo) : x = f \/ x \in Members(rest)
      /\ run[p].snap \in Content /\ ForgesPart(f, run[p].snap)
  BY <1>1, WriterFacts
<1>3. b \in Bin
  BY <1>2, ForgePathInstalled
<1>4. before \in Content /\ ForgesPart(f, before)
  BY <1>1, <1>2 DEF Files
<1>5. /\ IF file[f] = c
         THEN /\ run' = [run EXCEPT ![p] = r]
              /\ UNCHANGED <<file, owed, settled>>
         ELSE /\ file' = [file EXCEPT ![f] = c]
              /\ owed' = [owed EXCEPT ![f] = IF before.kind = "json"
                                             THEN @ \cap (MineIn(before) \ Shared(before)) ELSE {}]
              /\ run' = [Disturbed(Proc \ {p}) EXCEPT ![p] = r]
              /\ settled' = Unsettled
      /\ UNCHANGED <<version, unit, detected, counters>>
  BY DEF Write
<1>6. /\ r \in RunRecord /\ r.pc = "read" /\ r.todo = rest /\ r.exe = run[p].exe
      /\ r.cmd = run[p].cmd /\ r.clean = run[p].clean
  <2>1. (run[p].clean /\ TRUE) = run[p].clean
    BY <1>2 DEF RunRecord
  <2> QED BY <2>1, <1>2, WentTyped
<1> HIDE DEF r, b, before, rest, f
<1>7. /\ c \in Content /\ ForgesPart(f, c) /\ (f \in HookFile => OneHook(c))
      /\ \A x \in Scanned(f, c) : x.by = "user" \/ x.bin = b \/ x \in CommandsOf(c.start)
  BY <1>2, <1>3, <1>4, SetupMakes DEF OneHook
<1>8. before.kind = "json" => MineIn(before) \ Shared(before) \subseteq MineIn(c)
  BY <1>2, <1>3, <1>4, SetupKeeps
<1> HIDE DEF c
<1>9. \A V : Repaired(f, c, V, b)
  BY <1>7 DEF Repaired
<1>10. ASSUME NEW F, F[f] = c, \A g \in File \ {f} : F[g] = file[g]
       PROVE  Going(r, F, version, detected)
  <2>1. ASSUME r.clean, NEW g \in File, AgentOf(g) \in detected, g \notin Members(rest)
        PROVE  Repaired(g, F[g], version, b) /\ (g \in HookFile => OneHook(F[g]))
    <3>1. CASE g = f
      BY <3>1, <1>10, <1>9, <1>7
    <3>2. CASE g # f
      <4>1. g \notin Members(run[p].todo)
        BY <3>2, <2>1, <1>2
      <4> QED BY <4>1, <3>2, <2>1, <1>10, <1>1, <1>2, <1>6 DEF Going, b
    <3> QED BY <3>1, <3>2
  <2>2. r.pc = "read" /\ r.todo = rest /\ b = ForgePath(r.exe) /\ r.exe \in Bin /\ r.cmd # None
    BY <1>2, <1>6 DEF b
  <2> QED BY <2>1, <2>2 DEF Going
<1>11. CASE file[f] = c
  <2>1. run' = [run EXCEPT ![p] = r] /\ UNCHANGED <<file, owed, settled>>
    BY <1>5, <1>11
  <2>2. Going(r, file, version, detected)
    BY <1>10, <1>11
  <2>3. Commands'
    BY <1>1, <1>5, <1>6, <2>1, <2>2, OneSteps
  <2> QED BY <1>1, <1>5, <2>1, <2>3, CountsStay, FilesStay, LastStays, RestStays, Parts
<1>12. CASE file[f] # c
  <2>1. /\ file' = [file EXCEPT ![f] = c]
        /\ owed' = [owed EXCEPT ![f] = IF before.kind = "json"
                                       THEN @ \cap (MineIn(before) \ Shared(before)) ELSE {}]
        /\ run' = [Disturbed(Proc \ {p}) EXCEPT ![p] = r]
        /\ settled' = Unsettled
    BY <1>5, <1>12
  <2>2. file' \in [File -> Content] /\ file'[f] = c /\ \A g \in File \ {f} : file'[g] = file[g]
    BY <1>1, <1>2, <1>7, <2>1 DEF Files
  <2>3. Files'
    BY <1>1, <1>7, <2>2 DEF Files
  <2>4. Going(r, file', version', detected')
    BY <1>5, <1>10, <2>2
  <2>5. Commands'
    BY <1>1, <1>6, <2>1, <2>4, OneDisturbs
  <2>6. owed' \in [File -> SUBSET Mine] /\ owed'[f] \subseteq MineIn(c)
        /\ \A g \in File \ {f} : owed'[g] = owed[g]
    BY <1>1, <1>2, <1>8, <2>1 DEF Kept
  <2>7. Kept'
    BY <1>1, <2>2, <2>6 DEF Kept, MineKept
  <2>8. Last'
    BY <2>1, LastGoes
  <2> QED BY <1>1, <1>5, <2>3, <2>5, <2>7, <2>8, CountsStay, RestStays, Parts
<1> QED BY <1>11, <1>12

LEMMA RefusedKeeps ==
  ASSUME IInv, NEW p \in Proc, Refused(p)
  PROVE  IInv'
<1> DEFINE f == Head(run[p].todo)
           rest == IF f = "codex/config" THEN Tail(run[p].todo)
                   ELSE Without(Tail(run[p].todo), FilesIn(AgentOf(f)))
<1>1. Commands /\ Files /\ Counts /\ Rest /\ Kept /\ Last /\ run[p].pc = "write"
  BY Parts DEF Refused
<1>2. /\ run[p] \in RunRecord /\ Tail(run[p].todo) \in Seq(File)
      /\ run[p].exe \in Bin /\ run[p].cmd # None
  BY <1>1, WriterFacts
<1>3. rest \in Seq(File)
  <2>1. Without(Tail(run[p].todo), FilesIn(AgentOf(f))) \in Seq(File)
    BY <1>2, WithoutPlaces
  <2> QED BY <2>1, <1>2
<1>4. PICK todo \in {Tail(run[p].todo), rest} : run' = [run EXCEPT ![p] = Went(p, todo, FALSE)]
  BY DEF Refused
<1> HIDE DEF rest
<1>5. todo \in Seq(File)
  BY <1>2, <1>3, <1>4
<1> DEFINE r == Went(p, todo, FALSE)
<1>6. r \in RunRecord /\ r.pc = "read" /\ r.exe = run[p].exe /\ r.cmd = run[p].cmd /\ ~r.clean
  BY <1>2, <1>5, WentTyped
<1> HIDE DEF r
<1>7. Going(r, file, version, detected)
  BY <1>2, <1>6 DEF Going
<1>8. Commands'
  BY <1>1, <1>4, <1>6, <1>7, OneSteps DEF Refused, r
<1>9. Counts'
  BY <1>1, MachinesAssumption DEF Counts, Refused
<1> QED BY <1>1, <1>8, <1>9, FilesStay, LastStays, RestStays, Parts DEF Refused

LEMMA DieKeeps ==
  ASSUME IInv, NEW p \in Proc, Die(p)
  PROVE  IInv'
<1>1. Commands /\ Files /\ Counts /\ Rest /\ Kept /\ Last
  BY Parts
<1>2. file' \in [File -> Content] /\ \A f \in File : file'[f] = file[f] \/ file'[f] = Empty("broken")
  <2>1. CASE file' = file
    BY <2>1, <1>1 DEF Files
  <2>2. CASE /\ run[p].pc = "write" /\ Head(run[p].todo) # "codex/config"
             /\ file' = [file EXCEPT ![Head(run[p].todo)] = Empty("broken")]
    <3>1. Empty("broken") \in Content
      BY EmptyTyped
    <3> QED BY <2>2, <3>1, <1>1 DEF Files
  <2> QED BY <2>1, <2>2 DEF Die
<1>3. Files'
  BY <1>1, <1>2, EmptyTyped DEF Files
<1>4. Kept'
  <2>1. owed' = [f \in File |-> IF file'[f] = file[f] THEN owed[f] ELSE {}]
    BY DEF Die
  <2> QED BY <1>1, <2>1 DEF Kept, MineKept
<1>5. Commands'
  <2>1. run' = [Disturbed(Proc \ {p}) EXCEPT ![p] = Idle]
    BY DEF Die
  <2> QED BY <2>1, <1>1, IdleFacts, OneDisturbs
<1>6. Last'
  BY LastGoes DEF Die
<1>7. Counts'
  BY <1>1, MachinesAssumption DEF Counts, Die
<1> QED BY <1>1, <1>3, <1>4, <1>5, <1>6, <1>7, RestStays, Parts DEF Die

-----------------------------------------------------------------------------
(* The end of a command, and the service. *)

LEMMA FinishedEnds ==
  ASSUME Commands, NEW p \in Proc, Finished(p), run[p].pc # "idle", NEW U,
         run[p].clean => \A f \in File : AgentOf(f) \in detected =>
                            Repaired(f, file[f], version, ForgePath(run[p].exe)),
         run[p].clean /\ run[p].cmd = "start" => U \in {None, run[p].exe},
         run[p].clean /\ run[p].cmd # "start" =>
            \A f \in HookFile : AgentOf(f) \in detected => OneHook(file[f]),
         UNCHANGED <<file, version, detected>>
  PROVE  Commands' /\ settled' \in Outcome /\ Ended(settled', file, version, detected, U)
<1>1. Commands'
  BY IdleFacts, OneSteps DEF Finished
<1>2. run[p].cmd \in {"init", "sync", "start", None} /\ run[p].exe \in Bin \cup {None}
  BY DEF Commands, RunRecord
<1>3. CASE run[p].clean
  <2>1. settled' = [cmd |-> run[p].cmd, exe |-> run[p].exe]
    BY <1>3 DEF Finished
  <2>2. settled' \in Outcome /\ settled'.cmd = run[p].cmd /\ settled'.exe = run[p].exe
    BY <2>1, <1>2 DEF Outcome
  <2>3. Ended(settled', file, version, detected, U)
    BY <2>2, <1>3 DEF Ended
  <2> QED BY <1>1, <2>2, <2>3
<1>4. CASE ~run[p].clean
  BY <1>1, <1>4, UnsettledEnded DEF Finished
<1> QED BY <1>3, <1>4

LEMMA SyncEndsKeeps ==
  ASSUME IInv, NEW p \in Proc, SyncEnds(p)
  PROVE  IInv'
<1>1. Commands /\ Files /\ Counts /\ Rest /\ Kept /\ Last
  BY Parts
<1>2. run[p] \in RunRecord /\ Going(run[p], file, version, detected)
      /\ run[p].pc = "read" /\ run[p].todo = <<>> /\ UNCHANGED <<version, file, unit, detected, owed, counters>>
  BY <1>1 DEF Commands, SyncEnds
<1>3. run[p].clean => \A f \in File : AgentOf(f) \in detected =>
         /\ Repaired(f, file[f], version, ForgePath(run[p].exe))
         /\ f \in HookFile => OneHook(file[f])
  <2>1. Members(<<>>) = {}
    BY DEF Members
  <2> QED BY <2>1, <1>2 DEF Going
<1>4. CASE run[p].cmd = "start"
  <2> DEFINE r == [run[p] EXCEPT !.pc = "service"]
  <2>1. run' = [run EXCEPT ![p] = r] /\ UNCHANGED settled
    BY <1>4 DEF SyncEnds
  <2>2. r \in RunRecord /\ r.pc = "service" /\ r.exe = run[p].exe /\ r.cmd = run[p].cmd
        /\ r.clean = run[p].clean
    BY <1>2 DEF RunRecord
  <2> HIDE DEF r
  <2>3. Going(r, file, version, detected)
    BY <2>2, <1>2, <1>3, <1>4 DEF Going
  <2>4. Commands'
    BY <1>1, <1>2, <2>1, <2>2, <2>3, OneSteps
  <2> QED BY <1>1, <1>2, <2>1, <2>4, CountsStay, FilesStay, LastStays, RestStays, Parts
<1>5. CASE run[p].cmd # "start"
  <2>1. Finished(p)
    BY <1>5 DEF SyncEnds
  <2>2. \A f \in HookFile : f \in File
    BY FileNames DEF HookFile
  <2>3. run[p].clean => \A f \in HookFile : AgentOf(f) \in detected => OneHook(file[f])
    BY <1>3, <2>2
  <2>4. run[p].clean => \A f \in File : AgentOf(f) \in detected =>
           Repaired(f, file[f], version, ForgePath(run[p].exe))
    BY <1>3
  <2>5. run[p].pc # "idle"
    BY <1>2
  <2>6. Commands' /\ settled' \in Outcome /\ Ended(settled', file, version, detected, unit)
    BY <1>1, <1>2, <1>5, <2>1, <2>3, <2>4, <2>5, FinishedEnds
  <2>7. Last'
    BY <2>6, <1>2 DEF Last
  <2> QED BY <1>1, <1>2, <2>6, <2>7, CountsStay, FilesStay, RestStays, Parts
<1> QED BY <1>4, <1>5

LEMMA RepairServiceKeeps ==
  ASSUME IInv, NEW p \in Proc, RepairService(p)
  PROVE  IInv'
<1>1. Commands /\ Files /\ Counts /\ Rest /\ Kept /\ Last
  BY Parts
<1>2. run[p] \in RunRecord /\ Going(run[p], file, version, detected)
      /\ run[p].pc = "service" /\ UNCHANGED <<version, file, detected, owed, counters>>
  BY <1>1 DEF Commands, RepairService
<1>3. run[p].cmd = "start" /\ run[p].exe \in Bin /\ run[p].cmd # None
      /\ (run[p].clean => \A f \in File : AgentOf(f) \in detected =>
            Repaired(f, file[f], version, ForgePath(run[p].exe)))
  BY <1>2 DEF Going
<1>4. CASE unit \in {None, run[p].exe}
  <2>1. Finished(p) /\ UNCHANGED unit /\ run[p].pc # "idle"
    BY <1>2, <1>4 DEF RepairService
  <2>2. Commands' /\ settled' \in Outcome /\ Ended(settled', file, version, detected, unit)
    BY <1>1, <1>2, <1>3, <1>4, <2>1, FinishedEnds
  <2>3. Last'
    BY <2>1, <2>2, <1>2 DEF Last
  <2> QED BY <1>1, <1>2, <2>1, <2>2, <2>3, CountsStay, FilesStay, RestStays, Parts
<1>5. CASE unit \notin {None, run[p].exe}
  <2> DEFINE r == [run[p] EXCEPT !.pc = "install"]
             d == Disturbed(Proc \ {p})
  <2>1. unit' = None /\ settled' = Unsettled /\ run' = [d EXCEPT ![p].pc = "install"]
    BY <1>5 DEF RepairService
  <2>2. DOMAIN d = Proc /\ d[p] = run[p]
    BY DEF Disturbed
  <2>3. run' = [Disturbed(Proc \ {p}) EXCEPT ![p] = r]
    BY <2>1, <2>2
  <2>4. r \in RunRecord /\ r.pc = "install" /\ r.exe = run[p].exe /\ r.cmd = run[p].cmd
        /\ r.clean = run[p].clean
    BY <1>2 DEF RunRecord
  <2> HIDE DEF r
  <2>5. Going(r, file', version', detected')
    BY <2>4, <1>2, <1>3 DEF Going
  <2>6. Commands'
    BY <1>1, <2>3, <2>4, <2>5, OneDisturbs
  <2>7. Rest'
    BY <1>1, <1>2, <2>1 DEF Rest
  <2>8. Last'
    BY <2>1, LastGoes
  <2> QED BY <1>1, <1>2, <2>6, <2>7, <2>8, CountsStay, FilesStay, Parts
<1> QED BY <1>4, <1>5

LEMMA InstallServiceKeeps ==
  ASSUME IInv, NEW p \in Proc, InstallService(p)
  PROVE  IInv'
<1>1. Commands /\ Files /\ Counts /\ Rest /\ Kept /\ Last
  BY Parts
<1>2. run[p] \in RunRecord /\ Going(run[p], file, version, detected)
      /\ run[p].pc = "install" /\ UNCHANGED <<version, file, detected, owed, counters>>
      /\ unit' = run[p].exe /\ run' = [Disturbed(Proc \ {p}) EXCEPT ![p] = Idle]
      /\ settled' = IF run[p].clean THEN [cmd |-> run[p].cmd, exe |-> run[p].exe] ELSE Unsettled
  BY <1>1 DEF Commands, InstallService
<1>3. run[p].cmd = "start" /\ run[p].exe \in Bin
      /\ (run[p].clean => \A f \in File : AgentOf(f) \in detected =>
            Repaired(f, file[f], version, ForgePath(run[p].exe)))
  BY <1>2 DEF Going
<1>4. Commands'
  BY <1>1, <1>2, IdleFacts, OneDisturbs
<1>5. Rest'
  BY <1>1, <1>2, <1>3 DEF Rest
<1>6. Last'
  <2>1. CASE run[p].clean
    <3>1. settled' = [cmd |-> "start", exe |-> run[p].exe]
      BY <1>2, <1>3, <2>1
    <3>2. settled' \in Outcome /\ settled'.cmd = "start" /\ settled'.exe = run[p].exe
      BY <3>1, <1>3 DEF Outcome
    <3> QED BY <3>2, <2>1, <1>2, <1>3 DEF Last, Ended
  <2>2. CASE ~run[p].clean
    BY <1>2, <2>2, LastGoes
  <2> QED BY <2>1, <2>2
<1> QED BY <1>1, <1>2, <1>4, <1>5, <1>6, CountsStay, FilesStay, Parts

-----------------------------------------------------------------------------
(* Everybody else. *)

LEMMA DoctorRepairKeeps ==
  ASSUME IInv, NEW exe \in Bin, DoctorRepair(exe)
  PROVE  IInv'
<1>1. Commands /\ Files /\ Counts /\ Rest /\ Kept /\ Last
  BY Parts
<1>2. Commands' /\ Last'
  BY <1>1, AllDisturbed, LastGoes DEF DoctorRepair
<1>3. Rest'
  <2>1. \E active : version' = [b \in Bin |-> IF b \in Managed /\ b # active /\ version[b] # version[active]
                                              THEN 0 ELSE version[b]]
    BY DEF DoctorRepair
  <2>2. version' \in [Bin -> 0..2]
    BY <2>1, <1>1 DEF Rest
  <2> QED BY <2>2, <1>1 DEF Rest, DoctorRepair
<1>4. Counts'
  BY <1>1, MachinesAssumption DEF Counts, DoctorRepair
<1> QED BY <1>1, <1>2, <1>3, <1>4, FilesStay, Parts DEF DoctorRepair

LEMMA ServiceCommandKeeps ==
  ASSUME IInv, NEW exe \in Bin, ServiceCommand(exe)
  PROVE  IInv'
<1>1. Commands /\ Files /\ Counts /\ Rest /\ Kept /\ Last
  BY Parts
<1>2. Commands' /\ Last'
  BY <1>1, AllDisturbed, LastGoes DEF ServiceCommand
<1>3. Rest' /\ Counts'
  BY <1>1, MachinesAssumption DEF Rest, Counts, ServiceCommand
<1> QED BY <1>1, <1>2, <1>3, FilesStay, Parts DEF ServiceCommand

LEMMA UpgradeKeeps ==
  ASSUME IInv, NEW b \in Bin, NEW v \in 0..2, Upgrade(b, v)
  PROVE  IInv'
<1>1. Commands /\ Files /\ Counts /\ Rest /\ Kept /\ Last
  BY Parts
<1>2. Commands' /\ Last'
  BY <1>1, AllDisturbed, LastGoes DEF Upgrade, Changed
<1>3. Rest' /\ Counts'
  BY <1>1, MachinesAssumption DEF Rest, Counts, Upgrade, Changed
<1> QED BY <1>1, <1>2, <1>3, FilesStay, Parts DEF Upgrade

LEMMA LeaveKeeps ==
  ASSUME IInv, NEW a \in AgentSet, Leave(a)
  PROVE  IInv'
<1>1. Commands /\ Files /\ Counts /\ Rest /\ Kept /\ Last
  BY Parts
<1>2. Commands' /\ Last'
  BY <1>1, AllDisturbed, LastGoes DEF Leave, Changed
<1>3. Rest' /\ Counts'
  BY <1>1, MachinesAssumption DEF Rest, Counts, Leave, Changed
<1> QED BY <1>1, <1>2, <1>3, FilesStay, Parts DEF Leave

LEMMA UserHookFacts ==
  ASSUME NEW m \in Mine, NEW b \in Bin \cup {None}
  PROVE  /\ UserHook(m, b) \in Hook
         /\ \E x \in UserHook(m, b) : x.by = "user" /\ x.name = m
<1>1. [by |-> "user", name |-> m, bin |-> b] \in Command
  BY DEF Command
<1> QED BY <1>1 DEF UserHook, Hook

(* The hooks of an event with one more, or with another command in the first. *)
LEMMA MoreCommands ==
  ASSUME NEW s \in Seq(Hook), NEW h \in Hook, NEW t,
         t = Append(s, h) \/ (s # <<>> /\ t = [s EXCEPT ![1] = @ \cup h])
  PROVE  t \in Seq(Hook) /\ CommandsOf(s) \cup h \subseteq CommandsOf(t)
<1>1. DOMAIN s = 1..Len(s) /\ Len(s) \in Nat
  OBVIOUS
<1>2. CASE t = Append(s, h)
  <2>1. t \in Seq(Hook) /\ Len(s) + 1 \in DOMAIN t /\ t[Len(s) + 1] = h
        /\ \A i \in DOMAIN s : i \in DOMAIN t /\ t[i] = s[i]
    BY <1>2
  <2> QED BY <2>1 DEF CommandsOf
<1>3. CASE s # <<>> /\ t = [s EXCEPT ![1] = @ \cup h]
  <2>1. 1 \in DOMAIN s /\ s[1] \cup h \in Hook
    <3>1. 1 \in DOMAIN s /\ s[1] \in Hook
      <4>1. s # <<>>
        BY <1>3
      <4>2. Len(s) # 0
        BY <4>1
      <4> QED BY <4>2, <1>1
    <3> QED BY <3>1 DEF Hook
  <2>2. t \in Seq(Hook) /\ DOMAIN t = DOMAIN s /\ t[1] = s[1] \cup h
        /\ \A i \in DOMAIN s : i # 1 => t[i] = s[i]
    BY <2>1, <1>3
  <2>3. \A i \in DOMAIN s : s[i] \subseteq t[i]
    BY <2>2
  <2> QED BY <2>1, <2>2, <2>3 DEF CommandsOf
<1> QED BY <1>2, <1>3

LEMMA EditMakes ==
  ASSUME NEW f \in File, NEW c \in Content, ForgesPart(f, c), f \notin WholeFile,
         NEW m \in Mine, NEW b \in Bin \cup {None}, NEW d,
         \/ d = [c EXCEPT !.mine = @ \cup {m}]
         \/ f \in HookFile /\ d = [c EXCEPT !.event = Append(@, UserHook(m, b))]
         \/ f \in HookFile /\ c.event # <<>> /\ d = [c EXCEPT !.event[1] = @ \cup UserHook(m, b)]
  PROVE  d \in Content /\ ForgesPart(f, d) /\ MineIn(c) \cup {m} \subseteq MineIn(d)
<1>1. CASE d = [c EXCEPT !.mine = @ \cup {m}]
  <2>1. d \in Content /\ d.mine = c.mine \cup {m} /\ d.event = c.event /\ d.start = c.start
    BY <1>1 DEF Content
  <2> QED BY <2>1 DEF ForgesPart, MineIn
<1>2. CASE f \in HookFile /\ (d = [c EXCEPT !.event = Append(@, UserHook(m, b))]
                              \/ (c.event # <<>> /\ d = [c EXCEPT !.event[1] = @ \cup UserHook(m, b)]))
  <2> DEFINE h == UserHook(m, b)
             s == c.event
             t == d.event
  <2>1. h \in Hook /\ \E x \in h : x.by = "user" /\ x.name = m
    BY UserHookFacts
  <2> HIDE DEF h
  <2>2. /\ t = Append(s, h) \/ (s # <<>> /\ t = [s EXCEPT ![1] = @ \cup h])
        /\ d = [c EXCEPT !.event = t]
    <3>1. CASE d = [c EXCEPT !.event = Append(@, UserHook(m, b))]
      BY <3>1 DEF h, Content
    <3>2. CASE c.event # <<>> /\ d = [c EXCEPT !.event[1] = @ \cup UserHook(m, b)]
      BY <3>2 DEF h, Content
    <3> QED BY <3>1, <3>2, <1>2
  <2>3. s \in Seq(Hook)
    BY DEF Content
  <2> HIDE DEF s, t
  <2>4. t \in Seq(Hook) /\ CommandsOf(s) \cup h \subseteq CommandsOf(t)
    BY <2>1, <2>2, <2>3, MoreCommands
  <2>5. d \in Content /\ d.mine = c.mine /\ d.event = t /\ d.start = c.start
    BY <2>2, <2>4 DEF Content
  <2>6. ForgesPart(f, d)
    BY <1>2 DEF ForgesPart, HookFile, ServerFile, WholeFile
  <2>7. MineIn(c) \cup {m} \subseteq MineIn(d)
    BY <2>1, <2>4, <2>5 DEF MineIn, s
  <2> QED BY <2>5, <2>6, <2>7
<1> QED BY <1>1, <1>2

LEMMA EditKeeps ==
  ASSUME IInv, NEW f \in File, NEW m \in Mine, NEW b \in Managed \cup {None}, Edit(f, m, b)
  PROVE  IInv'
<1>1. Commands /\ Files /\ Counts /\ Rest /\ Kept /\ Last
  BY Parts
<1>2. Commands' /\ Last'
  BY <1>1, AllDisturbed, LastGoes DEF Edit, Changed
<1>3. file[f] \in Content /\ ForgesPart(f, file[f]) /\ f \notin WholeFile /\ b \in Bin \cup {None}
  BY <1>1, PathsAssumption DEF Files, Edit
<1>4. PICK d : /\ file' = [file EXCEPT ![f] = d]
               /\ \/ d = [file[f] EXCEPT !.mine = @ \cup {m}]
                  \/ f \in HookFile /\ d = [file[f] EXCEPT !.event = Append(@, UserHook(m, b))]
                  \/ f \in HookFile /\ file[f].event # <<>>
                       /\ d = [file[f] EXCEPT !.event[1] = @ \cup UserHook(m, b)]
  <2>1. CASE file' = [file EXCEPT ![f].mine = @ \cup {m}]
    <3> DEFINE e == [file[f] EXCEPT !.mine = @ \cup {m}]
    <3>1. file' = [file EXCEPT ![f] = e]
      BY <2>1, <1>1 DEF Files
    <3> QED BY <3>1
  <2>2. CASE f \in HookFile /\ file' = [file EXCEPT ![f].event = Append(@, UserHook(m, b))]
    <3> DEFINE e == [file[f] EXCEPT !.event = Append(@, UserHook(m, b))]
    <3>1. file' = [file EXCEPT ![f] = e]
      BY <2>2, <1>1 DEF Files
    <3> QED BY <3>1, <2>2
  <2>3. CASE f \in HookFile /\ file[f].event # <<>>
             /\ file' = [file EXCEPT ![f].event[1] = @ \cup UserHook(m, b)]
    <3> DEFINE e == [file[f] EXCEPT !.event[1] = @ \cup UserHook(m, b)]
    <3>1. file' = [file EXCEPT ![f] = e]
      BY <2>3, <1>1 DEF Files
    <3> QED BY <3>1, <2>3
  <2> QED BY <2>1, <2>2, <2>3 DEF Edit
<1>5. d \in Content /\ ForgesPart(f, d) /\ MineIn(file[f]) \cup {m} \subseteq MineIn(d)
  BY <1>3, <1>4, EditMakes
<1>6. file' \in [File -> Content] /\ file'[f] = d /\ \A g \in File \ {f} : file'[g] = file[g]
  BY <1>1, <1>4, <1>5 DEF Files
<1>7. Files'
  BY <1>1, <1>5, <1>6 DEF Files
<1>8. Kept'
  <2>1. owed' = [owed EXCEPT ![f] = @ \cup {m}]
    BY DEF Edit
  <2>2. owed' \in [File -> SUBSET Mine] /\ owed'[f] = owed[f] \cup {m}
        /\ \A g \in File \ {f} : owed'[g] = owed[g]
    BY <2>1, <1>1 DEF Kept
  <2>3. \A g \in File : owed[g] \subseteq MineIn(file[g])
    BY <1>1 DEF Kept, MineKept
  <2>4. \A g \in File : owed'[g] \subseteq MineIn(file'[g])
    BY <2>2, <2>3, <1>5, <1>6
  <2> QED BY <2>2, <2>4 DEF Kept, MineKept
<1>9. Rest' /\ Counts'
  BY <1>1, MachinesAssumption DEF Rest, Counts, Edit, Changed
<1> QED BY <1>2, <1>7, <1>8, <1>9, Parts

-----------------------------------------------------------------------------
(* The invariant holds, and what follows from it. *)

LEMMA StepKeeps == IInv /\ [Next]_vars => IInv'
<1> SUFFICES ASSUME IInv, [Next]_vars PROVE IInv'
  OBVIOUS
<1>1. ASSUME NEW p \in Proc, NEW cmd \in {"init", "sync", "start"}, NEW exe \in Bin, Begin(p, cmd, exe)
      PROVE  IInv'
  BY <1>1, BeginKeeps
<1>2. ASSUME NEW p \in Proc,
             \/ Scan(p) \/ syncIntegrations(p) \/ Read(p) \/ Write(p) \/ Refused(p)
             \/ Die(p) \/ SyncEnds(p) \/ RepairService(p) \/ InstallService(p)
      PROVE  IInv'
  BY <1>2, ScanKeeps, SyncKeeps, ReadKeeps, WriteKeeps, RefusedKeeps, DieKeeps, SyncEndsKeeps,
     RepairServiceKeeps, InstallServiceKeeps
<1>3. ASSUME NEW exe \in Bin, DoctorRepair(exe) \/ ServiceCommand(exe)
      PROVE  IInv'
  BY <1>3, DoctorRepairKeeps, ServiceCommandKeeps
<1>4. ASSUME NEW f \in File, NEW m \in Mine, NEW b \in Managed \cup {None}, Edit(f, m, b)
      PROVE  IInv'
  BY <1>4, EditKeeps
<1>5. ASSUME NEW b \in Bin \ Unstable, NEW v \in 0..2, Upgrade(b, v)
      PROVE  IInv'
  BY <1>5, UpgradeKeeps
<1>6. ASSUME NEW a \in AgentSet, Leave(a)
      PROVE  IInv'
  BY <1>6, LeaveKeeps
<1>7. CASE UNCHANGED vars
  <2>1. UNCHANGED <<version, file, unit, detected, owed, settled, counters, run>>
    BY <1>7 DEF vars, counters
  <2>2. Commands /\ Files /\ Counts /\ Rest /\ Kept /\ Last
    BY Parts
  <2>3. Commands'
    BY <2>1, <2>2 DEF Commands
  <2> QED BY <2>1, <2>2, <2>3, CountsStay, FilesStay, LastStays, RestStays, Parts
<1> QED BY <1>1, <1>2, <1>3, <1>4, <1>5, <1>6, <1>7 DEF Next

THEOREM IInvCorrect == Spec => []IInv
BY InvInit, StepKeeps, PTL DEF Spec

LEMMA RepairFollows == IInv => RepairReaches
<1> SUFFICES ASSUME IInv, settled # Unsettled PROVE RepairReaches
  BY DEF RepairReaches
<1> DEFINE current == ForgePath(settled.exe)
<1>1. Ended(settled, file, version, detected, unit)
  BY DEF IInv
<1>2. ASSUME NEW f \in File, NEW c \in StaleIn(f, current), AgentOf(f) \in detected
      PROVE  c.by = "user" \/ c \in CommandsOf(file[f].start)
  <2>1. Repaired(f, file[f], version, current)
    BY <1>1, <1>2 DEF Ended
  <2> HIDE DEF current
  <2> QED BY <2>1 DEF Repaired, StaleIn, Equivalent
<1>3. settled.cmd = "start" => unit \in {None, settled.exe}
  BY <1>1 DEF Ended
<1>4. ASSUME settled.cmd # "start", NEW f \in HookFile, AgentOf(f) \in detected
      PROVE  Cardinality({i \in DOMAIN file[f].event : Owned(file[f].event[i])}) = 1
  <2>1. OneHook(file[f])
    BY <1>1, <1>4 DEF Ended
  <2>2. PICK k : {i \in DOMAIN file[f].event : Owned(file[f].event[i])} = {k}
    BY <2>1 DEF OneHook
  <2> QED BY <2>2, FS_Singleton
<1> QED BY <1>2, <1>3, <1>4 DEF RepairReaches

(* Every variable keeps its type, whatever the binaries, the agents and the users
   do; in particular the hooks of a file stay a list of groups that are not empty. *)
THEOREM TypeCorrect == Spec => []TypeOK
<1>1. IInv => TypeOK
  BY DEF IInv
<1> QED BY <1>1, IInvCorrect, PTL

(* However many commands of however many binaries rewrite a settings file, what a
   user put into it stays there, with the exceptions that MineKept names. *)
THEOREM MineCorrect == Spec => []MineKept
<1>1. IInv => MineKept
  BY DEF IInv
<1> QED BY <1>1, IInvCorrect, PTL

(* A command that nothing disturbed has replaced every stale path that it can
   replace, in every file of every agent that is detected. *)
THEOREM RepairCorrect == Spec => []RepairReaches
BY RepairFollows, IInvCorrect, PTL
=============================================================================
