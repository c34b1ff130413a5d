------------------------------ MODULE Settings ------------------------------
(***************************************************************************)
(* `forge config` and what the distiller makes of it: the layers of        *)
(* settings files, the environment, the defaults of a provider, the test   *)
(* call before the settings are saved, and the calls made with them later. *)
(*                                                                         *)
(* A key is the name of the provider it was issued for, an address the     *)
(* name of the provider whose default it is, or "custom"; a model is its   *)
(* family.  A duration is its text, "bad" if it does not parse, "negative" *)
(* if it is not positive.                                                  *)
(***************************************************************************)
EXTENDS Integers, FiniteSets

Unset == "unset"
NoRetries == 0

\* The values of --provider; "gemini" is written down as antigravity.
Providers == {"anthropic", "openai", "groq", "nvidia", "ollama", "codex", "antigravity",
              "openrouter"}
NeedsKey == {"anthropic", "openai", "groq", "nvidia", "openrouter"}
Addressed == Providers \ {"codex", "antigravity"}

\* The fields of a settings file and of the environment.
Texts == {"provider", "key", "model", "base", "timeout", "ollamaTimeout"}
Fields == Texts \cup {"retries"}
Blank == [f \in Fields |-> IF f = "retries" THEN NoRetries ELSE Unset]

Or(value, other) == IF value # Unset THEN value ELSE other

(* ------------------------------- files -------------------------------- *)

\* parseConfigData over what is loaded already; the later file wins, by field.
Over(lower, upper) ==
  [f \in Fields |-> IF f = "retries" THEN IF upper[f] # NoRetries THEN upper[f] ELSE lower[f]
                    ELSE Or(upper[f], lower[f])]

\* Load: the global file, .forge/config, .forge/config.local.
Load(files) == Over(Over(files.global, files.project), files.private)

\* Save writes the global file: the fields that are set.
Save(files, cfg) == [files EXCEPT !.global = cfg]

\* SetEnvFromFile: a process that starts puts its settings in its environment.
SetEnvFromFile(files, env) ==
  LET cfg == Load(files)
  IN [f \in DOMAIN env |->
        IF f \in Texts THEN Or(cfg[f], env[f])
        ELSE IF f = "retries" /\ cfg.retries # NoRetries THEN cfg.retries ELSE env[f]]

\* What a command finds and is given: a global file that an earlier command
\* saved, or none, an environment, and flags whose key is their provider's.
IsSaved(cfg) == cfg.key \in {Unset, cfg.provider} /\ cfg.retries \in Nat
IsCommand(x) ==
  /\ DOMAIN x.files = {"global", "project", "private"} /\ IsSaved(x.files.global)
  /\ Fields \subseteq DOMAIN x.env
  /\ x.flags.key \in {Unset, x.flags.provider} /\ x.flags.retries \in Int

(* ------------------------- the distiller's view ----------------------- *)

Duration(raw, default) == IF raw \in {Unset, "bad", "negative"} THEN default ELSE raw

\* The defaults of LoadConfig and of config_cmd.go, which differ for codex only.
DefaultModel(provider) ==
  CASE provider = "anthropic" -> "claude"
    [] provider = "openai" -> "gpt"
    [] provider \in {"groq", "nvidia", "ollama"} -> "llama"
    [] provider = "antigravity" -> "flash"
    [] provider = "openrouter" -> "gemini"
    [] OTHER -> Unset
DefaultModelForProvider(provider) ==
  IF DefaultModel(provider) = Unset THEN "claude" ELSE DefaultModel(provider)
DefaultBase(provider) == IF provider \in Addressed THEN provider ELSE Unset

\* LoadConfig: each field from the files, else from the environment, else the
\* default of the provider; groq and nvidia have variables of their own.
LoadConfig(files, env) ==
  LET file == Load(files)
      provider == Or(Or(file.provider, env.provider), "ollama")
      own == IF provider \in {"groq", "nvidia"} THEN env.ownKey ELSE Unset
  IN [provider |-> provider,
      key |-> Or(Or(file.key, env.key), own),
      model |-> Or(Or(file.model, env.model), DefaultModel(provider)),
      base |-> Or(Or(file.base, env.base), DefaultBase(provider)),
      timeout |-> Duration(Or(file.timeout, env.timeout), "30s"),
      ollamaTimeout |-> Duration(Or(file.ollamaTimeout, env.ollamaTimeout), "120s"),
      retries |-> IF file.retries # NoRetries THEN file.retries
                  ELSE IF env.retries # NoRetries THEN env.retries ELSE 3]

\* What a call of the provider sends and how long it waits: New and the callers
\* of callLLM.  The local programs take neither key nor address.
Call(cfg) ==
  [provider |-> cfg.provider, model |-> cfg.model,
   key |-> IF cfg.provider \in NeedsKey THEN cfg.key ELSE Unset,
   base |-> IF cfg.provider \in Addressed THEN cfg.base ELSE Unset,
   wait |-> CASE cfg.provider = "ollama" -> cfg.ollamaTimeout
              [] cfg.provider = "antigravity" -> Duration(cfg.timeout, "45s")
              [] cfg.provider = "codex" -> "45s"
              [] OTHER -> Duration(cfg.timeout, "30s"),
   retries |-> IF cfg.provider = "ollama" THEN cfg.retries ELSE 0]

(* ----------------------------- forge config --------------------------- *)

\* CheckProviderModelCompat, for a model and a key against the provider; an
\* address of the user's own lifts the check of the model for three of them.
Misfits(provider, base) ==
  LET listed == CASE provider = "openai" -> {"claude", "llama", "gemini"}
                  [] provider \in {"groq", "nvidia"} -> {"gpt", "claude", "gemini"}
                  [] OTHER -> {}
  IN (IF base \in {Unset, provider} THEN listed ELSE {})
       \cup (CASE provider = "anthropic" -> {"gpt", "llama", "gemini", "flash"}
               [] provider = "ollama" -> {"gpt", "claude", "gemini"}
               [] provider = "antigravity" -> {"gpt", "claude", "llama"}
               [] OTHER -> {})
       \cup (IF base \in {Unset, "openai"} /\ provider \notin {"antigravity", "openrouter"}
             THEN {"gemini"} ELSE {})
Compatible(cfg) ==
  /\ cfg.model \notin Misfits(cfg.provider, cfg.base)
  /\ cfg.provider \in NeedsKey => cfg.key # Unset

\* The checks of the flags; -1 stands for no --retries.
FlagsOK(flags) ==
  /\ flags.provider \in Providers
  /\ flags.timeout # "bad" /\ flags.ollamaTimeout # "bad"
  /\ flags.retries >= -1

\* A mutant: another provider keeps the key.
ConfiguredKeepsKey(existing, flags) ==
  [existing EXCEPT !.provider = flags.provider, !.key = Or(flags.key, @),
                   !.model = Or(flags.model, DefaultModelForProvider(flags.provider)),
                   !.base = Or(flags.base, DefaultBase(flags.provider)),
                   !.retries = IF flags.retries > 0 THEN flags.retries ELSE 3]

\* Another provider resets the key, the model and the address.  No retries, or
\* none asked for, are three.
Configured(existing, flags) ==
  LET same == flags.provider = existing.provider
      Kept(field) == IF same THEN existing[field] ELSE Unset
      retries == IF flags.retries >= 0 THEN flags.retries ELSE existing.retries
  IN [provider |-> flags.provider,
      key |-> Or(flags.key, Kept("key")),
      model |-> Or(Or(flags.model, Kept("model")), DefaultModelForProvider(flags.provider)),
      base |-> Or(Or(flags.base, Kept("base")), DefaultBase(flags.provider)),
      timeout |-> Or(flags.timeout, existing.timeout),
      ollamaTimeout |-> Or(flags.ollamaTimeout, existing.ollamaTimeout),
      retries |-> IF retries = NoRetries THEN 3 ELSE retries]

\* distillConfigFromUserConfig: the test call is made with the settings as they
\* will be, over those in force; Ollama's own timeout is not among them.
DistillConfig(files, env, cfg) ==
  LET now == LoadConfig(files, env)
  IN [provider |-> cfg.provider,
      key |-> Or(cfg.key, now.key), model |-> Or(cfg.model, now.model),
      base |-> Or(cfg.base, now.base),
      timeout |-> IF cfg.timeout \in {Unset, "bad"} THEN now.timeout ELSE cfg.timeout,
      ollamaTimeout |-> now.ollamaTimeout,
      retries |-> IF cfg.retries > 0 THEN cfg.retries ELSE now.retries]

\* runConfig: the files after it, and the call it tests them with, or would:
\* there is none with --no-validate, or when only durations and retries change.
\* What the checks refuse is not saved; after a call that fails nothing is either.
RunConfig(files, env, flags) ==
  LET cfg == Configured(Load(files), flags)
  IN IF ~FlagsOK(flags) \/ ~Compatible(cfg) THEN [saved |-> FALSE, files |-> files]
     ELSE [saved |-> TRUE, files |-> Save(files, cfg),
           tested |-> Call(DistillConfig(files, env, cfg))]

(* ----------------------------- properties ----------------------------- *)

OnlyGlobal(files) == files.project = Blank /\ files.private = Blank

\* Without a project layer, the provider is later called exactly the way it was
\* tested, unless the command set Ollama's own timeout or the agent api's is
\* negative: whatever the environment says, and also in a process that had the
\* old settings in its environment.  (config_cmd.go: a stale export must not
\* shadow the new value.)
TestedIsUsed(files, env, flags) ==
  LET run == RunConfig(files, env, flags)
      stale == SetEnvFromFile(files, env)
  IN run.saved /\ OnlyGlobal(files) /\ flags.ollamaTimeout = Unset
       /\ ~(flags.provider = "antigravity" /\ run.files.global.timeout = "negative")
       => \A e \in {env, stale, SetEnvFromFile(run.files, stale)} :
            Call(LoadConfig(run.files, e)) = run.tested

\* And no provider is ever sent a key that was given for another one.
KeyIsProviders(files, env, flags) ==
  LET run == RunConfig(files, env, flags)
      call == Call(LoadConfig(run.files, SetEnvFromFile(files, env)))
  IN run.saved /\ OnlyGlobal(files) => call.key \in {Unset, call.provider}
==============================================================================
