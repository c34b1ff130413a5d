---------------------------- MODULE MCIntegrations ----------------------------
(* Integrations for TLC. *)
EXTENDS Integrations, TLC

(* Machines with one agent, and with two. *)
OneOrTwo == {{"claude"}, {"antigravity"}, {"opencode"}, {"gemini", "codex"}}
Claude == {{"claude"}}

Symmetry == Permutations(Proc)
=============================================================================
