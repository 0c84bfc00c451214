----------------------------- MODULE MCSharedFiles -----------------------------
(* Two clients: a chat's thread and the command line, or two pages.         *)
EXTENDS SharedFiles, TLC

CONSTANTS runtime, cli, token, key

MCSymmetry == Permutations({runtime, cli})
=============================================================================
