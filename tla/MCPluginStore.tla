----------------------------- MODULE MCPluginStore -----------------------------
(* Two versions of a tool; a tool whose id gives the same folder, whose     *)
(* requirements cannot be met, and which the program has already; a          *)
(* transport of the first tool's id that is not valid; and a tool in a       *)
(* folder of its own.                                                        *)
EXTENDS PluginStore, TLC

CONSTANTS terminal, window

Repository(id, family, needs, runtime) ==
    [id |-> id, family |-> family, needs |-> needs, runtime |-> runtime, valid |-> TRUE]

MCRepositories ==
    <<Repository("a/b", "tool", "some", "python"),
      Repository("a/b", "tool", "none", "process"),
      Repository("a_b", "tool", "unmet", "python"),
      [Repository("a/b", "transport", "none", "python") EXCEPT !.valid = FALSE],
      Repository("c", "tool", "none", "python")>>

MCCatalog == {1, 4}
MCFolderNames == <<"a_b", "c">>
MCFolderOf == [id \in {"a/b", "a_b", "c"} |-> IF id = "c" THEN "c" ELSE "a_b"]
MCSymmetry == Permutations({terminal, window})
=============================================================================
