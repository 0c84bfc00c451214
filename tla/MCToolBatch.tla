------------------------------ MODULE MCToolBatch ------------------------------
(* Two actors, an entry of the workspace that may be a file or a directory, *)
(* and the path of its own name within it.  The batches: edits with a       *)
(* checkpoint, that can put a file where a directory was; an approved       *)
(* restore and a call to be approved; commands of git and of the shell that *)
(* change files without a checkpoint; a backup and a prune.                 *)
EXTENDS ToolBatch, TLC

CONSTANTS runtime, shell, note, inner

MCAbove == note :> {} @@ inner :> {note}
MCInside == note :> inner

MCCall(fn, auto) == [fn |-> fn, auto |-> auto, expected |-> FALSE, dry |-> FALSE]

MCBatches ==
    {<<MCCall("delete", TRUE), MCCall("write", FALSE)>>,
     <<MCCall("restore", TRUE), MCCall("git", FALSE)>>,
     <<MCCall("git", TRUE)>>,
     <<MCCall("readonly", FALSE)>>,
     <<MCCall("backup", FALSE), MCCall("prune", FALSE)>>}

MCSymmetry == Permutations({runtime, shell})
=============================================================================
