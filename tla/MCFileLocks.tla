---------------------------- MODULE MCFileLocks ----------------------------
(* A few jobs, channels, files and records. *)
EXTENDS FileLocks, TLC
CONSTANTS j1, j2, c1, c2, f1, f2, r1, r2

AlikeChannels == Permutations(Channels) \cup Permutations(Files)
                   \cup Permutations(Records)

(* What the next steps and the properties read of a state: the channel and  *)
(* the record of "at" only where the program is doing something to them.    *)
InUseAt(j) ==
  CASE pc[j] = "lock" -> <<at[j].chan, at[j].rec>>
    [] pc[j] \in {"claim", "close", "closeNext"} -> <<at[j].chan>>
    [] OTHER -> <<>>
LiveState == <<files, tables, pc, [j \in Jobs |-> InUseAt(j)]>>
=============================================================================
