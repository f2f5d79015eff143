------------------------------ MODULE MCMerger ------------------------------
(* Merger with values for TLC: the radio and a player of higher priority.   *)
EXTENDS Merger

CONSTANTS radio, player

MCPriority == [s \in {radio, player} |-> IF s = radio THEN 0 ELSE -10]
MCMaxSamples == [s \in {radio, player} |-> IF s = radio THEN 3 ELSE 1]
=============================================================================
