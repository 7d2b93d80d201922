---------------------------- MODULE MCMemoryStore ----------------------------
(* One process of a workspace, started again after it exits or is killed at *)
(* any step; two texts, and more time than the policy keeps an entry.        *)
EXTENDS MemoryStore

=============================================================================
