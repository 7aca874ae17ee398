----------------------------- MODULE MCConfigStore -----------------------------
(* Two processes over one configuration directory. *)
EXTENDS ConfigStore, TLC

Symmetric == Permutations(Procs) \cup Permutations(Configs)
===============================================================================
