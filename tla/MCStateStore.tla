--------------------------- MODULE MCStateStore ---------------------------
(* StateStore for TLC: the values are in MCStateStore.cfg.                 *)
EXTENDS StateStore
=============================================================================
