--------------------------- MODULE MCPluginManager ---------------------------
(* One plugin, two callers, and a reload or a reinstall while they run.      *)
EXTENDS PluginManager, TLC

CONSTANTS c1, c2, admin
=============================================================================
