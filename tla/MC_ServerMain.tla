---------------------------- MODULE MC_ServerMain ----------------------------
EXTENDS ServerMain, TLC

MC_CliConfig == [https |-> FALSE, authority |-> "none"]
=============================================================================
