-------------------------- MODULE MCSteamCmdRunner --------------------------
(* SteamCmdRunner for a few questions and a few tokens of other output.     *)
EXTENDS SteamCmdRunner

\* A run that returned stays as it is, and so does one that waits for a user
\* or for SteamCMD's next line.
Rest ==
  /\ run # "running" \/ DialogOpen \/ cmd = "waiting" \/ cmd = "running"
  /\ UNCHANGED vars
MCSpec == Init /\ [][Next \/ Rest]_vars
MCFairSpec == MCSpec /\ Fairness

=============================================================================
