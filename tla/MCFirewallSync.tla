-------------------------- MODULE MCFirewallSync --------------------------
(* Small instances of FirewallSync. *)
EXTENDS FirewallSync

\* Without setting the lost races aside.
NothingLeftBehind == live \subseteq OnRecord \cup left
=============================================================================
