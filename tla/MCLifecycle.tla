---------------------------- MODULE MCLifecycle ----------------------------
(* What an operator may have left in system_settings.                      *)
EXTENDS Lifecycle

SavedModes == {[mode |-> "LIVE", armed |-> TRUE], [mode |-> "PAPER", armed |-> FALSE]}
=============================================================================
