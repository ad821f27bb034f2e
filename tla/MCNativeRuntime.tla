--------------------------- MODULE MCNativeRuntime ---------------------------
(* NativeRuntime with two sessions for one result slot and a read of one.  *)
EXTENDS NativeRuntime

MCBudgets == {Never, 1}
==============================================================================
