-------------------------------- MODULE Once --------------------------------
(***************************************************************************)
(* What dispatch_once promises (libdispatch dispatch/once.h: "Execute a    *)
(* block once and only once"), whatever the predicate word looks like:     *)
(* one caller runs the block, and no caller returns before it has run.     *)
(***************************************************************************)
CONSTANT Threads

VARIABLES
  status,    \* of the block: "never", "running" or "done"
  inside     \* the threads that have called and have not returned

once_vars == <<status, inside>>

OnceTypeOK == status \in {"never", "running", "done"} /\ inside \subseteq Threads

OnceInit == status = "never" /\ inside = {}

Enter(t) == t \notin inside /\ inside' = inside \cup {t} /\ UNCHANGED status
Begin == status = "never" /\ inside # {} /\ status' = "running" /\ UNCHANGED inside
End == status = "running" /\ status' = "done" /\ UNCHANGED inside
Return(t) ==
  t \in inside /\ status = "done" /\ inside' = inside \ {t} /\ UNCHANGED status

OnceNext == Begin \/ End \/ \E t \in Threads : Enter(t) \/ Return(t)

OnceSpec == OnceInit /\ [][OnceNext]_once_vars
=============================================================================
