------------------------ MODULE MCDispatchGroupReuse ------------------------
(***************************************************************************)
(* A group that is entered again while a wake is still running.  The       *)
(* history variable sawEmpty holds the notify blocks that have seen no     *)
(* entered work since dispatch_group_notify was called; an enter counts    *)
(* once it has returned.                                                   *)
(***************************************************************************)
EXTENDS DispatchGroup

VARIABLE sawEmpty

ReuseInit == Init /\ sawEmpty = Blocks

ReuseNext ==
  /\ Next
  /\ sawEmpty' = IF Entered' = 0 THEN Blocks ELSE sawEmpty \ (pushed' \ pushed)

ReuseSpec == ReuseInit /\ [][ReuseNext]_<<vars, sawEmpty>>

(* What group.h says of dispatch_group_notify: the block is submitted once   *)
(* all blocks associated with the group have completed.                      *)
NotifySawEmpty ==
  [][\A b \in Blocks : submitted'[b] # submitted[b] => b \in sawEmpty]_<<vars, sawEmpty>>
=============================================================================
