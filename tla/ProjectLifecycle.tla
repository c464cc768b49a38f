-------------------------- MODULE ProjectLifecycle --------------------------
(***************************************************************************)
(* The life of a project as a list of projects shows it.                   *)
(*                                                                         *)
(* A project is listed from the insertion of its row to the row's end, and *)
(* marked as "deleting" while an operation is pending that is to delete    *)
(* it. The mark may go without the row, when a deletion ends in an error   *)
(* or was none of the owner's; the row may go without a mark, when nobody  *)
(* looked between the operation's insertion and its end. What is gone does *)
(* not come back, under its identifier.                                    *)
(*                                                                         *)
(* ProjectDeletion says how the services bring this about; it implements   *)
(* this module.                                                            *)
(***************************************************************************)
VARIABLE phase   \* unborn, live, deleting or gone

Phases == {"unborn", "live", "deleting", "gone"}

Init == phase = "unborn"

Found == phase = "unborn" /\ phase' = "live"

Mark == phase = "live" /\ phase' = "deleting"

Unmark == phase = "deleting" /\ phase' = "live"

Drop == phase \in {"live", "deleting"} /\ phase' = "gone"

Next == Found \/ Mark \/ Unmark \/ Drop

Spec == Init /\ [][Next]_phase
=============================================================================
