------------------------- MODULE OperationLifecycle -------------------------
(***************************************************************************)
(* What a long-running deletion promises to the client that polls it,      *)
(* whichever service carries it out.                                       *)
(*                                                                         *)
(* An operation is created pending. From then on it may be settled as      *)
(* "done", but only once the thing it is to delete has been seen to be     *)
(* gone, or as "error", but only by the one goroutine that issued the      *)
(* deletion and at most once. The two may overtake each other, so a        *)
(* settled operation is not final; it never becomes pending again.         *)
(***************************************************************************)
CONSTANT Ops

VARIABLES
  status,   \* what a poll of the operation answers
  gone,     \* operations whose target has been absent since they were created
  open      \* operations whose goroutine may still report a failure

vars == <<status, gone, open>>

Statuses == {"none", "pending", "done", "error"}

Init ==
  /\ status = [o \in Ops |-> "none"]
  /\ gone = {}
  /\ open = {}

(* A request is accepted; its target may already be absent. *)
Create(o) ==
  /\ status[o] = "none"
  /\ status' = [status EXCEPT ![o] = "pending"]
  /\ gone' \in {gone, gone \union {o}}
  /\ open' = open \union {o}

(* The targets of some operations disappear; an operation that has lost    *)
(* its target never gets it back.                                          *)
Vanish ==
  /\ gone \subseteq gone'
  /\ gone' \subseteq {o \in Ops : status[o] # "none"}
  /\ UNCHANGED <<status, open>>

(* Whoever has seen the target gone may say so: the operation's own        *)
(* goroutine, which then ends, or somebody else.                           *)
Done(o) ==
  /\ o \in gone
  /\ status' = [status EXCEPT ![o] = "done"]
  /\ open' \in {open, open \ {o}}
  /\ UNCHANGED gone

Fail(o) ==
  /\ o \in open
  /\ status' = [status EXCEPT ![o] = "error"]
  /\ open' = open \ {o}
  /\ UNCHANGED gone

(* Goroutines end without a word: the deletion was accepted, the failure   *)
(* could not be written, or the process died.                              *)
Close ==
  /\ open' \subseteq open
  /\ UNCHANGED <<status>>
  /\ UNCHANGED <<gone>>

Next ==
  \/ \E o \in Ops : Create(o) \/ Done(o) \/ Fail(o)
  \/ Vanish
  \/ Close

Spec == Init /\ [][Next]_vars
=============================================================================
