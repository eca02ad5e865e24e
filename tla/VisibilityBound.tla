-------------------------- MODULE VisibilityBound --------------------------
(***************************************************************************)
(* What the Consistent-Through header promises, without sessions, clocks   *)
(* or transactions: items appear with a time stamp, a bound is announced   *)
(* from time to time, and an item never appears below an announced bound.  *)
(* ConsistentThrough implements this specification.                        *)
(***************************************************************************)
EXTENDS Integers

CONSTANTS Items, Absent

VARIABLES appeared,   \* the time stamp of every item that appeared, or Absent
          bound       \* the highest bound announced

vars == <<appeared, bound>>

Init ==
    /\ appeared = [i \in Items |-> Absent]
    /\ bound = 0

(* Items appear, one or several at once, none of them below the bound. *)
Appear ==
    /\ appeared' \in [Items -> Nat \cup {Absent}]
    /\ \A i \in Items :
         \/ appeared'[i] = appeared[i]
         \/ appeared[i] = Absent /\ appeared'[i] # Absent /\ appeared'[i] >= bound
    /\ UNCHANGED bound

Announce ==
    /\ bound' \in Nat
    /\ bound' > bound
    /\ UNCHANGED appeared

Next == Appear \/ Announce

Spec == Init /\ [][Next]_vars

=============================================================================
