----------------------------- MODULE UiContract -----------------------------
(***************************************************************************)
(* What host/host.h promises the user interface about the dynparam_ui_*    *)
(* callbacks.  Each call carries the ui_context of the item's group, and a *)
(* disappear call the item's own ui_context, so an item appears below a    *)
(* group the interface has, appears once, and disappears only while the    *)
(* interface has it.  Turning the interface off takes everything at once.  *)
(***************************************************************************)
EXTENDS Integers

CONSTANTS Things, Top

VARIABLES
  holder,   \* the group each thing is in
  told      \* how many times the interface has the thing

vars == <<holder, told>>

Has(x) == told[x] = 1

Init == told = [x \in Things |-> 0]

Appear(x) ==
  /\ told[x] = 0
  /\ x # Top => holder[x] \in Things /\ Has(holder[x])
  /\ told' = [told EXCEPT ![x] = 1]
  /\ UNCHANGED holder

Disappear(x) ==
  /\ Has(x)
  /\ \A y \in Things \ {x, Top} : holder[y] = x => ~Has(y)
  /\ told' = [told EXCEPT ![x] = 0]
  /\ UNCHANGED holder

AllGone ==
  /\ told' = [x \in Things |-> 0]
  /\ UNCHANGED holder

\* Only things the interface does not have change their place.
Place ==
  /\ \A x \in Things : Has(x) => holder'[x] = holder[x]
  /\ UNCHANGED told

Next == (\E x \in Things : Appear(x) \/ Disappear(x)) \/ AllGone \/ Place

Spec == Init /\ [][Next]_vars
=============================================================================
