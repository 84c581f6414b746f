-------------------------------- MODULE Lists --------------------------------
(***************************************************************************)
(* The lists of list.h as both libraries use them: a list is the sequence  *)
(* of its entries, list_add_tail appends, and list_del takes entries out   *)
(* and leaves the others in their order.                                   *)
(***************************************************************************)
EXTENDS Integers, Sequences

\* list_del of the entries in gone.
Without(s, gone) ==
  LET kept[n \in 0..Len(s)] ==
        IF n = 0 THEN <<>>
        ELSE IF s[n] \in gone THEN kept[n - 1]
        ELSE Append(kept[n - 1], s[n])
  IN kept[Len(s)]

\* The entries that list_for_each meets.
Entries(s) == {s[i] : i \in 1..Len(s)}
=============================================================================
