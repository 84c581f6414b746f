------------------------------- MODULE Storage -------------------------------
(***************************************************************************)
(* Who owns each block of memory: the chunks of groups and parameters, the *)
(* copies of their hints and of an enum's values (hint_set.c, helpers.c,   *)
(* and the routines of both libraries that call them).  Every allocation   *)
(* may fail, and each failing one unwinds what was obtained before it.     *)
(*                                                                         *)
(* One step per allocation.  A routine that only gives blocks back cannot  *)
(* fail half way and is one step.  Nothing interleaves: the plugin's calls *)
(* and the callbacks they make run one at a time.  A source of hints is    *)
(* the sequence that tells which of them have a value; texts are left out. *)
(***************************************************************************)
EXTENDS Integers, Sequences, FiniteSets

CONSTANTS
  BlockCount,  \* bound on the blocks in use, beyond which allocations fail
  Holders,     \* structures that own blocks
  Kinds,       \* a subset of AllKinds
  MaxItems     \* most hints of a set, most values of an enum

AllKinds == { "group",          \* plugin_group_new, host_group_appear
              "host_param", "host_enum",
              "plugin_param", "plugin_enum",
              "hints_dup" }     \* a hint set made by hints_init_va_dup

ASSUME StorageAssumption ==
  BlockCount \in Nat /\ Kinds \subseteq AllKinds /\ MaxItems \in Nat

Blocks == 1..BlockCount
None == 0      \* the null pointer

HintSources == UNION {[1..n -> BOOLEAN] : n \in 0..MaxItems}

VARIABLES
  used,      \* blocks that have been handed out
  holder,    \* the finished structures
  pc,        \* the allocation to make next
  cur,       \* the holder that is being made
  work,      \* what has been obtained for it
  lost,      \* blocks that host_parameter_free leaves behind
  fault

vars == <<used, holder, pc, cur, work, lost, fault>>

Pcs == {"idle", "chunk", "names", "values", "name", "value", "items", "item"}
Nothing == [kind |-> "none", chunk |-> None, hints |-> <<>>,
            names |-> None, ncells |-> <<>>, values |-> None, vcells |-> <<>>,
            count |-> 0, items |-> None, icells |-> <<>>]

\* Which free block the allocator takes makes no difference: the first.
Fresh == {b \in Blocks \ used : \A c \in Blocks \ used : b <= c}

Cells(s) == {s[i] : i \in DOMAIN s}
HintBlocks(r) == (Cells(r.ncells) \cup Cells(r.vcells) \cup {r.names, r.values}) \ {None}
EnumBlocks(r) == (Cells(r.icells) \cup {r.items}) \ {None}
BlocksOf(r) == (HintBlocks(r) \cup EnumBlocks(r) \cup {r.chunk}) \ {None}

----------------------------------------------------------------------------
(* The order of the allocations of each kind of structure. *)

AfterHints(r) == IF r.kind = "host_enum" THEN "items" ELSE "idle"
AfterChunk(r) == IF r.kind \in {"plugin_param", "plugin_enum"} THEN "idle"
                 ELSE IF r.hints = <<>> THEN AfterHints(r) ELSE "names"
AfterItems(r) == IF r.kind = "plugin_enum" /\ holder[cur] = Nothing THEN "chunk" ELSE "idle"
\* Faulty: the loop over the hints ends a pair too early.
PairTooFew(r) == IF Len(r.vcells) + 1 < Len(r.hints) THEN "name" ELSE AfterHints(r)
AfterPair(r) ==
  IF Len(r.vcells) < Len(r.hints) \/ r.kind = "hints_dup" THEN "name" ELSE AfterHints(r)

\* A parameter that is added again takes the new values and gives back the old.
\* Faulty: the old parameter is freed whole.
OldFreedWhole(old) == BlocksOf(old)
OldGiven(old) == EnumBlocks(old)

\* The allocation is made, next is the following one; work is finished when
\* there is none.
Continue(w, next, got) ==
  /\ pc' = next
  /\ work' = IF next = "idle" THEN Nothing ELSE w
  /\ holder' = IF next # "idle" THEN holder
               ELSE [holder EXCEPT ![cur] =
                       IF @ = Nothing THEN w
                       ELSE [@ EXCEPT !.count = w.count, !.items = w.items,
                                      !.icells = w.icells]]
  /\ used' = (used \cup got) \ (IF next = "idle" THEN OldGiven(holder[cur]) ELSE {})
  /\ UNCHANGED <<cur, lost, fault>>

\* The allocation fails: the routine and its callers give these blocks back.
Fail(given) ==
  /\ used' = used \ given
  /\ pc' = "idle" /\ work' = Nothing
  /\ UNCHANGED <<holder, cur, lost, fault>>

\* The caller's chunk, when the callee has failed (fail_deallocate).
ChunkGiven(r) == {r.chunk} \ {None}

----------------------------------------------------------------------------
(* Making a structure. *)

Start(h, k, hints, count) ==
  /\ pc = "idle" /\ fault = "none"
  /\ holder[h] = Nothing \/ (holder[h].kind = "plugin_enum" /\ k = "plugin_enum")
  /\ k \in {"plugin_param", "plugin_enum"} => hints = <<>>
  /\ k = "hints_dup" => hints # <<>>
  /\ k \notin {"host_enum", "plugin_enum"} => count = 0
  /\ cur' = h
  /\ work' = [Nothing EXCEPT !.kind = k, !.hints = hints, !.count = count]
  /\ pc' = CASE k = "plugin_enum" -> "items" [] k = "hints_dup" -> "names"
             [] OTHER -> "chunk"
  /\ UNCHANGED <<used, holder, lost, fault>>

\* A chunk from the parameters or groups pool; an enum's values are given back
\* by the loop at fail_free_values.
Chunk ==
  /\ pc = "chunk"
  /\ \/ \E b \in Fresh : Continue([work EXCEPT !.chunk = b], AfterChunk(work), {b})
     \/ Fail(EnumBlocks(work))

\* hints_init_copy (and va_dup): the two arrays.
Names ==
  /\ pc = "names"
  /\ \/ \E b \in Fresh : Continue([work EXCEPT !.names = b], "values", {b})
     \/ Fail(ChunkGiven(work))

NamesGiven(r) == {r.names}
Values ==
  /\ pc = "values"
  /\ \/ \E b \in Fresh : Continue([work EXCEPT !.values = b], "name", {b})
     \/ Fail(NamesGiven(work) \cup ChunkGiven(work))

\* fail_cleanup_arrays: the pairs below index, then both arrays.
PairsGiven(r, index) ==
  ({r.ncells[i] : i \in 1..index} \cup {r.vcells[i] : i \in 1..index}) \ {None}
ArraysCleaned(r, index) == PairsGiven(r, index) \cup {r.values} \cup NamesGiven(r)

\* The copy of a name.  va_dup asserts index < count before it finds the end.
Name ==
  /\ pc = "name"
  /\ \/ /\ Len(work.ncells) < Len(work.hints)
        /\ \/ \E b \in Fresh :
                Continue([work EXCEPT !.ncells = Append(@, b)], "value", {b})
           \/ Fail(ArraysCleaned(work, Len(work.vcells)) \cup ChunkGiven(work))
     \/ /\ Len(work.ncells) = Len(work.hints)
        /\ fault' = "assert_index"
        /\ pc' = "idle"
        /\ UNCHANGED <<used, holder, cur, work, lost>>

\* The copy of a value, when there is one; the name before it is freed apart.
\* Faulty: it is left to the loop; the cell of a missing value is not written.
NoValueUnset == -1
NoValue == None
NameLeft(r) == {}
NameGiven(r) == {r.ncells[Len(r.ncells)]}
Value ==
  /\ pc = "value"
  /\ IF work.hints[Len(work.ncells)]
       THEN \/ \E b \in Fresh :
                 LET w == [work EXCEPT !.vcells = Append(@, b)]
                 IN Continue(w, AfterPair(w), {b})
            \/ Fail(NameGiven(work) \cup ArraysCleaned(work, Len(work.vcells))
                    \cup ChunkGiven(work))
       ELSE LET w == [work EXCEPT !.vcells = Append(@, NoValue)]
            IN Continue(w, AfterPair(w), {})

\* lv2dynparam_hints_clear, from the last pair to the first.
Cleared(r) == HintBlocks(r)

\* lv2dynparam_enum_duplicate; the host clears the hints when it fails
\* (fail_clear_hints).
HintsCleared(r) == Cleared(r)

Items ==
  /\ pc = "items"
  /\ \/ \E b \in Fresh :
          LET w == [work EXCEPT !.items = b]
          IN Continue(w, IF work.count = 0 THEN AfterItems(w) ELSE "item", {b})
     \/ Fail(HintsCleared(work) \cup ChunkGiven(work))

Item ==
  /\ pc = "item"
  /\ \/ \E b \in Fresh :
          LET w == [work EXCEPT !.icells = Append(@, b)]
          IN Continue(w, IF Len(w.icells) < w.count THEN "item" ELSE AfterItems(w), {b})
     \/ Fail(EnumBlocks(work) \cup HintsCleared(work) \cup ChunkGiven(work))

----------------------------------------------------------------------------
(* Giving a structure back. *)

\* What the free routine of each kind gives back: plugin_group_free,
\* plugin_parameter_free, host_group_free, host_parameter_free.  The last one
\* returns after lv2dynparam_enum_free.
Freed(r) ==
  IF r.kind = "host_enum" THEN EnumBlocks(r)
  ELSE EnumBlocks(r) \cup Cleared(r) \cup ChunkGiven(r)

Free(h) ==
  /\ pc = "idle" /\ fault = "none" /\ holder[h] # Nothing
  /\ used' = used \ Freed(holder[h])
  /\ lost' = lost \cup (IF holder[h].kind = "host_enum"
                          THEN HintBlocks(holder[h]) \cup {holder[h].chunk} ELSE {})
  /\ holder' = [holder EXCEPT ![h] = Nothing]
  /\ UNCHANGED <<pc, cur, work, fault>>

----------------------------------------------------------------------------
Init ==
  /\ used = {} /\ lost = {}
  /\ holder = [h \in Holders |-> Nothing]
  /\ pc = "idle" /\ work = Nothing
  /\ cur \in Holders
  /\ fault = "none"

Next ==
  \/ \E h \in Holders, k \in Kinds, hints \in HintSources, count \in 0..MaxItems :
       Start(h, k, hints, count)
  \/ Chunk \/ Names \/ Values \/ Name \/ Value \/ Items \/ Item
  \/ \E h \in Holders : Free(h)

Spec == Init /\ [][Next]_vars
----------------------------------------------------------------------------
(* Properties. *)

Pointers == Blocks \cup {None}
Structures ==
  [kind : Kinds \cup {"none"}, chunk : Pointers, hints : HintSources,
   names : Pointers, ncells : Seq(Pointers), values : Pointers, vcells : Seq(Pointers),
   count : 0..MaxItems, items : Pointers, icells : Seq(Pointers)]

TypeOK ==
  /\ used \subseteq Blocks /\ lost \subseteq Blocks
  /\ holder \in [Holders -> Structures] /\ work \in Structures
  /\ pc \in Pcs /\ cur \in Holders /\ fault \in {"none", "assert_index"}

Owned == (UNION {BlocksOf(holder[h]) : h \in Holders}) \cup BlocksOf(work)

\* No failing allocation leaves a block behind: what has been handed out is
\* reachable, or was dropped by the early return of host_parameter_free.
NothingLost == used \subseteq Owned \cup lost

\* No structure points to a block that was given back.
NothingDangles == Owned \subseteq used

\* A structure that is finished has a copy of every hint and of every value of
\* its source, and the length it will be freed by.
CopyIsWhole ==
  \A h \in Holders : LET r == holder[h] IN
    /\ Len(r.ncells) = Len(r.hints) /\ Len(r.vcells) = Len(r.hints)
    /\ \A i \in DOMAIN r.hints : r.hints[i] <=> r.vcells[i] # None
    /\ Len(r.icells) = r.count

\* The assert of hints_init_va_dup: index < count.
IndexInRange == fault # "assert_index"
=============================================================================
