---------------------------- MODULE StorageProofs ----------------------------
EXTENDS Storage, SequenceTheorems, TLAPS
(***************************************************************************)
(* What Storage promises, for every number of blocks, of structures, of    *)
(* hints and of values.                                                    *)
(*                                                                         *)
(* IInv is inductive.  Begun says what has been obtained before each of the*)
(* allocations, kind by kind, and Finished what a structure that is done   *)
(* has; Apart, that no block belongs to two structures, is what keeps a    *)
(* routine that gives its blocks back from taking those of another.        *)
(*                                                                         *)
(* Every allocation that succeeds is an instance of ContinueInvariant and  *)
(* every one that fails of FailInvariant, which asks that the blocks given *)
(* back are all that were obtained: the lemma of each step shows that for  *)
(* the labels of hint_set.c, helpers.c, group.c, parameter.c, host.c and   *)
(* host_callbacks.c that the step jumps to.                                *)
(***************************************************************************)

\* Nothing of the hints, nothing of the values has been obtained.
NoHints(r) ==
  r.names = None /\ r.values = None /\ r.ncells = <<>> /\ r.vcells = <<>>
NoItems(r) == r.items = None /\ r.icells = <<>>

\* The pairs copied so far: a value has a copy if there is one.
CopiedSoFar(r) ==
  /\ Len(r.vcells) <= Len(r.hints)
  /\ \A i \in 1..Len(r.vcells) : r.hints[i] <=> r.vcells[i] # None

\* Every pair is copied; every value is copied.
HintsDone(r) ==
  Len(r.ncells) = Len(r.hints) /\ Len(r.vcells) = Len(r.hints) /\ CopiedSoFar(r)
ItemsDone(r) == Len(r.icells) = r.count

\* What the kind of a structure rules out: the parameters of the plugin have no
\* hints, and only enums have items.  The chunk of a plugin's enum is none of the
\* blocks of its values, which are given back apart.
Suited(r) ==
  /\ r.kind \notin {"host_enum", "plugin_enum"} => r.count = 0
  /\ r.kind \in {"plugin_param", "plugin_enum"} => r.hints = <<>> /\ NoHints(r)
  /\ r.kind = "plugin_enum" => r.chunk \notin EnumBlocks(r)

\* A structure that is done.
Finished(r) ==
  /\ Suited(r) /\ HintsDone(r) /\ ItemsDone(r)
  /\ r.kind = "host_enum" => r.chunk # None

\* What has been obtained for a structure before the allocation at.
Begun(at, r) ==
  /\ Suited(r)
  /\ at = "chunk" =>
       r.chunk = None /\ NoHints(r) /\ IF r.kind = "plugin_enum" THEN ItemsDone(r) ELSE NoItems(r)
  /\ at \in {"names", "values", "name", "value"} =>
       /\ NoItems(r)
       /\ r.kind \notin {"plugin_param", "plugin_enum"}
       /\ r.hints # <<>>
  /\ at = "names" => NoHints(r)
  /\ at = "values" => r.values = None /\ r.ncells = <<>> /\ r.vcells = <<>>
  /\ at \in {"name", "value"} => CopiedSoFar(r)
  /\ at = "name" => /\ Len(r.ncells) = Len(r.vcells)
                    /\ r.kind # "hints_dup" => Len(r.vcells) < Len(r.hints)
  /\ at = "value" => Len(r.ncells) = Len(r.vcells) + 1 /\ Len(r.vcells) < Len(r.hints)
  /\ at \in {"items", "item"} =>
       /\ HintsDone(r) /\ r.kind \in {"host_enum", "plugin_enum"}
       /\ r.kind = "plugin_enum" => r.chunk = None
  /\ at = "items" => NoItems(r)
  /\ at = "item" => Len(r.icells) < r.count
  /\ at # "chunk" /\ r.kind = "host_enum" => r.chunk # None

\* No block belongs to two structures.
Apart ==
  /\ \A g, h \in Holders : g # h => BlocksOf(holder[g]) \cap BlocksOf(holder[h]) = {}
  /\ \A h \in Holders : BlocksOf(holder[h]) \cap BlocksOf(work) = {}

\* Between calls there is no work, unless the assert of va_dup ended the process;
\* a structure that is done is made again only for a parameter of the plugin.
Making ==
  /\ pc = "idle" => work = Nothing \/ fault # "none"
  /\ pc # "idle" =>
       /\ fault = "none" /\ Begun(pc, work)
       /\ holder[cur] = Nothing
          \/ (holder[cur].kind = "plugin_enum" /\ work.kind = "plugin_enum" /\ pc # "chunk")

\* Every structure but the one that is being made is done.
Made == \A h \in Holders : Finished(holder[h])

IInv == TypeOK /\ NothingLost /\ NothingDangles /\ Apart /\ Making /\ Made

----------------------------------------------------------------------------
(* Blocks. *)

\* The null pointer is no block.
LEMMA NoneIsNoBlock == None \notin Blocks
BY StorageAssumption DEF None, Blocks

\* What the allocator hands out was not in use.
LEMMA FreshIsUnused == Fresh \subseteq Blocks \ used
BY DEF Fresh

\* A copy that is appended to an array of copies.
LEMMA CellsAppended ==
  ASSUME NEW S, NEW s \in Seq(S), NEW b \in S
  PROVE  /\ Append(s, b) \in Seq(S) /\ Len(Append(s, b)) = Len(s) + 1 /\ Len(s) \in Nat
         /\ \A i \in 1..Len(s) : Append(s, b)[i] = s[i]
         /\ Append(s, b)[Len(s) + 1] = b
         /\ Cells(Append(s, b)) = Cells(s) \cup {b}
<1>1. /\ Append(s, b) \in Seq(S) /\ Len(Append(s, b)) = Len(s) + 1 /\ Len(s) \in Nat
      /\ \A i \in 1..Len(s) : Append(s, b)[i] = s[i]
      /\ Append(s, b)[Len(s) + 1] = b
  OBVIOUS
<1>2. DOMAIN s = 1..Len(s) /\ DOMAIN Append(s, b) = 1..(Len(s) + 1)
  BY <1>1, LenProperties
<1> QED BY <1>1, <1>2 DEF Cells

\* A source of hints is a list.
LEMMA SourceIsList ==
  ASSUME NEW s \in HintSources
  PROVE  s \in Seq(BOOLEAN) /\ DOMAIN s = 1..Len(s) /\ Len(s) \in Nat
<1>1. PICK n \in 0..MaxItems : s \in [1..n -> BOOLEAN]
  BY DEF HintSources
<1>2. n \in Nat
  BY <1>1, StorageAssumption
<1>3. s \in Seq(BOOLEAN)
  BY <1>1, <1>2, SeqDef
<1> QED BY <1>3, LenProperties

\* The cells of an array are pointers.
LEMMA CellsArePointers ==
  ASSUME NEW s \in Seq(Pointers)
  PROVE  Cells(s) \subseteq Pointers
<1>1. s \in [1..Len(s) -> Pointers] /\ DOMAIN s = 1..Len(s)
  BY LenProperties
<1> QED BY <1>1 DEF Cells

\* The blocks of a structure are blocks.
LEMMA BlocksAreBlocks ==
  ASSUME NEW r \in Structures
  PROVE  BlocksOf(r) \subseteq Blocks
<1>1. /\ r.ncells \in Seq(Pointers) /\ r.vcells \in Seq(Pointers) /\ r.icells \in Seq(Pointers)
      /\ r.names \in Pointers /\ r.values \in Pointers /\ r.items \in Pointers
      /\ r.chunk \in Pointers
  BY DEF Structures
<1>2. Cells(r.ncells) \cup Cells(r.vcells) \cup Cells(r.icells) \subseteq Pointers
  BY <1>1, CellsArePointers
<1> QED BY <1>1, <1>2 DEF BlocksOf, HintBlocks, EnumBlocks, Pointers

\* A structure of which nothing has been obtained.
LEMMA NothingHasNone ==
  /\ Nothing \in Structures /\ Finished(Nothing)
  /\ BlocksOf(Nothing) = {} /\ EnumBlocks(Nothing) = {} /\ HintBlocks(Nothing) = {}
<1>1. /\ Nothing.kind = "none" /\ Nothing.chunk = None /\ Nothing.hints = <<>>
      /\ Nothing.names = None /\ Nothing.ncells = <<>> /\ Nothing.values = None
      /\ Nothing.vcells = <<>> /\ Nothing.count = 0 /\ Nothing.items = None
      /\ Nothing.icells = <<>>
  BY DEF Nothing
<1>2. Cells(<<>>) = {}
  BY DEF Cells
<1>3. BlocksOf(Nothing) = {} /\ EnumBlocks(Nothing) = {} /\ HintBlocks(Nothing) = {}
  BY <1>1, <1>2 DEF BlocksOf, HintBlocks, EnumBlocks
<1>4. Finished(Nothing)
  BY <1>1 DEF Finished, Suited, HintsDone, ItemsDone, CopiedSoFar, NoHints
<1>5. Nothing \in Structures
  <2>1. <<>> \in HintSources
    <3>1. <<>> \in [1..0 -> BOOLEAN] /\ 0 \in 0..MaxItems
      BY StorageAssumption
    <3> QED BY <3>1 DEF HintSources
  <2> QED BY <2>1, StorageAssumption DEF Nothing, Structures, Pointers
<1> QED BY <1>3, <1>4, <1>5

\* What is owned: the blocks of the work and of some structure.
LEMMA OwnedBy ==
  \A x : x \in Owned <=> x \in BlocksOf(work) \/ \E h \in Holders : x \in BlocksOf(holder[h])
<1> DEFINE sets == {BlocksOf(holder[h]) : h \in Holders}
<1>1. Owned = (UNION sets) \cup BlocksOf(work)
  BY DEF Owned
<1>2. ASSUME NEW x, x \in UNION sets PROVE \E h \in Holders : x \in BlocksOf(holder[h])
  <2>1. PICK s \in sets : x \in s
    BY <1>2
  <2>2. PICK h \in Holders : s = BlocksOf(holder[h])
    BY <2>1
  <2> QED BY <2>1, <2>2
<1>3. ASSUME NEW x, NEW h \in Holders, x \in BlocksOf(holder[h]) PROVE x \in UNION sets
  <2>1. BlocksOf(holder[h]) \in sets
    OBVIOUS
  <2> QED BY <1>3, <2>1
<1> HIDE DEF sets
<1> QED BY <1>1, <1>2, <1>3

\* The same after a step.
LEMMA OwnedByNext ==
  \A x : x \in Owned' <=>
    x \in BlocksOf(work') \/ \E h \in Holders : x \in BlocksOf(holder'[h])
<1> DEFINE sets == {BlocksOf(holder'[h]) : h \in Holders}
<1>1. Owned' = (UNION sets) \cup BlocksOf(work')
  BY DEF Owned
<1>2. ASSUME NEW x, x \in UNION sets PROVE \E h \in Holders : x \in BlocksOf(holder'[h])
  <2>1. PICK s \in sets : x \in s
    BY <1>2
  <2>2. PICK h \in Holders : s = BlocksOf(holder'[h])
    BY <2>1
  <2> QED BY <2>1, <2>2
<1>3. ASSUME NEW x, NEW h \in Holders, x \in BlocksOf(holder'[h]) PROVE x \in UNION sets
  <2>1. BlocksOf(holder'[h]) \in sets
    OBVIOUS
  <2> QED BY <1>3, <2>1
<1> HIDE DEF sets
<1> QED BY <1>1, <1>2, <1>3

----------------------------------------------------------------------------
(* What the steps of all kinds have in common. *)

\* The structure cur gets the blocks kept, of its old ones and of those obtained,
\* and gives the others back.
LEMMA HandedOver ==
  ASSUME IInv, NEW kept, NEW got, got \subseteq Blocks \ used,
         BlocksOf(work) \cup got \subseteq kept,
         kept \subseteq BlocksOf(holder[cur]) \cup BlocksOf(work) \cup got,
         used' = (used \cup got) \ (BlocksOf(holder[cur]) \ kept),
         BlocksOf(work') = {}, lost' = lost,
         BlocksOf(holder'[cur]) = kept,
         \A h \in Holders : h # cur => holder'[h] = holder[h]
  PROVE  NothingLost' /\ NothingDangles' /\ Apart' /\ (used \subseteq Blocks)'
<1> DEFINE b(h) == BlocksOf(holder[h])
           c(h) == BlocksOf(holder'[h])
           wb == BlocksOf(work)
<1>1. /\ cur \in Holders /\ used \subseteq Blocks
      /\ \A x \in used : x \in wb \/ x \in lost \/ \E h \in Holders : x \in b(h)
      /\ wb \subseteq used /\ \A h \in Holders : b(h) \subseteq used
      /\ \A g, h \in Holders : g # h => b(g) \cap b(h) = {}
      /\ \A h \in Holders : b(h) \cap wb = {}
  <2> USE DEF IInv
  <2>1. cur \in Holders /\ used \subseteq Blocks
    BY DEF TypeOK
  <2>2. \A x \in used : x \in wb \/ x \in lost \/ \E h \in Holders : x \in b(h)
    BY OwnedBy DEF NothingLost
  <2>3. wb \subseteq used /\ \A h \in Holders : b(h) \subseteq used
    BY OwnedBy DEF NothingDangles
  <2>4. /\ \A g, h \in Holders : g # h => b(g) \cap b(h) = {}
        /\ \A h \in Holders : b(h) \cap wb = {}
    BY DEF Apart
  <2> QED BY <2>1, <2>2, <2>3, <2>4
<1>2. /\ c(cur) = kept /\ \A h \in Holders : h # cur => c(h) = b(h)
      /\ BlocksOf(work') = {} /\ lost' = lost
      /\ wb \cup got \subseteq kept /\ kept \subseteq b(cur) \cup wb \cup got
      /\ used' = (used \cup got) \ (b(cur) \ kept)
  OBVIOUS
<1>3. /\ NothingLost' <=> \A x \in used' :
           x \in BlocksOf(work') \/ x \in lost' \/ \E h \in Holders : x \in c(h)
      /\ NothingDangles' <=> BlocksOf(work') \subseteq used' /\ \A h \in Holders : c(h) \subseteq used'
      /\ Apart' <=> /\ \A g, h \in Holders : g # h => c(g) \cap c(h) = {}
                    /\ \A h \in Holders : c(h) \cap BlocksOf(work') = {}
  BY OwnedByNext DEF NothingLost, NothingDangles, Apart
<1> HIDE DEF b, c, wb
<1>4. \A x \in used' : x \in lost \/ \E h \in Holders : x \in c(h)
  <2> SUFFICES ASSUME NEW x \in used', x \notin lost PROVE \E h \in Holders : x \in c(h)
    OBVIOUS
  <2>1. x \in wb \cup got \/ \E h \in Holders : x \in b(h)
    BY <1>1, <1>2
  <2>2. CASE x \in kept
    BY <1>1, <1>2, <2>2
  <2>3. CASE x \notin kept
    <3>1. PICK h \in Holders : x \in b(h)
      BY <1>2, <2>1, <2>3
    <3>2. h # cur
      BY <1>2, <2>3, <3>1
    <3> QED BY <1>2, <3>1, <3>2
  <2> QED BY <2>2, <2>3
<1>5. \A h \in Holders : c(h) \subseteq used'
  BY <1>1, <1>2
<1>6. \A g, h \in Holders : g # h => c(g) \cap c(h) = {}
  BY <1>1, <1>2
<1> QED BY <1>1, <1>2, <1>3, <1>4, <1>5, <1>6

\* An allocation that succeeds: w is the work with what was got.
LEMMA ContinueInvariant ==
  ASSUME IInv, pc # "idle", NEW next \in Pcs, NEW w \in Structures, NEW got,
         got \subseteq Blocks \ used, w.kind = work.kind,
         BlocksOf(w) = BlocksOf(work) \cup got,
         next = "idle" => Finished(w) /\ (holder[cur] # Nothing => w.chunk = None),
         next # "idle" => Begun(next, w),
         next = "chunk" => holder[cur] = Nothing,
         Continue(w, next, got)
  PROVE  IInv'
<1> USE DEF IInv
<1>1. /\ fault = "none" /\ fault' = fault /\ cur' = cur /\ cur \in Holders /\ lost' = lost
      /\ pc' = next /\ holder[cur] \in Structures
      /\ holder[cur] = Nothing \/ (holder[cur].kind = "plugin_enum" /\ w.kind = "plugin_enum")
  BY DEF Making, Continue, TypeOK
<1>2. CASE next # "idle"
  <2>1. work' = w /\ holder' = holder /\ used' = used \cup got
    BY <1>2 DEF Continue
  <2>2. TypeOK'
    BY <1>1, <2>1 DEF TypeOK
  <2>3. Owned' = Owned \cup got
    BY <2>1, OwnedBy, OwnedByNext
  <2>7. NothingLost' /\ NothingDangles'
    BY <2>1, <2>3, <1>1 DEF NothingLost, NothingDangles
  <2>4. Apart'
    <3>1. \A h \in Holders : BlocksOf(holder[h]) \cap got = {}
      BY DEF NothingDangles, Owned
    <3> QED BY <2>1, <3>1 DEF Apart
  <2>5. Making'
    BY <1>1, <1>2, <2>1 DEF Making
  <2>6. Made'
    BY <2>1 DEF Made
  <2> QED BY <2>2, <2>4, <2>5, <2>6, <2>7
<1>3. CASE next = "idle"
  <2> DEFINE old == holder[cur]
             m == IF old = Nothing THEN w
                  ELSE [old EXCEPT !.count = w.count, !.items = w.items, !.icells = w.icells]
  <2>1. /\ work' = Nothing /\ holder' = [holder EXCEPT ![cur] = m]
        /\ used' = (used \cup got) \ EnumBlocks(old)
    BY <1>3 DEF Continue, OldGiven
  <2>2. /\ m \in Structures /\ Finished(m)
        /\ BlocksOf(w) \subseteq BlocksOf(m) /\ BlocksOf(m) \subseteq BlocksOf(old) \cup BlocksOf(w)
        /\ EnumBlocks(old) = BlocksOf(old) \ BlocksOf(m)
    <3>1. CASE old = Nothing
      BY <1>3, <3>1, NothingHasNone
    <3>2. CASE old # Nothing
      <4>1. /\ old.kind = "plugin_enum" /\ w.kind = "plugin_enum" /\ w.chunk = None
            /\ Finished(old) /\ Finished(w)
        BY <1>1, <1>3, <3>2 DEF Made
      <4>2. /\ old.hints = <<>> /\ NoHints(old) /\ NoHints(w)
            /\ old.chunk \notin EnumBlocks(old)
        BY <4>1 DEF Finished, Suited
      <4>3. /\ m \in Structures
            /\ m.kind = "plugin_enum" /\ m.chunk = old.chunk /\ m.hints = <<>>
            /\ NoHints(m) /\ m.count = w.count /\ m.items = w.items /\ m.icells = w.icells
        BY <1>1, <3>2, <4>1, <4>2 DEF Structures, NoHints
      <4> HIDE DEF m
      <4>4. Cells(<<>>) = {}
        BY DEF Cells
      <4>5. HintBlocks(m) = {} /\ HintBlocks(old) = {} /\ HintBlocks(w) = {}
        BY <4>2, <4>3, <4>4 DEF HintBlocks, NoHints
      <4>6. EnumBlocks(m) = EnumBlocks(w)
        BY <4>3 DEF EnumBlocks
      <4>7. None \notin EnumBlocks(old) /\ None \notin EnumBlocks(w)
        BY DEF EnumBlocks
      <4>8. /\ BlocksOf(m) = EnumBlocks(w) \cup ({old.chunk} \ {None})
            /\ BlocksOf(old) = EnumBlocks(old) \cup ({old.chunk} \ {None})
            /\ BlocksOf(w) = EnumBlocks(w)
        BY <4>1, <4>3, <4>5, <4>6, <4>7 DEF BlocksOf
      <4>9. BlocksOf(old) \cap BlocksOf(w) = {}
        BY <1>1 DEF Apart, NothingDangles, Owned
      <4>10. m.chunk \notin EnumBlocks(m)
        BY <4>3, <4>6, <4>7, <4>8, <4>9
      <4>11. Finished(m)
        BY <4>1, <4>3, <4>10 DEF Finished, Suited, HintsDone, ItemsDone, CopiedSoFar, NoHints
      <4> QED BY <4>2, <4>3, <4>7, <4>8, <4>9, <4>11
    <3> QED BY <3>1, <3>2
  <2> HIDE DEF m
  <2>3. holder'[cur] = m /\ \A h \in Holders : h # cur => holder'[h] = holder[h]
    BY <1>1, <2>1 DEF TypeOK
  <2>4. NothingLost' /\ NothingDangles' /\ Apart' /\ (used \subseteq Blocks)'
    <3>1. BlocksOf(work') = {} /\ BlocksOf(holder'[cur]) = BlocksOf(m)
      BY <2>1, <2>3, NothingHasNone
    <3>2. BlocksOf(work) \cup got \subseteq BlocksOf(m)
          /\ BlocksOf(m) \subseteq BlocksOf(holder[cur]) \cup BlocksOf(work) \cup got
      BY <2>2
    <3>3. used' = (used \cup got) \ (BlocksOf(holder[cur]) \ BlocksOf(m))
      BY <2>1, <2>2
    <3> HIDE DEF IInv, old
    <3> QED BY <1>1, <2>3, <3>1, <3>2, <3>3, HandedOver
  <2>5. TypeOK'
    BY <1>1, <2>1, <2>2, <2>4, NothingHasNone DEF TypeOK
  <2>6. Making'
    BY <1>1, <1>3, <2>1 DEF Making
  <2>7. Made'
    BY <2>2, <2>3 DEF Made
  <2> QED BY <2>4, <2>5, <2>6, <2>7
<1> QED BY <1>2, <1>3

\* An allocation that fails, after which all that was obtained has been given back.
LEMMA FailInvariant ==
  ASSUME IInv, pc # "idle", NEW given, given \ {None} = BlocksOf(work), Fail(given)
  PROVE  IInv'
<1> USE DEF IInv
<1>1. /\ used' = used \ given /\ pc' = "idle" /\ work' = Nothing
      /\ UNCHANGED <<holder, cur, lost, fault>>
  BY DEF Fail
<1>2. BlocksOf(work') = {}
  BY <1>1, NothingHasNone
<1>3. TypeOK'
  BY <1>1, NothingHasNone DEF TypeOK, Pcs
<1>4. NothingLost'
  <2>1. BlocksOf(work) \subseteq given
    OBVIOUS
  <2>2. Owned = BlocksOf(work) \cup Owned'
    BY <1>1, <1>2, OwnedBy, OwnedByNext
  <2> QED BY <1>1, <2>1, <2>2 DEF NothingLost
<1>5. NothingDangles'
  <2>1. None \notin used
    BY NoneIsNoBlock DEF TypeOK
  <2> QED BY <1>1, <1>2, <2>1 DEF NothingDangles, Owned, Apart
<1>6. Apart'
  BY <1>1, <1>2 DEF Apart
<1>7. Making' /\ Made'
  BY <1>1 DEF Making, Made
<1> QED BY <1>3, <1>4, <1>5, <1>6, <1>7

\* What is known of the work in every step.
LEMMA WorkIs ==
  ASSUME IInv, pc # "idle"
  PROVE  /\ work \in Structures /\ Suited(work) /\ Begun(pc, work) /\ used \subseteq Blocks
         /\ work.kind \in Kinds \cup {"none"} /\ work.hints \in HintSources
         /\ work.count \in 0..MaxItems
         /\ work.chunk \in Pointers /\ work.names \in Pointers /\ work.values \in Pointers
         /\ work.items \in Pointers
         /\ work.ncells \in Seq(Pointers) /\ work.vcells \in Seq(Pointers)
         /\ work.icells \in Seq(Pointers)
BY DEF IInv, TypeOK, Making, Begun, Structures

\* After the hints come the values of an enum of the host; everything else is done.
LEMMA HintsEnd ==
  ASSUME NEW r, Suited(r), HintsDone(r), NoItems(r), r.kind # "plugin_enum",
         r.kind = "host_enum" => r.chunk # None
  PROVE  /\ AfterHints(r) \in Pcs \ {"chunk"}
         /\ AfterHints(r) = "idle" => Finished(r)
         /\ AfterHints(r) # "idle" => Begun(AfterHints(r), r)
<1>1. CASE r.kind = "host_enum"
  <2>1. AfterHints(r) = "items"
    BY <1>1 DEF AfterHints
  <2> QED BY <1>1, <2>1 DEF Pcs, Begun
<1>2. CASE r.kind # "host_enum"
  <2>1. AfterHints(r) = "idle" /\ r.count = 0 /\ r.icells = <<>>
    BY <1>2 DEF AfterHints, Suited, NoItems
  <2> QED BY <1>2, <2>1 DEF Pcs, Finished, ItemsDone
<1> QED BY <1>1, <1>2

\* After a pair comes the next one, or what comes after the hints: the loops of
\* hints_init_copy and va_dup end when every pair is copied.
LEMMA PairEnd ==
  ASSUME NEW r \in Structures, Suited(r), NoItems(r), r.kind \notin {"plugin_param", "plugin_enum"},
         r.hints # <<>>, CopiedSoFar(r), Len(r.ncells) = Len(r.vcells),
         r.kind = "host_enum" => r.chunk # None
  PROVE  /\ AfterPair(r) \in Pcs \ {"chunk"}
         /\ AfterPair(r) = "idle" => Finished(r)
         /\ AfterPair(r) # "idle" => Begun(AfterPair(r), r)
<1>1. Len(r.hints) \in Nat /\ Len(r.vcells) \in Nat
  <2>1. r.hints \in HintSources /\ r.vcells \in Seq(Pointers)
    BY DEF Structures
  <2> QED BY <2>1, SourceIsList, LenProperties
<1>2. CASE Len(r.vcells) < Len(r.hints) \/ r.kind = "hints_dup"
  <2>1. AfterPair(r) = "name"
    BY <1>2 DEF AfterPair
  <2> QED BY <1>2, <2>1 DEF Pcs, Begun
<1>3. CASE ~(Len(r.vcells) < Len(r.hints) \/ r.kind = "hints_dup")
  <2>1. AfterPair(r) = AfterHints(r)
    BY <1>3 DEF AfterPair
  <2>2. HintsDone(r)
    BY <1>1, <1>3 DEF HintsDone, CopiedSoFar
  <2> QED BY <2>1, <2>2, HintsEnd
<1> QED BY <1>2, <1>3

\* After the chunk come the hints, if there are any, or what comes after them; the
\* parameters of the plugin have no hints and are done.
LEMMA ChunkEnd ==
  ASSUME NEW r \in Structures, NEW b \in Blocks, Begun("chunk", r), b \notin EnumBlocks(r),
         NEW w, w = [r EXCEPT !.chunk = b]
  PROVE  /\ w \in Structures /\ w.kind = r.kind
         /\ BlocksOf(w) = BlocksOf(r) \cup {b}
         /\ AfterChunk(r) \in Pcs \ {"chunk"}
         /\ AfterChunk(r) = "idle" => Finished(w)
         /\ AfterChunk(r) # "idle" => Begun(AfterChunk(r), w)
<1>1. /\ w \in Structures /\ w.kind = r.kind /\ w.chunk = b /\ w.hints = r.hints
      /\ w.names = r.names /\ w.ncells = r.ncells /\ w.values = r.values
      /\ w.vcells = r.vcells /\ w.count = r.count /\ w.items = r.items
      /\ w.icells = r.icells
  BY DEF Structures, Pointers
<1>2. b # None /\ r.chunk = None /\ NoHints(r) /\ NoHints(w) /\ Suited(r)
  BY <1>1, NoneIsNoBlock DEF Begun, NoHints
<1>3. EnumBlocks(w) = EnumBlocks(r) /\ HintBlocks(w) = HintBlocks(r)
  BY <1>1 DEF EnumBlocks, HintBlocks
<1>4. BlocksOf(w) = BlocksOf(r) \cup {b}
  BY <1>1, <1>2, <1>3 DEF BlocksOf
<1>5. Suited(w)
  BY <1>1, <1>2, <1>3 DEF Suited
<1>6. /\ AfterChunk(r) \in Pcs \ {"chunk"}
      /\ AfterChunk(r) = "idle" => Finished(w)
      /\ AfterChunk(r) # "idle" => Begun(AfterChunk(r), w)
  <2>1. w.hints = <<>> => HintsDone(w)
    BY <1>2 DEF HintsDone, CopiedSoFar, NoHints
  <2>2. CASE r.kind \in {"plugin_param", "plugin_enum"}
    <3>1. AfterChunk(r) = "idle" /\ w.hints = <<>>
      BY <1>1, <1>2, <2>2 DEF AfterChunk, Suited
    <3>2. ItemsDone(w)
      BY <1>1, <1>2, <2>2 DEF Begun, ItemsDone, NoItems, Suited
    <3> QED BY <1>1, <1>5, <2>1, <2>2, <3>1, <3>2 DEF Finished, Pcs
  <2>3. CASE r.kind \notin {"plugin_param", "plugin_enum"}
    <3>1. NoItems(w)
      BY <1>1, <2>3 DEF Begun, NoItems
    <3>2. CASE r.hints = <<>>
      <4>1. AfterChunk(r) = AfterHints(w)
        BY <1>1, <2>3, <3>2 DEF AfterChunk, AfterHints
      <4> QED BY <1>1, <1>2, <1>5, <2>1, <2>3, <3>1, <3>2, <4>1, HintsEnd
    <3>3. CASE r.hints # <<>>
      <4>1. AfterChunk(r) = "names"
        BY <2>3, <3>3 DEF AfterChunk
      <4> QED BY <1>1, <1>2, <1>5, <2>3, <3>1, <3>3, <4>1 DEF Begun, Pcs
    <3> QED BY <3>2, <3>3
  <2> QED BY <2>2, <2>3
<1> QED BY <1>1, <1>4, <1>6

----------------------------------------------------------------------------
(* The actions. *)

\* At first nothing has been handed out.
LEMMA InitInvariant == Init => IInv
<1> SUFFICES ASSUME Init PROVE IInv
  OBVIOUS
<1>1. \A h \in Holders : holder[h] = Nothing
  BY DEF Init
<1>2. TypeOK
  BY NothingHasNone, StorageAssumption DEF Init, TypeOK, Pcs
<1>3. NothingLost /\ NothingDangles
  BY <1>1, NothingHasNone, OwnedBy DEF Init, NothingLost, NothingDangles
<1>4. Apart /\ Making /\ Made
  BY <1>1, NothingHasNone DEF Init, Apart, Making, Made
<1> QED BY <1>2, <1>3, <1>4 DEF IInv

\* A routine begins, with nothing obtained.
LEMMA StartInvariant ==
  ASSUME IInv, NEW h \in Holders, NEW k \in Kinds, NEW hints \in HintSources,
         NEW count \in 0..MaxItems, Start(h, k, hints, count)
  PROVE  IInv'
<1> USE DEF IInv
<1> DEFINE w == [Nothing EXCEPT !.kind = k, !.hints = hints, !.count = count]
           at == CASE k = "plugin_enum" -> "items" [] k = "hints_dup" -> "names"
                   [] OTHER -> "chunk"
<1>1. /\ pc = "idle" /\ fault = "none" /\ work = Nothing
      /\ holder[h] = Nothing \/ (holder[h].kind = "plugin_enum" /\ k = "plugin_enum")
      /\ k \in {"plugin_param", "plugin_enum"} => hints = <<>>
      /\ k = "hints_dup" => hints # <<>>
      /\ k \notin {"host_enum", "plugin_enum"} => count = 0
      /\ cur' = h /\ work' = w /\ pc' = at
      /\ UNCHANGED <<used, holder, lost, fault>>
  BY DEF Start, Making
<1>2. /\ w.kind = k /\ w.chunk = None /\ w.hints = hints /\ w.names = None
      /\ w.ncells = <<>> /\ w.values = None /\ w.vcells = <<>> /\ w.count = count
      /\ w.items = None /\ w.icells = <<>>
  BY DEF Nothing
<1>3. w \in Structures
  <2>1. Nothing \in Structures /\ k \in Kinds \cup {"none"}
    BY NothingHasNone
  <2> QED BY <2>1 DEF Structures
<1>4. /\ k = "plugin_enum" => at = "items"
      /\ k = "hints_dup" => at = "names"
      /\ k \notin {"plugin_enum", "hints_dup"} => at = "chunk"
  OBVIOUS
<1> HIDE DEF w, at
<1>5. BlocksOf(w) = {} /\ NoHints(w) /\ NoItems(w) /\ EnumBlocks(w) = {}
  BY <1>2 DEF BlocksOf, HintBlocks, EnumBlocks, Cells, NoHints, NoItems
<1>6. Suited(w)
  BY <1>1, <1>2, <1>5 DEF Suited
<1>7. Begun(at, w) /\ at \in Pcs \ {"idle"}
  <2>1. CASE k = "plugin_enum"
    <3>1. HintsDone(w)
      BY <1>1, <1>2, <2>1 DEF HintsDone, CopiedSoFar
    <3> QED BY <1>2, <1>4, <1>5, <1>6, <2>1, <3>1 DEF Begun, Pcs
  <2>2. CASE k = "hints_dup"
    BY <1>1, <1>2, <1>4, <1>5, <1>6, <2>2 DEF Begun, Pcs
  <2>3. CASE k \notin {"plugin_enum", "hints_dup"}
    BY <1>2, <1>4, <1>5, <1>6, <2>3 DEF Begun, Pcs
  <2> QED BY <2>1, <2>2, <2>3
<1>8. TypeOK'
  BY <1>1, <1>3, <1>7 DEF TypeOK
<1>9. BlocksOf(work) = {} /\ BlocksOf(work') = {}
  BY <1>1, <1>5, NothingHasNone
<1>10. NothingLost' /\ NothingDangles'
  <2>1. Owned' = Owned
    BY <1>1, <1>9, OwnedBy, OwnedByNext
  <2> QED BY <1>1, <2>1 DEF NothingLost, NothingDangles
<1>11. Apart'
  BY <1>1, <1>9 DEF Apart
<1>12. Making'
  BY <1>1, <1>2, <1>4, <1>7 DEF Making
<1>13. Made'
  BY <1>1 DEF Made
<1> QED BY <1>8, <1>10, <1>11, <1>12, <1>13

\* The chunk of a structure; the values of a plugin's enum are given back without it.
LEMMA ChunkInvariant ==
  ASSUME IInv, Chunk
  PROVE  IInv'
<1>1. /\ pc = "chunk" /\ work \in Structures /\ Begun("chunk", work)
      /\ holder[cur] = Nothing /\ BlocksOf(work) \subseteq used
  <2>1. pc = "chunk"
    BY DEF Chunk
  <2>2. BlocksOf(work) \subseteq used
    BY OwnedBy DEF IInv, NothingDangles
  <2> QED BY <2>1, <2>2, WorkIs DEF IInv, Making
<1>2. ASSUME NEW b \in Fresh, Continue([work EXCEPT !.chunk = b], AfterChunk(work), {b})
      PROVE  IInv'
  <2> DEFINE w == [work EXCEPT !.chunk = b]
  <2>1. b \in Blocks \ used /\ b \notin EnumBlocks(work)
    BY <1>1, <1>2, FreshIsUnused DEF BlocksOf, EnumBlocks
  <2>2. /\ w \in Structures /\ w.kind = work.kind
        /\ BlocksOf(w) = BlocksOf(work) \cup {b}
        /\ AfterChunk(work) \in Pcs \ {"chunk"}
        /\ AfterChunk(work) = "idle" => Finished(w)
        /\ AfterChunk(work) # "idle" => Begun(AfterChunk(work), w)
    BY <1>1, <2>1, ChunkEnd
  <2> QED BY <1>1, <1>2, <2>1, <2>2, ContinueInvariant
<1>3. ASSUME Fail(EnumBlocks(work)) PROVE IInv'
  <2>1. EnumBlocks(work) \ {None} = BlocksOf(work)
    BY <1>1 DEF Begun, NoHints, BlocksOf, HintBlocks, EnumBlocks, Cells
  <2> QED BY <1>1, <1>3, <2>1, FailInvariant
<1> QED BY <1>2, <1>3 DEF Chunk

\* What the steps that copy hints know, and what they know when nothing else has
\* been obtained than the hints and the chunk.
LEMMA HintStep ==
  ASSUME IInv, pc \in {"names", "values", "name", "value"}
  PROVE  /\ NoItems(work) /\ work.kind \notin {"plugin_param", "plugin_enum"}
         /\ work.hints # <<>> /\ EnumBlocks(work) = {}
         /\ work.kind = "host_enum" => work.chunk # None
         /\ holder[cur] = Nothing
<1>1. /\ NoItems(work) /\ work.kind \notin {"plugin_param", "plugin_enum"}
      /\ work.hints # <<>>
      /\ work.kind = "host_enum" => work.chunk # None
  BY WorkIs DEF Begun
<1>2. EnumBlocks(work) = {}
  BY <1>1 DEF NoItems, EnumBlocks, Cells
<1>3. holder[cur] = Nothing
  BY <1>1 DEF IInv, Making
<1> QED BY <1>1, <1>2, <1>3

\* The array of the names; the caller's chunk is given back without it.
LEMMA NamesInvariant ==
  ASSUME IInv, Names
  PROVE  IInv'
<1>1. pc = "names"
  BY DEF Names
<1>2. NoHints(work) /\ Suited(work)
  BY <1>1, WorkIs DEF Begun
<1>3. ASSUME NEW b \in Fresh, Continue([work EXCEPT !.names = b], "values", {b})
      PROVE  IInv'
  <2> DEFINE w == [work EXCEPT !.names = b]
  <2>1. b \in Blocks \ used /\ Continue(w, "values", {b})
    BY <1>3, FreshIsUnused
  <2>2. /\ w \in Structures /\ w.kind = work.kind /\ w.chunk = work.chunk
        /\ w.hints = work.hints /\ w.names = b /\ w.ncells = work.ncells
        /\ w.values = work.values /\ w.vcells = work.vcells /\ w.count = work.count
        /\ w.items = work.items /\ w.icells = work.icells
    BY <1>1, <2>1, WorkIs DEF Structures, Pointers
  <2> HIDE DEF w
  <2>3. EnumBlocks(w) = {}
    BY <1>1, <2>2, HintStep DEF EnumBlocks
  <2>4. BlocksOf(w) = BlocksOf(work) \cup {b}
    BY <1>1, <1>2, <2>1, <2>2, <2>3, HintStep, NoneIsNoBlock
       DEF NoHints, BlocksOf, HintBlocks, Cells
  <2>5. Begun("values", w)
    BY <1>1, <1>2, <2>2, <2>3, HintStep DEF Begun, Suited, NoItems, NoHints
  <2>6. {b} \subseteq Blocks \ used /\ "values" \in Pcs \ {"idle", "chunk"}
    BY <2>1 DEF Pcs
  <2> QED BY <1>1, <2>1, <2>2, <2>4, <2>5, <2>6, ContinueInvariant
<1>4. ASSUME Fail(ChunkGiven(work)) PROVE IInv'
  <2>1. ChunkGiven(work) \ {None} = BlocksOf(work)
    BY <1>1, <1>2, HintStep DEF NoHints, ChunkGiven, BlocksOf, HintBlocks, Cells
  <2> QED BY <1>1, <1>4, <2>1, FailInvariant
<1> QED BY <1>3, <1>4 DEF Names

\* The array of the values; that of the names is given back without it.
LEMMA ValuesInvariant ==
  ASSUME IInv, Values
  PROVE  IInv'
<1>1. pc = "values"
  BY DEF Values
<1>2. /\ work.values = None /\ work.ncells = <<>> /\ work.vcells = <<>> /\ Suited(work)
  BY <1>1, WorkIs DEF Begun
<1>3. ASSUME NEW b \in Fresh, Continue([work EXCEPT !.values = b], "name", {b})
      PROVE  IInv'
  <2> DEFINE w == [work EXCEPT !.values = b]
  <2>1. b \in Blocks \ used /\ Continue(w, "name", {b})
    BY <1>3, FreshIsUnused
  <2>2. /\ w \in Structures /\ w.kind = work.kind /\ w.chunk = work.chunk
        /\ w.hints = work.hints /\ w.names = work.names /\ w.ncells = work.ncells
        /\ w.values = b /\ w.vcells = work.vcells /\ w.count = work.count
        /\ w.items = work.items /\ w.icells = work.icells
    BY <1>1, <2>1, WorkIs DEF Structures, Pointers
  <2> HIDE DEF w
  <2>3. EnumBlocks(w) = {}
    BY <1>1, <2>2, HintStep DEF EnumBlocks
  <2>4. BlocksOf(w) = BlocksOf(work) \cup {b}
    BY <1>1, <1>2, <2>1, <2>2, <2>3, HintStep, NoneIsNoBlock
       DEF BlocksOf, HintBlocks, Cells
  <2>5. Begun("name", w)
    <3>1. 0 < Len(w.hints) /\ Len(w.hints) \in Nat
      <4>1. work.hints \in Seq(BOOLEAN) /\ work.hints # <<>>
        BY <1>1, WorkIs, SourceIsList, HintStep
      <4> QED BY <2>2, <4>1, EmptySeq
    <3>2. CopiedSoFar(w) /\ Len(w.ncells) = Len(w.vcells) /\ Len(w.vcells) = 0
      BY <1>2, <2>2, <3>1 DEF CopiedSoFar
    <3> QED BY <1>1, <1>2, <2>2, <2>3, <3>1, <3>2, HintStep DEF Begun, Suited, NoItems, NoHints
  <2>6. {b} \subseteq Blocks \ used /\ "name" \in Pcs \ {"idle", "chunk"}
    BY <2>1 DEF Pcs
  <2> QED BY <1>1, <2>1, <2>2, <2>4, <2>5, <2>6, ContinueInvariant
<1>4. ASSUME Fail(NamesGiven(work) \cup ChunkGiven(work)) PROVE IInv'
  <2>1. (NamesGiven(work) \cup ChunkGiven(work)) \ {None} = BlocksOf(work)
    BY <1>1, <1>2, HintStep DEF NamesGiven, ChunkGiven, BlocksOf, HintBlocks, Cells
  <2> QED BY <1>1, <1>4, <2>1, FailInvariant
<1> QED BY <1>3, <1>4 DEF Values

\* The copy of a name, without which the pairs before it and both arrays are given
\* back; or the assert of va_dup, which leaves everything as it is.
LEMMA NameInvariant ==
  ASSUME IInv, Name
  PROVE  IInv'
<1>1. pc = "name"
  BY DEF Name
<1>2. /\ Suited(work) /\ CopiedSoFar(work) /\ Len(work.ncells) = Len(work.vcells)
      /\ work.kind # "hints_dup" => Len(work.vcells) < Len(work.hints)
      /\ Len(work.hints) \in Nat /\ Len(work.ncells) \in Nat
      /\ DOMAIN work.ncells = 1..Len(work.ncells) /\ DOMAIN work.vcells = 1..Len(work.vcells)
  BY <1>1, WorkIs, SourceIsList, LenProperties DEF Begun
<1>3. ASSUME Len(work.ncells) < Len(work.hints), NEW b \in Fresh,
             Continue([work EXCEPT !.ncells = Append(@, b)], "value", {b})
      PROVE  IInv'
  <2> DEFINE w == [work EXCEPT !.ncells = Append(@, b)]
  <2>1. b \in Blocks \ used /\ Continue(w, "value", {b})
    BY <1>3, FreshIsUnused
  <2>2. /\ Append(work.ncells, b) \in Seq(Pointers)
        /\ Len(Append(work.ncells, b)) = Len(work.ncells) + 1
        /\ Cells(Append(work.ncells, b)) = Cells(work.ncells) \cup {b}
    <3>1. work.ncells \in Seq(Pointers) /\ b \in Pointers
      BY <1>1, <2>1, WorkIs DEF Pointers
    <3> QED BY <3>1, CellsAppended
  <2>3. /\ w \in Structures /\ w.kind = work.kind /\ w.chunk = work.chunk
        /\ w.hints = work.hints /\ w.names = work.names
        /\ w.ncells = Append(work.ncells, b)
        /\ w.values = work.values /\ w.vcells = work.vcells /\ w.count = work.count
        /\ w.items = work.items /\ w.icells = work.icells
    BY <1>1, <2>2, WorkIs DEF Structures
  <2> HIDE DEF w
  <2>4. EnumBlocks(w) = {}
    BY <1>1, <2>3, HintStep DEF EnumBlocks
  <2>5. BlocksOf(w) = BlocksOf(work) \cup {b}
    BY <1>1, <2>1, <2>2, <2>3, <2>4, HintStep, NoneIsNoBlock DEF BlocksOf, HintBlocks
  <2>6. Begun("value", w)
    <3>1. CopiedSoFar(w)
      BY <1>2, <2>3 DEF CopiedSoFar
    <3> QED BY <1>1, <1>2, <1>3, <2>2, <2>3, <2>4, <3>1, HintStep
         DEF Begun, Suited, NoItems, NoHints
  <2>7. {b} \subseteq Blocks \ used /\ "value" \in Pcs \ {"idle", "chunk"}
    BY <2>1 DEF Pcs
  <2> QED BY <1>1, <2>1, <2>3, <2>5, <2>6, <2>7, ContinueInvariant
<1>4. ASSUME Fail(ArraysCleaned(work, Len(work.vcells)) \cup ChunkGiven(work)) PROVE IInv'
  <2>1. (ArraysCleaned(work, Len(work.vcells)) \cup ChunkGiven(work)) \ {None} = BlocksOf(work)
    BY <1>1, <1>2, HintStep DEF ArraysCleaned, PairsGiven, NamesGiven, ChunkGiven,
                                BlocksOf, HintBlocks, Cells
  <2> QED BY <1>1, <1>4, <2>1, FailInvariant
<1>5. ASSUME fault' = "assert_index", pc' = "idle",
             UNCHANGED <<used, holder, cur, work, lost>>
      PROVE  IInv'
  <2>1. TypeOK'
    BY <1>5 DEF IInv, TypeOK, Pcs
  <2>2. NothingLost' /\ NothingDangles'
    <3>1. Owned' = Owned
      BY <1>5, OwnedBy, OwnedByNext
    <3> QED BY <1>5, <3>1 DEF IInv, NothingLost, NothingDangles
  <2>3. Apart' /\ Making' /\ Made'
    BY <1>5 DEF IInv, Apart, Making, Made
  <2> QED BY <2>1, <2>2, <2>3 DEF IInv
<1> QED BY <1>3, <1>4, <1>5 DEF Name

\* The copy of a value, or the cell of one that is missing, makes the pair whole.
LEMMA PairMade ==
  ASSUME IInv, pc = "value", NEW b \in Pointers, work.hints[Len(work.ncells)] <=> b # None,
         NEW w, w = [work EXCEPT !.vcells = Append(@, b)]
  PROVE  /\ w \in Structures /\ w.kind = work.kind
         /\ BlocksOf(w) = BlocksOf(work) \cup ({b} \ {None})
         /\ AfterPair(w) \in Pcs \ {"chunk"}
         /\ AfterPair(w) = "idle" => Finished(w)
         /\ AfterPair(w) # "idle" => Begun(AfterPair(w), w)
<1>1. /\ Suited(work) /\ CopiedSoFar(work) /\ Len(work.ncells) = Len(work.vcells) + 1
      /\ Len(work.vcells) < Len(work.hints)
      /\ Len(work.hints) \in Nat
  BY WorkIs, SourceIsList DEF Begun
<1>2. /\ Append(work.vcells, b) \in Seq(Pointers) /\ Len(work.vcells) \in Nat
      /\ Len(Append(work.vcells, b)) = Len(work.vcells) + 1
      /\ \A i \in 1..Len(work.vcells) : Append(work.vcells, b)[i] = work.vcells[i]
      /\ Append(work.vcells, b)[Len(work.vcells) + 1] = b
      /\ Cells(Append(work.vcells, b)) = Cells(work.vcells) \cup {b}
  BY WorkIs, CellsAppended
<1>3. /\ w \in Structures /\ w.kind = work.kind /\ w.chunk = work.chunk
      /\ w.hints = work.hints /\ w.names = work.names /\ w.ncells = work.ncells
      /\ w.values = work.values /\ w.vcells = Append(work.vcells, b)
      /\ w.count = work.count /\ w.items = work.items /\ w.icells = work.icells
  BY <1>2, WorkIs DEF Structures
<1>4. EnumBlocks(w) = {}
  BY <1>3, HintStep DEF EnumBlocks
<1>5. BlocksOf(w) = BlocksOf(work) \cup ({b} \ {None})
  BY <1>2, <1>3, <1>4, HintStep DEF BlocksOf, HintBlocks
<1>6. CopiedSoFar(w) /\ Len(w.ncells) = Len(w.vcells)
  BY <1>1, <1>2, <1>3 DEF CopiedSoFar
<1>7. Suited(w) /\ NoItems(w) /\ w.kind \notin {"plugin_param", "plugin_enum"}
      /\ w.hints # <<>> /\ (w.kind = "host_enum" => w.chunk # None)
  BY <1>1, <1>3, HintStep DEF Suited, NoItems
<1> QED BY <1>3, <1>5, <1>6, <1>7, PairEnd

\* The copy of a value, without which the name before it is given back too; a value
\* that is missing gets a cell and no copy.
LEMMA ValueInvariant ==
  ASSUME IInv, Value
  PROVE  IInv'
<1>1. pc = "value"
  BY DEF Value
<1>2. /\ Len(work.ncells) = Len(work.vcells) + 1 /\ Len(work.vcells) \in Nat
      /\ DOMAIN work.ncells = 1..Len(work.ncells) /\ DOMAIN work.vcells = 1..Len(work.vcells)
  BY <1>1, WorkIs, LenProperties DEF Begun
<1>3. ASSUME work.hints[Len(work.ncells)], NEW b \in Fresh, NEW w,
             w = [work EXCEPT !.vcells = Append(@, b)], Continue(w, AfterPair(w), {b})
      PROVE  IInv'
  <2>1. b \in Blocks \ used /\ b \in Pointers /\ b # None
    BY <1>3, FreshIsUnused, NoneIsNoBlock DEF Pointers
  <2>2. /\ w \in Structures /\ w.kind = work.kind
        /\ BlocksOf(w) = BlocksOf(work) \cup {b}
        /\ AfterPair(w) \in Pcs \ {"chunk"}
        /\ AfterPair(w) = "idle" => Finished(w)
        /\ AfterPair(w) # "idle" => Begun(AfterPair(w), w)
    BY <1>1, <1>3, <2>1, PairMade
  <2>3. {b} \subseteq Blocks \ used /\ holder[cur] = Nothing
    BY <1>1, <2>1, HintStep
  <2> QED BY <1>1, <1>3, <2>2, <2>3, ContinueInvariant
<1>4. ASSUME Fail(NameGiven(work) \cup ArraysCleaned(work, Len(work.vcells)) \cup ChunkGiven(work))
      PROVE  IInv'
  <2>1. Cells(work.ncells) = {work.ncells[i] : i \in 1..Len(work.vcells)} \cup NameGiven(work)
    BY <1>2 DEF Cells, NameGiven
  <2>2. (NameGiven(work) \cup ArraysCleaned(work, Len(work.vcells)) \cup ChunkGiven(work)) \ {None}
        = BlocksOf(work)
    BY <1>1, <1>2, <2>1, HintStep DEF ArraysCleaned, PairsGiven, NamesGiven, ChunkGiven,
                                      BlocksOf, HintBlocks, Cells
  <2> QED BY <1>1, <1>4, <2>2, FailInvariant
<1>5. ASSUME ~work.hints[Len(work.ncells)], NEW w,
             w = [work EXCEPT !.vcells = Append(@, NoValue)], Continue(w, AfterPair(w), {})
      PROVE  IInv'
  <2>1. NoValue = None /\ None \in Pointers
    BY DEF NoValue, Pointers
  <2>2. /\ w \in Structures /\ w.kind = work.kind
        /\ BlocksOf(w) = BlocksOf(work) \cup {}
        /\ AfterPair(w) \in Pcs \ {"chunk"}
        /\ AfterPair(w) = "idle" => Finished(w)
        /\ AfterPair(w) # "idle" => Begun(AfterPair(w), w)
    BY <1>1, <1>5, <2>1, PairMade
  <2>3. holder[cur] = Nothing
    BY <1>1, HintStep
  <2> QED BY <1>1, <1>5, <2>2, <2>3, ContinueInvariant
<1> QED BY <1>3, <1>4, <1>5 DEF Value

\* What the steps that copy the values of an enum know.
LEMMA ItemStep ==
  ASSUME IInv, pc \in {"items", "item"}
  PROVE  /\ HintsDone(work) /\ Suited(work) /\ work.kind \in {"host_enum", "plugin_enum"}
         /\ work.kind = "plugin_enum" => work.chunk = None /\ work.hints = <<>> /\ NoHints(work)
         /\ work.kind = "host_enum" => work.chunk # None
         /\ holder[cur] = Nothing \/ work.kind = "plugin_enum"
         /\ Len(work.icells) \in Nat /\ work.count \in Nat
<1>1. Begun(pc, work) /\ Suited(work) /\ work.icells \in Seq(Pointers) /\ work.count \in 0..MaxItems
  BY WorkIs
<1>2. Len(work.icells) \in Nat /\ work.count \in Nat
  BY <1>1, LenProperties, StorageAssumption
<1> QED BY <1>1, <1>2 DEF Begun, Suited, IInv, Making

\* The values of an enum are whole: the structure is finished, or its chunk is next.
LEMMA ItemsEnd ==
  ASSUME IInv, pc \in {"items", "item"}, NEW w \in Structures, w.kind = work.kind,
         w.chunk = work.chunk, Suited(w), HintsDone(w), ItemsDone(w),
         w.kind = "plugin_enum" => NoHints(w)
  PROVE  /\ AfterItems(w) \in Pcs
         /\ AfterItems(w) = "idle" => Finished(w) /\ (holder[cur] # Nothing => w.chunk = None)
         /\ AfterItems(w) # "idle" => Begun(AfterItems(w), w) /\ holder[cur] = Nothing
<1>1. AfterItems(w) = IF w.kind = "plugin_enum" /\ holder[cur] = Nothing THEN "chunk" ELSE "idle"
  BY DEF AfterItems
<1>2. CASE w.kind = "plugin_enum" /\ holder[cur] = Nothing
  BY <1>1, <1>2, ItemStep DEF Begun, Pcs
<1>3. CASE ~(w.kind = "plugin_enum" /\ holder[cur] = Nothing)
  BY <1>1, <1>3, ItemStep DEF Finished, Pcs
<1> QED BY <1>2, <1>3

\* The array of an enum's values, without which hints and chunk are given back.
LEMMA ItemsInvariant ==
  ASSUME IInv, Items
  PROVE  IInv'
<1>1. pc = "items"
  BY DEF Items
<1>2. NoItems(work) /\ EnumBlocks(work) = {}
  <2>1. NoItems(work)
    BY <1>1, WorkIs DEF Begun
  <2> QED BY <2>1 DEF NoItems, EnumBlocks, Cells
<1>3. ASSUME NEW b \in Fresh, NEW w, w = [work EXCEPT !.items = b],
             Continue(w, IF work.count = 0 THEN AfterItems(w) ELSE "item", {b})
      PROVE  IInv'
  <2>1. b \in Blocks \ used
    BY <1>3, FreshIsUnused
  <2>2. /\ w \in Structures /\ w.kind = work.kind /\ w.chunk = work.chunk
        /\ w.hints = work.hints /\ w.names = work.names /\ w.ncells = work.ncells
        /\ w.values = work.values /\ w.vcells = work.vcells /\ w.count = work.count
        /\ w.items = b /\ w.icells = <<>>
    BY <1>1, <1>2, <1>3, <2>1, WorkIs DEF Structures, Pointers, NoItems
  <2>3. EnumBlocks(w) = {b} /\ HintBlocks(w) = HintBlocks(work)
    BY <2>1, <2>2, NoneIsNoBlock DEF EnumBlocks, HintBlocks, Cells
  <2>4. BlocksOf(w) = BlocksOf(work) \cup {b}
    BY <1>2, <2>1, <2>2, <2>3, NoneIsNoBlock DEF BlocksOf
  <2>5. HintsDone(w) /\ Suited(w) /\ (w.kind = "plugin_enum" => NoHints(w))
    <3>1. HintsDone(w) /\ (w.kind = "plugin_enum" => NoHints(w))
      BY <1>1, <2>2, ItemStep DEF HintsDone, CopiedSoFar, NoHints
    <3>2. w.kind = "plugin_enum" => w.chunk \notin EnumBlocks(w)
      BY <1>1, <2>1, <2>2, <2>3, ItemStep, NoneIsNoBlock
    <3> QED BY <1>1, <2>2, <3>1, <3>2, ItemStep DEF Suited
  <2>6. {b} \subseteq Blocks \ used
    BY <2>1
  <2>7. CASE work.count = 0
    <3>1. ItemsDone(w)
      BY <2>2, <2>7 DEF ItemsDone
    <3>2. Continue(w, AfterItems(w), {b})
      BY <1>3, <2>7
    <3> QED BY <1>1, <2>2, <2>4, <2>5, <2>6, <3>1, <3>2, ItemsEnd, ContinueInvariant
  <2>8. CASE work.count # 0
    <3>1. Begun("item", w) /\ "item" \in Pcs \ {"idle", "chunk"}
      BY <1>1, <2>2, <2>5, <2>8, ItemStep DEF Begun, Pcs
    <3>2. Continue(w, "item", {b})
      BY <1>3, <2>8
    <3> QED BY <1>1, <2>2, <2>4, <2>6, <3>1, <3>2, ContinueInvariant
  <2> QED BY <2>7, <2>8
<1>4. ASSUME Fail(HintsCleared(work) \cup ChunkGiven(work)) PROVE IInv'
  <2>1. (HintsCleared(work) \cup ChunkGiven(work)) \ {None} = BlocksOf(work)
    BY <1>2 DEF HintsCleared, Cleared, ChunkGiven, BlocksOf, HintBlocks
  <2> QED BY <1>1, <1>4, <2>1, FailInvariant
<1> QED BY <1>3, <1>4 DEF Items

\* The copy of an enum's value, without which those before it, the hints and the
\* chunk are given back.
LEMMA ItemInvariant ==
  ASSUME IInv, Item
  PROVE  IInv'
<1>1. pc = "item"
  BY DEF Item
<1>2. Len(work.icells) < work.count
  BY <1>1, WorkIs DEF Begun
<1>3. ASSUME NEW b \in Fresh, NEW w, w = [work EXCEPT !.icells = Append(@, b)],
             Continue(w, IF Len(w.icells) < w.count THEN "item" ELSE AfterItems(w), {b})
      PROVE  IInv'
  <2>1. b \in Blocks \ used
    BY <1>3, FreshIsUnused
  <2>2. /\ Append(work.icells, b) \in Seq(Pointers)
        /\ Len(Append(work.icells, b)) = Len(work.icells) + 1
        /\ Cells(Append(work.icells, b)) = Cells(work.icells) \cup {b}
    <3>1. work.icells \in Seq(Pointers) /\ b \in Pointers
      BY <1>1, <2>1, WorkIs DEF Pointers
    <3> QED BY <3>1, CellsAppended
  <2>3. /\ w \in Structures /\ w.kind = work.kind /\ w.chunk = work.chunk
        /\ w.hints = work.hints /\ w.names = work.names /\ w.ncells = work.ncells
        /\ w.values = work.values /\ w.vcells = work.vcells /\ w.count = work.count
        /\ w.items = work.items /\ w.icells = Append(work.icells, b)
    BY <1>1, <1>3, <2>2, WorkIs DEF Structures
  <2>4. EnumBlocks(w) = EnumBlocks(work) \cup {b} /\ HintBlocks(w) = HintBlocks(work)
    BY <2>1, <2>2, <2>3, NoneIsNoBlock DEF EnumBlocks, HintBlocks
  <2>5. BlocksOf(w) = BlocksOf(work) \cup {b}
    BY <2>1, <2>3, <2>4, NoneIsNoBlock DEF BlocksOf
  <2>6. HintsDone(w) /\ Suited(w) /\ (w.kind = "plugin_enum" => NoHints(w))
    <3>1. HintsDone(w) /\ (w.kind = "plugin_enum" => NoHints(w))
      BY <1>1, <2>3, ItemStep DEF HintsDone, CopiedSoFar, NoHints
    <3>2. w.kind = "plugin_enum" => w.chunk \notin EnumBlocks(w)
      BY <1>1, <2>3, ItemStep DEF EnumBlocks
    <3> QED BY <1>1, <2>3, <3>1, <3>2, ItemStep DEF Suited
  <2>7. {b} \subseteq Blocks \ used
    BY <2>1
  <2>8. CASE Len(w.icells) < w.count
    <3>1. Begun("item", w) /\ "item" \in Pcs \ {"idle", "chunk"}
      BY <1>1, <2>3, <2>6, <2>8, ItemStep DEF Begun, Pcs
    <3>2. Continue(w, "item", {b})
      BY <1>3, <2>8
    <3> QED BY <1>1, <2>3, <2>5, <2>7, <3>1, <3>2, ContinueInvariant
  <2>9. CASE ~(Len(w.icells) < w.count)
    <3>1. ItemsDone(w)
      BY <1>1, <1>2, <2>2, <2>3, <2>9, ItemStep DEF ItemsDone
    <3>2. Continue(w, AfterItems(w), {b})
      BY <1>3, <2>9
    <3> QED BY <1>1, <2>3, <2>5, <2>6, <2>7, <3>1, <3>2, ItemsEnd, ContinueInvariant
  <2> QED BY <2>8, <2>9
<1>4. ASSUME Fail(EnumBlocks(work) \cup HintsCleared(work) \cup ChunkGiven(work)) PROVE IInv'
  <2>1. (EnumBlocks(work) \cup HintsCleared(work) \cup ChunkGiven(work)) \ {None} = BlocksOf(work)
    BY DEF HintsCleared, Cleared, ChunkGiven, BlocksOf, HintBlocks, EnumBlocks
  <2> QED BY <1>1, <1>4, <2>1, FailInvariant
<1> QED BY <1>3, <1>4 DEF Item

\* A structure is given back, all of it but what host_parameter_free leaves behind.
LEMMA FreeInvariant ==
  ASSUME IInv, NEW h \in Holders, Free(h)
  PROVE  IInv'
<1> USE DEF IInv
<1> DEFINE r == holder[h]
           left == IF r.kind = "host_enum" THEN HintBlocks(r) \cup {r.chunk} ELSE {}
<1>1. /\ pc = "idle" /\ fault = "none" /\ r # Nothing
      /\ used' = used \ Freed(r) /\ lost' = lost \cup left
      /\ holder' = [holder EXCEPT ![h] = Nothing]
      /\ UNCHANGED <<pc, cur, work, fault>>
  BY DEF Free
<1>2. r \in Structures /\ Finished(r) /\ BlocksOf(r) \subseteq Blocks
  BY BlocksAreBlocks DEF TypeOK, Made
<1>3. Freed(r) \subseteq BlocksOf(r) /\ BlocksOf(r) \subseteq Freed(r) \cup left
      /\ left \subseteq BlocksOf(r)
  BY <1>2 DEF Freed, Finished, BlocksOf, Cleared, ChunkGiven, HintBlocks, EnumBlocks
<1> HIDE DEF left
<1>4. holder'[h] = Nothing /\ \A g \in Holders : g # h => holder'[g] = holder[g]
  BY <1>1 DEF TypeOK
<1>5. BlocksOf(Nothing) = {}
  BY NothingHasNone
<1>6. TypeOK'
  BY <1>1, <1>2, <1>3, NothingHasNone DEF TypeOK
<1>7. \A x : x \in Owned <=> x \in Owned' \/ x \in BlocksOf(r)
  <2>1. \A x : x \in Owned <=>
          x \in BlocksOf(work) \/ \E g \in Holders : x \in BlocksOf(holder[g])
    BY OwnedBy
  <2>2. \A x : x \in Owned' <=>
          x \in BlocksOf(work) \/ \E g \in Holders : x \in BlocksOf(holder'[g])
    BY <1>1, OwnedByNext
  <2>3. ASSUME NEW x, NEW g \in Holders, x \in BlocksOf(holder'[g])
        PROVE  x \in BlocksOf(holder[g])
    BY <1>4, <1>5, <2>3
  <2>4. ASSUME NEW x, NEW g \in Holders, x \in BlocksOf(holder[g])
        PROVE  x \in BlocksOf(holder'[g]) \/ x \in BlocksOf(r)
    BY <1>4, <2>4
  <2> QED BY <2>1, <2>2, <2>3, <2>4
<1>8. NothingLost'
  BY <1>1, <1>3, <1>7 DEF NothingLost
<1>9. NothingDangles'
  <2>1. \A g \in Holders : g # h => BlocksOf(holder[g]) \cap BlocksOf(r) = {}
    BY DEF Apart
  <2>2. BlocksOf(work) \cap BlocksOf(r) = {}
    BY DEF Apart
  <2>3. ASSUME NEW x \in Owned' PROVE x \notin BlocksOf(r)
    <3>1. x \in BlocksOf(work) \/ \E g \in Holders : x \in BlocksOf(holder'[g])
      BY <1>1, OwnedByNext
    <3> QED BY <1>4, <1>5, <2>1, <2>2, <3>1
  <2> QED BY <1>1, <1>3, <1>7, <2>3 DEF NothingDangles
<1>10. Apart'
  BY <1>1, <1>4, <1>5 DEF Apart
<1>11. Making' /\ Made'
  BY <1>1, <1>4, NothingHasNone DEF Making, Made
<1> QED BY <1>6, <1>8, <1>9, <1>10, <1>11

\* Every step keeps the invariant.
LEMMA StepInvariant == IInv /\ [Next]_vars => IInv'
<1> SUFFICES ASSUME IInv, [Next]_vars PROVE IInv'
  OBVIOUS
<1>1. CASE UNCHANGED vars
  <2> USE <1>1 DEF vars
  <2>1. Owned' = Owned
    BY OwnedBy, OwnedByNext
  <2> QED BY <2>1 DEF IInv, TypeOK, NothingLost, NothingDangles, Apart, Making, Made
<1>2. CASE Next
  BY <1>2, StartInvariant, ChunkInvariant, NamesInvariant, ValuesInvariant, NameInvariant,
     ValueInvariant, ItemsInvariant, ItemInvariant, FreeInvariant DEF Next
<1> QED BY <1>1, <1>2

----------------------------------------------------------------------------
(* The theorems. *)

\* The inductive invariant.
THEOREM StorageInvariant == Spec => []IInv
BY InitInvariant, StepInvariant, PTL DEF Spec

\* Type correctness.
THEOREM StorageTypeCorrect == Spec => []TypeOK
<1>1. IInv => TypeOK
  BY DEF IInv
<1> QED BY <1>1, StorageInvariant, PTL

\* Whichever allocation fails, of however many hints and values, what was obtained
\* is given back: a block that is in use is owned by a structure, or was left behind
\* by the early return of host_parameter_free (host.c), the one leak there is.
THEOREM FailuresUnwind == Spec => []NothingLost
<1>1. IInv => NothingLost
  BY DEF IInv
<1> QED BY <1>1, StorageInvariant, PTL

\* No structure has a pointer to a block that was given back, neither after a
\* failure nor when a parameter of the plugin is added again with new values.
THEOREM PointersAreGood == Spec => []NothingDangles
<1>1. IInv => NothingDangles
  BY DEF IInv
<1> QED BY <1>1, StorageInvariant, PTL

\* No block belongs to two structures: every copy is deep (hint_set.c, helpers.c).
THEOREM OneOwner == Spec => []Apart
<1>1. IInv => Apart
  BY DEF IInv
<1> QED BY <1>1, StorageInvariant, PTL

\* A structure that is done has a copy of every hint and every value of its source,
\* and the length by which lv2dynparam_hints_clear and lv2dynparam_enum_free will
\* give them back.
THEOREM CopiesAreWhole == Spec => []CopyIsWhole
<1>1. IInv => CopyIsWhole
  <2> SUFFICES ASSUME IInv, NEW h \in Holders
               PROVE  LET r == holder[h] IN
                        /\ Len(r.ncells) = Len(r.hints) /\ Len(r.vcells) = Len(r.hints)
                        /\ \A i \in DOMAIN r.hints : r.hints[i] <=> r.vcells[i] # None
                        /\ Len(r.icells) = r.count
    BY DEF CopyIsWhole
  <2>1. Finished(holder[h]) /\ holder[h].hints \in HintSources
    BY DEF IInv, Made, TypeOK, Structures
  <2>2. DOMAIN holder[h].hints = 1..Len(holder[h].hints)
    BY <2>1, SourceIsList
  <2> QED BY <2>1, <2>2 DEF Finished, HintsDone, ItemsDone, CopiedSoFar
<1> QED BY <1>1, StorageInvariant, PTL
=============================================================================
