--------------------------- MODULE PluginLibProofs ---------------------------
EXTENDS PluginLib, ListsProofs, FiniteSetTheorems
(***************************************************************************)
(* What PluginLib promises, for all groups, parameters, names and types.   *)
(*                                                                         *)
(* IInv is inductive for every host: ListsOK (a parameter in use is in one *)
(* list, a free chunk in none), OwnedOK (the handles of the plugin are of  *)
(* what is in use), ChainOK (the groups above a group in use are in use),  *)
(* CounterOK (the counter covers what waits, but for the one group that    *)
(* instantiate drops) and BeforeAttach (nothing is told before the first   *)
(* host_attach).  Counting: a step changes what waits by one item, or, in  *)
(* the walk of host_attach, by the items that are told; four lemmas do the *)
(* arithmetic of cardinalities for all actions.                            *)
(*                                                                         *)
(* From IInv follow the theorems for every host, and with a host that      *)
(* attaches once those about what it is told: such a host finds nothing    *)
(* pending but appears (FirstWalk).  A host that attaches again is not told*)
(* anything and may meet the assert of parameter.c:282; README.md says so. *)
(***************************************************************************)

\* A parameter in use is in exactly one list, of a group in use, a free chunk in
\* none.
ListsOK ==
  /\ \A p \in Params : ppending[p] = "free" => \A g \in Groups : p \notin ParamsOf(g)
  /\ \A p \in Params : ppending[p] # "free" => \E g \in Groups : p \in ParamsOf(g)
  /\ \A p \in Params, g, h \in Groups : p \in ParamsOf(g) /\ p \in ParamsOf(h) => g = h
  /\ \A g \in Groups : ParamsOf(g) # {} => gpending[g] # "free"

\* The plugin has handles of what is in use, but for a parameter that leaves.
OwnedOK ==
  /\ \A p \in Params : p \in owned <=> ppending[p] \in {"appear", "nothing", "change"}
  /\ \A p \in Params : p \in owned => ptype[p] = wanted[p]
  /\ \A g \in Groups : g \in owned <=> gpending[g] # "free"

\* The groups above a group in use are in use, and its parent is the first of them.
ChainOK ==
  \A g \in Groups :
    /\ g \in chain[g]
    /\ gpending[g] # "free" =>
         /\ \A h \in chain[g] : gpending[h] # "free"
         /\ g # Root => parent[g] \in chain[g] /\ chain[parent[g]] \subseteq chain[g]

InUse == {g \in Groups : gpending[g] # "free"} \cup {p \in Params : ppending[p] # "free"}

\* The counter is at most one short of what is waiting, and passes the bound on
\* removals only by what is in use.
CounterOK ==
  /\ CounterAtMostOneShort
  /\ pending \in Int /\ pending >= -1 /\ pending <= MaxPending + Cardinality(InUse)

\* Before the first host_attach nothing has been announced.
BeforeAttach ==
  ~attached => /\ \A g \in Groups : gpending[g] # "nothing"
               /\ \A p \in Params : ppending[p] \in {"free", "appear"}

\* TypeOK without the bounds of the counter.
TypesOK ==
  /\ attached \in BOOLEAN
  /\ chain \in [Groups -> SUBSET Groups] /\ gpending \in [Groups -> GroupStates]
  /\ parent \in [Groups -> Groups]
  /\ list \in [Groups -> Seq(Params)]
  /\ ppending \in [Params -> ParamStates]
  /\ pname \in [Params -> Names] /\ ptype \in [Params -> Types]
  /\ hinted \in SUBSET Items
  /\ wanted \in [Params -> Types]
  /\ owned \in SUBSET Items /\ asked \in SUBSET Items /\ known \in SUBSET Items
  /\ fault \in Faults

Tree == ListsOK /\ OwnedOK /\ ChainOK
IInv == TypesOK /\ Tree /\ CounterOK /\ BeforeAttach

----------------------------------------------------------------------------
(* Counting. *)

\* Sets of items are finite.
LEMMA ItemsFinite ==
  ASSUME NEW S \in SUBSET Items
  PROVE  IsFiniteSet(S) /\ Cardinality(S) \in Nat /\ Cardinality(S) <= Cardinality(Items)
         /\ Cardinality(Items) \in Nat
<1>1. IsFiniteSet(Items)
  BY ItemsAssumption, FS_Union DEF Items
<1>2. IsFiniteSet(S) /\ Cardinality(S) <= Cardinality(Items)
  BY <1>1, FS_Subset
<1> QED BY <1>1, <1>2, FS_CardinalityType

\* What waits and what is in use are items.
LEMMA CountedItems == Waiting \in SUBSET Items /\ InUse \in SUBSET Items
BY DEF Waiting, InUse, Items

LEMMA CountedItemsNext == Waiting' \in SUBSET Items /\ InUse' \in SUBSET Items
BY DEF Waiting, InUse, Items

\* A step that takes x into use, and counts it if it waits.
LEMMA CountAdded ==
  ASSUME CounterOK, Running, NEW x \in Items \ InUse, InUse' = InUse \cup {x},
         \/ pending' = pending /\ Waiting' = Waiting
         \/ pending' = pending + 1 /\ Waiting' = Waiting \cup {x}
  PROVE  CounterOK'
<1>1. IsFiniteSet(Waiting) /\ IsFiniteSet(InUse)
      /\ Cardinality(Waiting) \in Nat /\ Cardinality(InUse) \in Nat
      /\ Cardinality(Waiting') \in Nat /\ Cardinality(InUse') \in Nat
  BY CountedItems, CountedItemsNext, ItemsFinite
<1>2. Cardinality(InUse') = Cardinality(InUse) + 1
  BY <1>1, FS_AddElement
<1>3. Cardinality(Waiting \cup {x}) <= Cardinality(Waiting) + 1
  <2>1. Cardinality(Waiting \cup {x}) \in {Cardinality(Waiting), Cardinality(Waiting) + 1}
    BY <1>1, FS_AddElement
  <2> QED BY <1>1, <2>1
<1>4. pending + 1 >= Cardinality(Waiting)
  BY DEF CounterOK, CounterAtMostOneShort
<1>5. pending' + 1 >= Cardinality(Waiting') /\ pending' \in Int /\ pending' >= -1
  BY <1>1, <1>3, <1>4 DEF CounterOK
<1>6. pending' <= MaxPending + Cardinality(InUse')
  BY <1>1, <1>2, EnvAssumption DEF CounterOK
<1> QED BY <1>5, <1>6 DEF CounterOK, CounterAtMostOneShort

\* A step after which less waits, and that leaves the counter.
LEMMA CountSame ==
  ASSUME CounterOK, Running, Waiting' \subseteq Waiting, InUse' = InUse, pending' = pending
  PROVE  CounterOK'
<1>1. IsFiniteSet(Waiting) /\ Cardinality(Waiting) \in Nat /\ Cardinality(Waiting') \in Nat
  BY CountedItems, CountedItemsNext, ItemsFinite
<1>2. Cardinality(Waiting') <= Cardinality(Waiting)
  BY <1>1, FS_Subset
<1>3. pending + 1 >= Cardinality(Waiting)
  BY DEF CounterOK, CounterAtMostOneShort
<1>4. pending' + 1 >= Cardinality(Waiting')
  BY <1>1, <1>2, <1>3 DEF CounterOK
<1> QED BY <1>4 DEF CounterOK, CounterAtMostOneShort

\* A removal, below the bound.
LEMMA CountRemoved ==
  ASSUME CounterOK, Running, pending < MaxPending, NEW p,
         \/ pending' = pending - 1 /\ p \in Waiting /\ Waiting' = Waiting \ {p}
         \/ pending' = pending /\ Waiting' \subseteq Waiting
         \/ pending' = pending + 1 /\ Waiting' = Waiting \cup {p}
  PROVE  CounterOK'
<1>1. IsFiniteSet(Waiting) /\ Cardinality(Waiting) \in Nat
      /\ Cardinality(Waiting') \in Nat /\ Cardinality(InUse') \in Nat
  BY CountedItems, CountedItemsNext, ItemsFinite
<1>2. pending + 1 >= Cardinality(Waiting) /\ pending \in Int
  BY DEF CounterOK, CounterAtMostOneShort
<1>3. pending' \in Int /\ pending' <= MaxPending
  BY <1>2, EnvAssumption
<1>4. pending' + 1 >= Cardinality(Waiting')
  <2>1. CASE pending' = pending - 1 /\ p \in Waiting /\ Waiting' = Waiting \ {p}
    <3>1. Cardinality(Waiting') = Cardinality(Waiting) - 1
      BY <1>1, <2>1, FS_RemoveElement
    <3> QED BY <1>1, <1>2, <2>1, <3>1
  <2>2. CASE pending' = pending /\ Waiting' \subseteq Waiting
    <3>1. Cardinality(Waiting') <= Cardinality(Waiting)
      BY <1>1, <2>2, FS_Subset
    <3> QED BY <1>1, <1>2, <2>2, <3>1
  <2>3. CASE pending' = pending + 1 /\ Waiting' = Waiting \cup {p}
    <3>1. Cardinality(Waiting') \in {Cardinality(Waiting), Cardinality(Waiting) + 1}
      BY <1>1, <2>3, FS_AddElement
    <3> QED BY <1>1, <1>2, <2>3, <3>1
  <2> QED BY <2>1, <2>2, <2>3
<1>5. pending' >= -1 /\ pending' <= MaxPending + Cardinality(InUse')
  BY <1>1, <1>3, <1>4, EnvAssumption
<1> QED BY <1>3, <1>4, <1>5 DEF CounterOK, CounterAtMostOneShort

\* A walk in which the items of told are told, of which some go.
LEMMA CountTold ==
  ASSUME CounterOK, Running, NEW told, NEW gone, told \subseteq Waiting, gone \subseteq told,
         Waiting' = Waiting \ told, InUse' = InUse \ gone,
         pending' = pending - Cardinality(told)
  PROVE  CounterOK'
<1>1. /\ IsFiniteSet(Waiting) /\ Cardinality(Waiting) \in Nat
      /\ IsFiniteSet(InUse) /\ Cardinality(InUse) \in Nat
      /\ Cardinality(Waiting') \in Nat /\ Cardinality(InUse') \in Nat
  BY CountedItems, CountedItemsNext, ItemsFinite
<1>2. IsFiniteSet(told) /\ Cardinality(told) \in Nat
      /\ Cardinality(gone) \in Nat /\ Cardinality(gone) <= Cardinality(told)
  <2>1. told \in SUBSET Items /\ gone \in SUBSET Items
    BY CountedItems
  <2> QED BY <2>1, ItemsFinite, FS_Subset
<1>3. pending + 1 >= Cardinality(Waiting) /\ pending \in Int
      /\ pending <= MaxPending + Cardinality(InUse)
  BY DEF CounterOK, CounterAtMostOneShort
<1>4. Cardinality(Waiting') = Cardinality(Waiting) - Cardinality(told)
  <2>1. Waiting \cap told = told
    OBVIOUS
  <2>2. Cardinality(Waiting \ told) = Cardinality(Waiting) - Cardinality(Waiting \cap told)
    BY <1>1, FS_Difference
  <2> QED BY <2>1, <2>2
<1>5. Cardinality(InUse') >= Cardinality(InUse) - Cardinality(gone)
  <2>1. Cardinality(InUse') = Cardinality(InUse) - Cardinality(InUse \cap gone)
    BY <1>1, FS_Difference
  <2>2. Cardinality(InUse \cap gone) \in Nat /\ Cardinality(InUse \cap gone) <= Cardinality(gone)
    <3>1. gone \in SUBSET Items
      BY CountedItems
    <3>2. IsFiniteSet(gone) /\ InUse \cap gone \in SUBSET gone /\ InUse \cap gone \in SUBSET Items
      BY <3>1, ItemsFinite
    <3> QED BY <3>2, ItemsFinite, FS_Subset
  <2> QED BY <1>1, <1>2, <2>1, <2>2
<1>6. pending' \in Int /\ pending' + 1 >= Cardinality(Waiting')
  BY <1>1, <1>2, <1>3, <1>4
<1>7. pending' >= -1 /\ pending' <= MaxPending + Cardinality(InUse')
  BY <1>1, <1>2, <1>3, <1>5, <1>6, EnvAssumption
<1> QED BY <1>6, <1>7 DEF CounterOK, CounterAtMostOneShort

----------------------------------------------------------------------------
(* The actions. *)

\* After instantiate there is the root group.
LEMMA InitInvariant == Init => IInv
<1> SUFFICES ASSUME Init PROVE IInv
  OBVIOUS
<1>1. TypesOK
  <2>1. (CHOOSE n \in Names : TRUE) \in Names /\ (CHOOSE t \in Types : TRUE) \in Types
    BY NamesAssumption
  <2>2. pname \in [Params -> Names] /\ ptype \in [Params -> Types] /\ wanted \in [Params -> Types]
    BY <2>1 DEF Init
  <2>3. /\ gpending \in [Groups -> GroupStates] /\ ppending \in [Params -> ParamStates]
        /\ chain \in [Groups -> SUBSET Groups] /\ parent \in [Groups -> Groups]
        /\ list \in [Groups -> Seq(Params)]
    BY ItemsAssumption DEF Init, GroupStates, ParamStates
  <2>4. hinted \in SUBSET Items /\ owned \in SUBSET Items /\ asked \in SUBSET Items
        /\ known \in SUBSET Items /\ fault \in Faults /\ attached \in BOOLEAN
    BY ItemsAssumption DEF Init, Items, Faults
  <2> QED BY <2>2, <2>3, <2>4 DEF TypesOK
<1>2. \A g \in Groups : ParamsOf(g) = {}
  BY DEF Init, ParamsOf, Entries
<1>3. Tree
  BY <1>2, ItemsAssumption DEF Init, Tree, ListsOK, OwnedOK, ChainOK
<1>4. CounterOK
  <2>1. Waiting \subseteq {Root}
    BY DEF Init, Waiting
  <2>2. Cardinality(Waiting) <= 1 /\ Cardinality(Waiting) \in Nat
    <3>1. IsFiniteSet({Root}) /\ Cardinality({Root}) = 1
      BY FS_Singleton
    <3>2. Cardinality(Waiting) <= Cardinality({Root})
      BY <2>1, <3>1, FS_Subset
    <3> QED BY <3>1, <3>2, CountedItems, ItemsFinite
  <2>3. Cardinality(InUse) \in Nat
    BY CountedItems, ItemsFinite
  <2> QED BY <2>2, <2>3, EnvAssumption DEF Init, CounterOK, CounterAtMostOneShort
<1>5. BeforeAttach
  BY DEF Init, BeforeAttach
<1> QED BY <1>1, <1>3, <1>4, <1>5 DEF IInv

\* An assert that fails, or a bad pointer, leaves everything as it is.
LEMMA FailInvariant ==
  ASSUME IInv, NEW f \in Faults \ {"none"}, Fail(f)
  PROVE  IInv'
<1> USE DEF Fail, groupVars, paramVars, askVars
<1>1. TypesOK'
  BY DEF IInv, TypesOK
<1>2. Tree'
  BY DEF IInv, Tree, ListsOK, OwnedOK, ChainOK, ParamsOf
<1>3. CounterOK'
  BY DEF IInv, CounterOK, CounterAtMostOneShort, Running, InUse
<1>4. BeforeAttach'
  BY DEF IInv, BeforeAttach
<1> QED BY <1>1, <1>2, <1>3, <1>4 DEF IInv

\* The parameter that the search of a name stops at is in the group and has it.
LEMMA FirstNamed ==
  ASSUME TypesOK, NEW g \in Groups, NEW n, SameName(g, n) # {}
  PROVE  First(g, n) \in ParamsOf(g) /\ First(g, n) \in Params /\ pname[First(g, n)] = n
<1>1. list[g] \in Seq(Params) /\ Len(list[g]) \in Nat
  BY DEF TypesOK
<1>2. SameName(g, n) \in SUBSET Nat
  BY <1>1 DEF SameName
<1>3. PICK i \in SameName(g, n) : \A j \in SameName(g, n) : i <= j
  BY <1>2, LeastNumber
<1> DEFINE first == CHOOSE k \in SameName(g, n) : \A j \in SameName(g, n) : k <= j
<1>4. first \in SameName(g, n)
  BY <1>3
<1>5. First(g, n) = list[g][first]
  BY DEF First
<1> HIDE DEF first
<1>6. first \in 1..Len(list[g]) /\ pname[list[g][first]] = n
  BY <1>4 DEF SameName
<1>7. list[g][first] \in Params
  BY <1>1, <1>6
<1> QED BY <1>5, <1>6, <1>7 DEF ParamsOf, Entries

\* What the parameters of a group are, when its list has been appended to.
LEMMA EntriesAppended ==
  ASSUME NEW S, NEW s \in Seq(S), NEW x \in S
  PROVE  Append(s, x) \in Seq(S) /\ Entries(Append(s, x)) = Entries(s) \cup {x}
<1>1. /\ Append(s, x) \in Seq(S) /\ Len(Append(s, x)) = Len(s) + 1 /\ Len(s) \in Nat
      /\ \A i \in 1..Len(s) : Append(s, x)[i] = s[i]
      /\ Append(s, x)[Len(s) + 1] = x
  OBVIOUS
<1> QED BY <1>1 DEF Entries

\* A group that is added gets the chain of its parent.
LEMMA GroupAddInvariant ==
  ASSUME IInv, NEW par \in Groups, NEW g \in Groups, NEW hint \in BOOLEAN,
         NEW ok \in BOOLEAN, GroupAdd(par, g, hint, ok)
  PROVE  IInv'
<1> USE ItemsAssumption DEF IInv
<1>1. CASE attached /\ par \notin known
  <2>1. Fail("bad_context")
    BY <1>1 DEF GroupAdd
  <2> QED BY <2>1, FailInvariant DEF Faults
<1>2. CASE ~(attached /\ par \notin known)
  <2> DEFINE s == IF attached THEN Settled("appear", ok) ELSE "appear"
  <2>1. /\ Running /\ gpending[g] = "free" /\ par \in owned /\ g \in Items
        /\ gpending' = [gpending EXCEPT ![g] = s]
        /\ parent' = [parent EXCEPT ![g] = par]
        /\ chain' = [chain EXCEPT ![g] = chain[par] \cup {g}]
        /\ pending' = IF attached /\ ok THEN pending ELSE pending + 1
        /\ hinted' \in {hinted, hinted \cup {g}} /\ asked' \in {asked, asked \cup {g}}
        /\ owned' = owned \cup {g} /\ known' \in {known, known \cup {g}}
        /\ UNCHANGED <<attached, list, ppending, pname, ptype, wanted, fault>>
    BY <1>2 DEF GroupAdd, paramVars, Items
  <2>2. /\ s = IF attached /\ ok THEN "nothing" ELSE "appear"
        /\ s \in GroupStates /\ s # "free"
    BY DEF Settled, GroupStates
  <2> HIDE DEF s
  <2>3. TypesOK'
    BY <2>1, <2>2 DEF TypesOK, Items
  <2>4. /\ \A h \in Groups : ParamsOf(h)' = ParamsOf(h)
        /\ gpending'[g] = s /\ \A h \in Groups : h # g => gpending'[h] = gpending[h]
    BY <2>1 DEF ParamsOf, TypesOK
  <2>5. ListsOK'
    BY <2>1, <2>2, <2>4 DEF Tree, ListsOK
  <2>6. OwnedOK'
    BY <2>1, <2>2, <2>4 DEF Tree, OwnedOK
  <2>7. ChainOK'
    <3>1. gpending[par] # "free" /\ par # g
      BY <2>1 DEF Tree, OwnedOK
    <3>2. /\ chain'[g] = chain[par] \cup {g} /\ parent'[g] = par
          /\ \A h \in Groups : h # g => chain'[h] = chain[h] /\ parent'[h] = parent[h]
      BY <2>1 DEF TypesOK
    <3> SUFFICES ASSUME NEW h \in Groups
                 PROVE  /\ h \in chain'[h]
                        /\ gpending'[h] # "free" =>
                             /\ \A k \in chain'[h] : gpending'[k] # "free"
                             /\ h # Root => /\ parent'[h] \in chain'[h]
                                           /\ chain'[parent'[h]] \subseteq chain'[h]
      BY DEF ChainOK
    <3>3. \A k \in Groups : gpending[k] # "free" => gpending'[k] # "free"
      BY <2>2, <2>4
    <3>4. CASE h = g
      <4>1. \A k \in chain[par] : k \in Groups /\ gpending[k] # "free"
        BY <3>1 DEF Tree, ChainOK, TypesOK
      <4>2. par \in chain[par] /\ chain'[par] = chain[par]
        BY <3>1, <3>2 DEF Tree, ChainOK
      <4> QED BY <2>2, <2>4, <3>2, <3>3, <3>4, <4>1, <4>2
    <3>5. CASE h # g
      <4>1. h \in chain'[h] /\ chain'[h] = chain[h] /\ parent'[h] = parent[h]
        BY <3>2, <3>5 DEF Tree, ChainOK
      <4>2. ASSUME gpending'[h] # "free"
            PROVE  /\ \A k \in chain[h] : gpending'[k] # "free"
                   /\ h # Root => /\ parent[h] \in chain[h]
                                 /\ chain'[parent[h]] \subseteq chain[h]
        <5>1. gpending[h] # "free" /\ \A k \in chain[h] : k \in Groups /\ gpending[k] # "free"
          BY <2>4, <3>5, <4>2 DEF Tree, ChainOK, TypesOK
        <5>2. ASSUME h # Root
              PROVE  parent[h] \in chain[h] /\ chain'[parent[h]] \subseteq chain[h]
          <6>1. parent[h] \in chain[h] /\ chain[parent[h]] \subseteq chain[h]
            BY <5>1, <5>2 DEF Tree, ChainOK
          <6>2. parent[h] \in Groups /\ parent[h] # g
            BY <2>1, <5>1, <6>1
          <6> QED BY <3>2, <6>1, <6>2
        <5> QED BY <3>3, <5>1, <5>2
      <4> QED BY <4>1, <4>2
    <3> QED BY <3>4, <3>5
  <2>8. CounterOK'
    <3>1. g \notin InUse /\ InUse' = InUse \cup {g}
      BY <2>1, <2>2, <2>4 DEF InUse
    <3>2. Waiting' = IF attached /\ ok THEN Waiting ELSE Waiting \cup {g}
      BY <2>1, <2>2, <2>4 DEF Waiting
    <3> QED BY <2>1, <3>1, <3>2, CountAdded
  <2>9. BeforeAttach'
    BY <2>1, <2>2, <2>4 DEF BeforeAttach
  <2> QED BY <2>3, <2>5, <2>6, <2>7, <2>8, <2>9 DEF Tree
<1> QED BY <1>1, <1>2

\* A parameter that is taken into use again stays in its list, with its type.
LEMMA ReuseInvariant ==
  ASSUME IInv, NEW g \in Groups, NEW n \in Names, NEW t \in Types, NEW hint \in BOOLEAN,
         ParamReuse(g, n, t, hint)
  PROVE  IInv'
<1> USE ItemsAssumption DEF IInv
<1> DEFINE q == First(g, n)
<1>1. /\ Running /\ ppending[q] = "disappear" /\ ptype[q] = t
      /\ ppending' = [ppending EXCEPT ![q] = "change"]
      /\ owned' = owned \cup {q}
      /\ asked' \in {asked \cup {q}, asked \ {q}}
      /\ wanted' = [wanted EXCEPT ![q] = t]
      /\ UNCHANGED <<attached, groupVars, list, pname, ptype, hinted, pending, known, fault>>
  BY DEF ParamReuse, Reusable, Reused
<1>2. q \in Params
  BY FirstNamed DEF ParamReuse
<1> HIDE DEF q
<1>3. TypesOK'
  BY <1>1, <1>2 DEF TypesOK, groupVars, ParamStates, Items
<1>4. /\ \A h \in Groups : ParamsOf(h)' = ParamsOf(h)
      /\ ppending'[q] = "change" /\ \A p \in Params : p # q => ppending'[p] = ppending[p]
  BY <1>1, <1>2 DEF ParamsOf, TypesOK
<1>5. Tree'
  <2>1. ListsOK'
    BY <1>1, <1>2, <1>4 DEF Tree, ListsOK, groupVars
  <2>2. OwnedOK'
    BY <1>1, <1>2, <1>4 DEF Tree, OwnedOK, groupVars, TypesOK
  <2>3. ChainOK'
    BY <1>1 DEF Tree, ChainOK, groupVars
  <2> QED BY <2>1, <2>2, <2>3 DEF Tree
<1>6. CounterOK'
  <2>1. Waiting' \subseteq Waiting /\ InUse' = InUse
    BY <1>1, <1>2, <1>4 DEF Waiting, InUse, groupVars
  <2> QED BY <1>1, <2>1, CountSame
<1>7. BeforeAttach'
  BY <1>1, <1>2 DEF BeforeAttach
<1> QED BY <1>3, <1>5, <1>6, <1>7

\* A new parameter takes a free chunk and a place at the end of its list.
LEMMA ParamAddInvariant ==
  ASSUME IInv, NEW g \in Groups, NEW n \in Names, NEW t \in Types, NEW hint \in BOOLEAN,
         NEW p \in Params, NEW ok \in BOOLEAN, ParamAdd(g, n, t, hint, p, ok)
  PROVE  IInv'
<1> USE ItemsAssumption DEF IInv
<1>1. ASSUME NEW f \in {"assert_duplicate", "bad_context"}, Fail(f) PROVE IInv'
  BY <1>1, FailInvariant DEF Faults
<1>2. CASE ~ \E f \in {"assert_duplicate", "bad_context"} : Fail(f)
  <2> DEFINE s == IF attached THEN Settled("appear", ok) ELSE "appear"
  <2>1. /\ Running /\ ppending[p] = "free" /\ g \in owned /\ p \in Items
        /\ ppending' = [ppending EXCEPT ![p] = s]
        /\ pname' = [pname EXCEPT ![p] = n] /\ ptype' = [ptype EXCEPT ![p] = t]
        /\ wanted' = [wanted EXCEPT ![p] = t]
        /\ list' = [list EXCEPT ![g] = Append(@, p)]
        /\ pending' = IF attached /\ ok THEN pending ELSE pending + 1
        /\ hinted' = hinted \ {p} /\ asked' \in {asked \cup {p}, asked \ {p}}
        /\ owned' = owned \cup {p} /\ known' \in {known, known \cup {p}}
        /\ UNCHANGED <<attached, chain, gpending, parent, fault>>
    BY <1>2 DEF ParamAdd, groupVars, Items, HintsStored
  <2>2. /\ s = IF attached /\ ok THEN "nothing" ELSE "appear"
        /\ s \in ParamStates /\ s # "free"
    BY DEF Settled, ParamStates
  <2> HIDE DEF s
  <2>3. list[g] \in Seq(Params)
    BY DEF TypesOK
  <2>4. Append(list[g], p) \in Seq(Params) /\ Entries(Append(list[g], p)) = ParamsOf(g) \cup {p}
    BY <2>3, EntriesAppended DEF ParamsOf
  <2>5. TypesOK'
    BY <2>1, <2>2, <2>4 DEF TypesOK, Items
  <2>6. /\ ParamsOf(g)' = ParamsOf(g) \cup {p}
        /\ \A h \in Groups : h # g => ParamsOf(h)' = ParamsOf(h)
        /\ ppending'[p] = s /\ \A q \in Params : q # p => ppending'[q] = ppending[q]
    BY <2>1, <2>4 DEF ParamsOf, TypesOK
  <2>7. ListsOK'
    <3>1. \A h \in Groups : p \notin ParamsOf(h)
      BY <2>1 DEF Tree, ListsOK
    <3>2. gpending[g] # "free"
      BY <2>1 DEF Tree, OwnedOK
    <3>3. \A q \in Params : ppending'[q] = "free" => \A h \in Groups : q \notin (ParamsOf(h)')
      BY <2>1, <2>2, <2>6 DEF Tree, ListsOK
    <3>4. \A q \in Params : ppending'[q] # "free" => \E h \in Groups : q \in (ParamsOf(h)')
      <4> SUFFICES ASSUME NEW q \in Params, ppending'[q] # "free"
                   PROVE  \E h \in Groups : q \in (ParamsOf(h)')
        OBVIOUS
      <4>1. CASE q = p
        BY <2>6, <4>1
      <4>2. CASE q # p
        <5>1. PICK h \in Groups : q \in ParamsOf(h)
          BY <2>6, <4>2 DEF Tree, ListsOK
        <5> QED BY <2>6, <5>1
      <4> QED BY <4>1, <4>2
    <3>5. ASSUME NEW q \in Params, NEW h \in Groups, NEW k \in Groups,
                 q \in (ParamsOf(h)'), q \in (ParamsOf(k)')
          PROVE  h = k
      <4>1. CASE q = p
        BY <2>6, <3>1, <3>5, <4>1
      <4>2. CASE q # p
        BY <2>6, <3>5, <4>2 DEF Tree, ListsOK
      <4> QED BY <4>1, <4>2
    <3>6. \A h \in Groups : (ParamsOf(h)') # {} => gpending'[h] # "free"
      BY <2>1, <2>6, <3>2 DEF Tree, ListsOK
    <3> QED BY <3>3, <3>4, <3>5, <3>6 DEF ListsOK
  <2>8. OwnedOK'
    BY <2>1, <2>2, <2>6 DEF Tree, OwnedOK, TypesOK
  <2>9. ChainOK'
    BY <2>1 DEF Tree, ChainOK
  <2>10. CounterOK'
    <3>1. p \notin InUse /\ InUse' = InUse \cup {p}
      BY <2>1, <2>2, <2>6 DEF InUse
    <3>2. Waiting' = IF attached /\ ok THEN Waiting ELSE Waiting \cup {p}
      BY <2>1, <2>2, <2>6 DEF Waiting
    <3> QED BY <2>1, <3>1, <3>2, CountAdded
  <2>11. BeforeAttach'
    BY <2>1, <2>2, <2>6 DEF BeforeAttach
  <2> QED BY <2>5, <2>7, <2>8, <2>9, <2>10, <2>11 DEF Tree
<1> QED BY <1>1, <1>2

\* What list_del of some parameters leaves of the lists, when they are freed.
LEMMA UnlinkedLists ==
  ASSUME TypesOK, ListsOK, NEW gone,
         list' = [g \in Groups |-> Without(list[g], gone)],
         \A p \in Params : ppending'[p] = "free" <=> ppending[p] = "free" \/ p \in gone,
         \A g \in Groups : gpending'[g] = "free" <=> gpending[g] = "free"
  PROVE  ListsOK' /\ list' \in [Groups -> Seq(Params)]
<1>1. ASSUME NEW g \in Groups
      PROVE  list'[g] \in Seq(Params) /\ ParamsOf(g)' = ParamsOf(g) \ gone
  <2>1. list[g] \in Seq(Params) /\ list'[g] = Without(list[g], gone)
    BY DEF TypesOK
  <2> QED BY <2>1, WithoutLeaves DEF ParamsOf
<1>2. list' \in [Groups -> Seq(Params)]
  BY <1>1
<1>3. \A p \in Params : ppending'[p] # "free" => \E g \in Groups : p \in (ParamsOf(g)')
  <2> SUFFICES ASSUME NEW p \in Params, ppending'[p] # "free"
               PROVE  \E g \in Groups : p \in (ParamsOf(g)')
    OBVIOUS
  <2>1. ppending[p] # "free" /\ p \notin gone
    OBVIOUS
  <2>2. PICK g \in Groups : p \in ParamsOf(g)
    BY <2>1 DEF ListsOK
  <2> QED BY <1>1, <2>1, <2>2
<1>4. \A p \in Params : ppending'[p] = "free" => \A g \in Groups : p \notin (ParamsOf(g)')
  BY <1>1 DEF ListsOK
<1>5. \A p \in Params, g, h \in Groups : p \in (ParamsOf(g)') /\ p \in (ParamsOf(h)') => g = h
  BY <1>1 DEF ListsOK
<1>6. \A g \in Groups : (ParamsOf(g)') # {} => gpending'[g] # "free"
  BY <1>1 DEF ListsOK
<1> QED BY <1>2, <1>3, <1>4, <1>5, <1>6 DEF ListsOK

\* A parameter that the host does not have, or that it lets go, is freed.
LEMMA RemoveInvariant ==
  ASSUME IInv, NEW p \in Params, NEW ok \in BOOLEAN, ParamRemove(p, ok)
  PROVE  IInv'
<1> USE ItemsAssumption DEF IInv
<1> DEFINE freed == ppending[p] = "appear" \/ (attached /\ ok)
           s == IF freed THEN "free" ELSE "disappear"
<1>1. /\ Running /\ p \in owned /\ pending < MaxPending
      /\ ppending' = [ppending EXCEPT ![p] = s]
      /\ list' = IF freed THEN [g \in Groups |-> Without(list[g], {p})] ELSE list
      /\ hinted' \in {hinted, hinted \ {p}}
      /\ pending' = IF ppending[p] = "appear" THEN pending - 1
                    ELSE IF attached /\ ok THEN pending ELSE pending + 1
      /\ known' \in {known, known \ {p}}
      /\ owned' = owned \ {p} /\ asked' = asked \ {p}
      /\ UNCHANGED <<attached, chain, gpending, parent, pname, ptype, wanted, fault>>
  BY DEF ParamRemove, StillUntold, Settled, Unlinked, groupVars
<1>2. ppending[p] \in {"appear", "nothing", "change"}
  BY <1>1 DEF Tree, OwnedOK
<1>3. s \in ParamStates /\ (s = "free" <=> freed) /\ (~freed => s = "disappear")
  BY DEF ParamStates
<1>4. freed <=> ppending[p] = "appear" \/ (attached /\ ok)
  OBVIOUS
<1> HIDE DEF s, freed
<1>5. ppending'[p] = s /\ \A q \in Params : q # p => ppending'[q] = ppending[q]
  BY <1>1 DEF TypesOK
<1>6. ListsOK' /\ list' \in [Groups -> Seq(Params)]
  <2>1. CASE freed
    <3>1. /\ list' = [g \in Groups |-> Without(list[g], {p})]
          /\ \A q \in Params : ppending'[q] = "free" <=> ppending[q] = "free" \/ q \in {p}
          /\ \A g \in Groups : gpending'[g] = "free" <=> gpending[g] = "free"
      BY <1>1, <1>3, <1>5, <2>1
    <3> QED BY <3>1, UnlinkedLists DEF Tree
  <2>2. CASE ~freed
    <3>1. list' = list /\ gpending' = gpending /\ \A g \in Groups : ParamsOf(g)' = ParamsOf(g)
      BY <1>1, <2>2 DEF ParamsOf
    <3>2. \A q \in Params : ppending'[q] = "free" <=> ppending[q] = "free"
      BY <1>2, <1>3, <1>5, <2>2
    <3> QED BY <3>1, <3>2 DEF Tree, ListsOK, TypesOK
  <2> QED BY <2>1, <2>2
<1>7. TypesOK'
  <2>1. ppending' \in [Params -> ParamStates]
    BY <1>1, <1>3 DEF TypesOK
  <2> QED BY <1>1, <1>6, <2>1 DEF TypesOK
<1>8. OwnedOK'
  BY <1>1, <1>3, <1>5 DEF Tree, OwnedOK
<1>9. ChainOK'
  BY <1>1 DEF Tree, ChainOK
<1>10. CounterOK'
  <2>1. CASE ppending[p] = "appear"
    <3>1. p \in Waiting /\ Waiting' = Waiting \ {p} /\ pending' = pending - 1
      BY <1>1, <1>3, <1>4, <1>5, <2>1 DEF Waiting
    <3> QED BY <1>1, <3>1, CountRemoved
  <2>2. CASE ppending[p] # "appear" /\ attached /\ ok
    <3>1. Waiting' \subseteq Waiting /\ pending' = pending
      BY <1>1, <1>3, <1>4, <1>5, <2>2 DEF Waiting
    <3> QED BY <1>1, <3>1, CountRemoved
  <2>3. CASE ppending[p] # "appear" /\ ~(attached /\ ok)
    <3>1. Waiting' = Waiting \cup {p} /\ pending' = pending + 1
      BY <1>1, <1>3, <1>4, <1>5, <2>3 DEF Waiting
    <3> QED BY <1>1, <3>1, CountRemoved
  <2> QED BY <2>1, <2>2, <2>3
<1>11. BeforeAttach'
  <2>1. ~attached => ppending[p] = "appear"
    BY <1>2 DEF BeforeAttach
  <2> QED BY <1>1, <1>3, <1>4, <1>5, <2>1 DEF BeforeAttach
<1> QED BY <1>6, <1>7, <1>8, <1>9, <1>10, <1>11 DEF Tree

\* The parameters that host_attach calls the host for.
Visited ==
  {p \in (Entered \cup UNION {ParamsOf(g) : g \in Entered}) \cap Params :
     ppending[p] # "nothing"}

\* What a walk of host_attach that meets no fault does to each item.
LEMMA AttachWalk ==
  ASSUME IInv, NEW refused \in SUBSET Items, HostAttach(refused),
         ~ \E f \in {"assert_change", "bad_context"} : Fail(f)
  PROVE  /\ Running /\ attached' = TRUE /\ fault' = fault
         /\ (attached => "reattaches" \in Env)
         /\ refused \subseteq Entered \cup Visited
         /\ (refused # {} => "refuses_appear" \in Env)
         /\ \A p \in Visited : ppending[p] \in {"appear", "disappear"}
         /\ \A g \in Entered : gpending[g] = "appear"
         /\ \A g \in Groups : gpending'[g] =
              IF g \in Entered \ refused THEN "nothing" ELSE gpending[g]
         /\ \A p \in Params : ppending'[p] =
              IF p \in Visited \ refused
                THEN IF ppending[p] = "appear" THEN "nothing" ELSE "free"
                ELSE ppending[p]
         /\ gpending' \in [Groups -> GroupStates] /\ ppending' \in [Params -> ParamStates]
         /\ list' = [g \in Groups |-> Without(list[g],
                        {p \in Visited \ refused : ppending[p] = "disappear"})]
         /\ pending' = pending - Cardinality((Entered \cup Visited) \ refused)
         /\ known' = (Entered \ refused) \cup
              ((Visited \ refused) \ {p \in Visited \ refused : ppending[p] = "disappear"})
         /\ UNCHANGED <<chain, parent, pname, ptype, hinted, owned, wanted, asked>>
         /\ \A g \in Entered \ {Root} : parent[g] \in Entered \ refused
<1> USE DEF IInv
<1>1. /\ Running /\ (attached => "reattaches" \in Env)
      /\ refused \subseteq Entered \cup Visited
      /\ (refused # {} => "refuses_appear" \in Env)
      /\ ~ \E p \in Visited : ppending[p] = "change"
      /\ \A g \in Entered \ {Root} : parent[g] \in Entered \ refused
      /\ attached' = TRUE
      /\ gpending' = [g \in Groups |-> IF g \in Entered
                        THEN Settled(gpending[g], g \notin refused) ELSE gpending[g]]
      /\ ppending' = [p \in Params |-> IF p \in Visited
                        THEN Settled(ppending[p], p \notin refused) ELSE ppending[p]]
      /\ list' = [g \in Groups |-> Without(list[g],
                     {p \in Visited \ refused : ppending[p] = "disappear"})]
      /\ pending' = pending - Cardinality((Entered \cup Visited) \ refused)
      /\ known' = (Entered \ refused) \cup
           ((Visited \ refused) \ {p \in Visited \ refused : ppending[p] = "disappear"})
      /\ UNCHANGED <<chain, parent, pname, ptype, hinted, owned, askVars, fault>>
  BY DEF HostAttach, Visited, Unlinked
<1>2. \A p \in Visited : p \in Params /\ ppending[p] \in {"appear", "disappear"}
  <2> SUFFICES ASSUME NEW p \in Visited PROVE p \in Params /\ ppending[p] \in {"appear", "disappear"}
    OBVIOUS
  <2>1. p \in Params /\ ppending[p] # "nothing" /\ ppending[p] # "change"
    BY <1>1 DEF Visited
  <2>2. PICK g \in Groups : p \in ParamsOf(g)
    BY ItemsAssumption DEF Visited, Entered
  <2>3. ppending[p] # "free"
    BY <2>1, <2>2 DEF Tree, ListsOK
  <2> QED BY <2>1, <2>3 DEF TypesOK, ParamStates
<1>3. \A g \in Entered : gpending[g] = "appear"
  BY DEF Entered, Tree, ChainOK
<1>4. \A g \in Groups : gpending'[g] =
        IF g \in Entered \ refused THEN "nothing" ELSE gpending[g]
  BY <1>1, <1>3 DEF Settled
<1>5. \A p \in Params : ppending'[p] =
        IF p \in Visited \ refused
          THEN IF ppending[p] = "appear" THEN "nothing" ELSE "free"
          ELSE ppending[p]
  BY <1>1, <1>2 DEF Settled
<1>6. gpending' \in [Groups -> GroupStates]
  <2>1. gpending' = [g \in Groups |-> gpending'[g]]
    BY <1>1
  <2> QED BY <1>4, <2>1 DEF TypesOK, GroupStates
<1>7. ppending' \in [Params -> ParamStates]
  <2>1. ppending' = [p \in Params |-> ppending'[p]]
    BY <1>1
  <2> QED BY <1>5, <2>1 DEF TypesOK, ParamStates
<1> QED BY <1>1, <1>2, <1>3, <1>4, <1>5, <1>6, <1>7 DEF askVars

\* host_attach tells what waits and counts it back.
LEMMA AttachInvariant ==
  ASSUME IInv, NEW refused \in SUBSET Items, HostAttach(refused)
  PROVE  IInv'
<1>1. ASSUME NEW f \in {"assert_change", "bad_context"}, Fail(f) PROVE IInv'
  BY <1>1, FailInvariant DEF Faults
<1>2. CASE ~ \E f \in {"assert_change", "bad_context"} : Fail(f)
  <2> USE DEF IInv
  <2> DEFINE gone == {p \in Visited \ refused : ppending[p] = "disappear"}
             told == (Entered \cup Visited) \ refused
  <2>1. /\ Running /\ attached' = TRUE /\ fault' = fault
        /\ \A p \in Visited : ppending[p] \in {"appear", "disappear"}
        /\ \A g \in Entered : gpending[g] = "appear"
        /\ \A g \in Groups : gpending'[g] =
             IF g \in Entered \ refused THEN "nothing" ELSE gpending[g]
        /\ \A p \in Params : ppending'[p] =
             IF p \in Visited \ refused
               THEN IF ppending[p] = "appear" THEN "nothing" ELSE "free"
               ELSE ppending[p]
        /\ gpending' \in [Groups -> GroupStates] /\ ppending' \in [Params -> ParamStates]
        /\ list' = [g \in Groups |-> Without(list[g], gone)]
        /\ pending' = pending - Cardinality(told)
        /\ known' \subseteq Entered \cup Visited
        /\ UNCHANGED <<chain, parent, pname, ptype, hinted, owned, wanted, asked>>
    BY <1>2, AttachWalk
  <2>2. Entered \subseteq Groups /\ Visited \subseteq Params /\ Groups \cap Params = {}
    BY ItemsAssumption DEF Entered, Visited
  <2>3. \A p \in Params : p \in gone <=> p \in Visited \ refused /\ ppending[p] = "disappear"
    OBVIOUS
  <2>4. told = (Entered \cup Visited) \ refused
    OBVIOUS
  <2>5. gone \subseteq told
    OBVIOUS
  <2> HIDE DEF gone, told
  <2>6. \A p \in Params : ppending'[p] = "free" <=> ppending[p] = "free" \/ p \in gone
    BY <2>1, <2>3
  <2>7. \A g \in Groups : gpending'[g] = "free" <=> gpending[g] = "free"
    BY <2>1
  <2>8. ListsOK' /\ list' \in [Groups -> Seq(Params)]
    BY <2>1, <2>6, <2>7, UnlinkedLists DEF Tree
  <2>9. TypesOK'
    BY <2>1, <2>2, <2>8 DEF TypesOK, Items
  <2>10. OwnedOK'
    BY <2>1, <2>7 DEF Tree, OwnedOK
  <2>11. ChainOK'
    BY <2>1, <2>7 DEF Tree, ChainOK, TypesOK
  <2>12. CounterOK'
    <3>1. told \subseteq Waiting
      BY <2>1, <2>2, <2>4 DEF Waiting
    <3>2. Waiting' = Waiting \ told
      BY <2>1, <2>2, <2>4 DEF Waiting
    <3>3. InUse' = InUse \ gone
      <4>1. gone \subseteq Params
        BY <2>2 DEF gone
      <4> QED BY <2>2, <2>6, <2>7, <4>1 DEF InUse
    <3> QED BY <2>1, <2>5, <3>1, <3>2, <3>3, CountTold
  <2>13. BeforeAttach'
    BY <2>1 DEF BeforeAttach
  <2> QED BY <2>8, <2>9, <2>10, <2>11, <2>12, <2>13 DEF Tree
<1> QED BY <1>1, <1>2

\* Every step keeps the invariant.
LEMMA StepInvariant == IInv /\ [Next]_vars => IInv'
<1> SUFFICES ASSUME IInv, [Next]_vars PROVE IInv'
  OBVIOUS
<1>1. CASE UNCHANGED vars
  <2> USE <1>1 DEF vars, groupVars, paramVars, askVars
  <2>1. TypesOK'
    BY DEF IInv, TypesOK
  <2>2. Tree'
    BY DEF IInv, Tree, ListsOK, OwnedOK, ChainOK, ParamsOf
  <2>3. CounterOK'
    BY DEF IInv, CounterOK, CounterAtMostOneShort, Running, InUse, Waiting
  <2>4. BeforeAttach'
    BY DEF IInv, BeforeAttach
  <2> QED BY <2>1, <2>2, <2>3, <2>4 DEF IInv
<1>2. CASE Next
  BY <1>2, AttachInvariant, GroupAddInvariant, ReuseInvariant, ParamAddInvariant,
     RemoveInvariant DEF Next, Attach, Add, Remove
<1> QED BY <1>1, <1>2

----------------------------------------------------------------------------
(* Theorems for every host. *)

\* The inductive invariant, of every call of plugin.c, group.c and parameter.c
\* that PluginLib has, whatever the host refuses and however often it attaches.
THEOREM PluginInvariant == Spec => []IInv
BY InitInvariant, StepInvariant, PTL DEF Spec

\* Type correctness, with the bounds of the counter: a removal is the only call
\* that the bound MaxPending stops, and the items in use bound the rest.
THEOREM PluginTypeCorrect == Spec => []TypeOK
<1>1. IInv => TypeOK
  <2> SUFFICES ASSUME IInv PROVE TypeOK
    OBVIOUS
  <2>1. Cardinality(InUse) \in Nat /\ Cardinality(InUse) <= Cardinality(Items)
        /\ Cardinality(Items) \in Nat
    BY CountedItems, ItemsFinite
  <2>2. pending \in -1..(MaxPending + Cardinality(Items))
    BY <2>1, EnvAssumption DEF IInv, CounterOK
  <2> QED BY <2>2 DEF IInv, TypesOK, TypeOK
<1> QED BY <1>1, PluginInvariant, PTL

\* A handle of the plugin is of a parameter in use, of the type it was added with
\* and in exactly one list, and a freed chunk is in none: lv2dynparam_plugin_param_
\* free takes the parameter out of the one list it is in, and a parameter that is
\* taken into use again is neither freed nor of another type.
THEOREM HandlesStayInUse == Spec => []HandlesInUse
<1>1. IInv => HandlesInUse
  <2> SUFFICES ASSUME IInv, NEW p \in Params
               PROVE  /\ p \in owned =>
                           /\ ppending[p] \in {"appear", "nothing", "change"}
                           /\ ptype[p] = wanted[p]
                           /\ Cardinality({g \in Groups : p \in ParamsOf(g)}) = 1
                      /\ ppending[p] = "free" => \A g \in Groups : p \notin ParamsOf(g)
    BY DEF HandlesInUse
  <2> USE DEF IInv, Tree
  <2>1. ASSUME p \in owned PROVE Cardinality({g \in Groups : p \in ParamsOf(g)}) = 1
    <3>1. ppending[p] # "free"
      BY <2>1 DEF OwnedOK
    <3>2. PICK g \in Groups : p \in ParamsOf(g)
      BY <3>1 DEF ListsOK
    <3>3. {h \in Groups : p \in ParamsOf(h)} = {g}
      BY <3>2 DEF ListsOK
    <3> QED BY <3>3, FS_Singleton
  <2> QED BY <2>1 DEF OwnedOK, ListsOK
<1> QED BY <1>1, PluginInvariant, PTL

\* The counter that host_attach and the notify functions count down is never more
\* than one short of the items that wait, for any host and any number of items.
THEOREM CounterCovers == Spec => []CounterAtMostOneShort
<1>1. IInv => CounterAtMostOneShort
  BY DEF IInv, CounterOK
<1> QED BY <1>1, PluginInvariant, PTL

----------------------------------------------------------------------------
(* Theorems for a host that attaches once. *)

\* The names that the plugin may add are not of parameters it has: what the search
\* of parameter.c:263-276 finds is pending disappear.
LEMMA FoundIsLeaving ==
  ASSUME IInv, NEW g \in Groups, NEW n, NameIsFree(g, n), SameName(g, n) # {}
  PROVE  ppending[First(g, n)] = "disappear"
<1> USE DEF IInv
<1>1. /\ First(g, n) \in ParamsOf(g) /\ First(g, n) \in Params
      /\ pname[First(g, n)] = n
  BY FirstNamed
<1>2. First(g, n) \notin owned
  BY <1>1 DEF NameIsFree
<1>3. ppending[First(g, n)] # "free"
  BY <1>1 DEF Tree, ListsOK
<1> QED BY <1>1, <1>2, <1>3 DEF Tree, OwnedOK, TypesOK, ParamStates

\* What the first host_attach finds: nothing is pending but appears, and the walk
\* reaches every group in use.
LEMMA FirstWalk ==
  ASSUME IInv, ~attached
  PROVE  /\ Entered = {g \in Groups : gpending[g] # "free"}
         /\ Visited = {p \in Params : ppending[p] # "free"}
         /\ \A g \in Entered : gpending[g] = "appear"
         /\ \A p \in Visited : ppending[p] = "appear"
         /\ \A g \in Entered \ {Root} : parent[g] \in Entered
<1> USE DEF IInv
<1>1. \A g \in Groups : gpending[g] \in {"free", "appear"}
  BY DEF BeforeAttach, TypesOK, GroupStates
<1>2. \A p \in Params : ppending[p] \in {"free", "appear"}
  BY DEF BeforeAttach
<1>3. Entered = {g \in Groups : gpending[g] # "free"}
  <2>1. ASSUME NEW g \in Groups, gpending[g] # "free"
        PROVE  \A h \in chain[g] : gpending[h] = "appear"
    <3>1. \A h \in chain[g] : h \in Groups /\ gpending[h] # "free"
      BY <2>1 DEF Tree, ChainOK, TypesOK
    <3> QED BY <1>1, <3>1
  <2>2. ASSUME NEW g \in Entered PROVE gpending[g] # "free"
    BY <2>2 DEF Entered, Tree, ChainOK
  <2> QED BY <2>1, <2>2 DEF Entered
<1>4. Visited = {p \in Params : ppending[p] # "free"}
  <2>1. ASSUME NEW p \in Params, ppending[p] # "free" PROVE p \in Visited
    <3>1. PICK g \in Groups : p \in ParamsOf(g)
      BY <2>1 DEF Tree, ListsOK
    <3>2. g \in Entered
      BY <1>3, <3>1 DEF Tree, ListsOK
    <3>3. ppending[p] # "nothing"
      BY <1>2
    <3> QED BY <3>1, <3>2, <3>3 DEF Visited
  <2>2. ASSUME NEW p \in Visited PROVE p \in Params /\ ppending[p] # "free"
    <3>1. p \in Params
      BY DEF Visited
    <3>2. PICK g \in Groups : p \in ParamsOf(g)
      BY <3>1, ItemsAssumption DEF Visited, Entered
    <3> QED BY <3>1, <3>2 DEF Tree, ListsOK
  <2> QED BY <2>1, <2>2
<1>5. \A g \in Entered \ {Root} : parent[g] \in Entered
  <2> SUFFICES ASSUME NEW g \in Entered \ {Root} PROVE parent[g] \in Entered
    OBVIOUS
  <2>1. g \in Groups /\ gpending[g] # "free" /\ parent[g] \in Groups
    BY <1>3 DEF TypesOK
  <2>2. parent[g] \in chain[g] /\ \A h \in chain[g] : gpending[h] # "free"
    BY <2>1 DEF Tree, ChainOK
  <2> QED BY <1>3, <2>1, <2>2
<1> QED BY <1>1, <1>2, <1>3, <1>4, <1>5

\* A host that attaches once meets no assert, and has what the library takes it to
\* have, whatever calls it refuses.
Attached == HostView /\ AssertsHold

\* One step.  A removal takes from what the host has what it lets go.
LEMMA AttachedStep ==
  ASSUME "reattaches" \notin Env, IInv, Attached, [Next]_vars
  PROVE  Attached'
<1> USE DEF Attached
<1>1. ASSUME Fail("bad_context") PROVE Attached'
  BY <1>1 DEF Fail, HostView, AssertsHold, Running
<1>2. ASSUME NEW par \in Groups, NEW g \in Groups, NEW hint \in BOOLEAN, NEW ok \in BOOLEAN,
             GroupAdd(par, g, hint, ok)
      PROVE  Attached'
  <2>1. CASE ~(attached /\ par \notin known)
    <3>1. /\ gpending[g] = "free" /\ UNCHANGED <<attached, ppending, fault>>
          /\ gpending' = [gpending EXCEPT ![g] =
                            IF attached THEN Settled("appear", ok) ELSE "appear"]
          /\ known' = IF attached /\ ok THEN known \cup {g} ELSE known
      BY <1>2, <2>1 DEF GroupAdd, paramVars
    <3> QED BY <3>1 DEF IInv, TypesOK, HostView, AssertsHold, Running, Settled
  <2> QED BY <1>1, <1>2, <2>1 DEF GroupAdd
<1>3. ASSUME NEW g \in Groups, NEW n \in Names, NEW t \in Types, NEW hint \in BOOLEAN,
             ParamReuse(g, n, t, hint)
      PROVE  Attached'
  <2> DEFINE q == First(g, n)
  <2>1. q \in Params
    BY <1>3, FirstNamed DEF ParamReuse, IInv
  <2>2. /\ ppending[q] = "disappear" /\ ppending' = [ppending EXCEPT ![q] = "change"]
        /\ UNCHANGED <<attached, gpending, known, fault>>
    BY <1>3 DEF ParamReuse, Reusable, Reused, groupVars
  <2> HIDE DEF q
  <2> QED BY <2>1, <2>2 DEF IInv, TypesOK, HostView, AssertsHold, Running
<1>4. ASSUME NEW g \in Groups, NEW n \in Names, NEW t \in Types, NEW hint \in BOOLEAN,
             NEW p \in Params, NEW ok \in BOOLEAN, ParamAdd(g, n, t, hint, p, ok)
      PROVE  Attached'
  <2>1. ~(SameName(g, n) # {} /\ ppending[First(g, n)] # "disappear")
    BY <1>4, FoundIsLeaving DEF ParamAdd
  <2>2. CASE ~(attached /\ g \notin known)
    <3>1. /\ ppending[p] = "free" /\ UNCHANGED <<attached, gpending, fault>>
          /\ ppending' = [ppending EXCEPT ![p] =
                            IF attached THEN Settled("appear", ok) ELSE "appear"]
          /\ known' = IF attached /\ ok THEN known \cup {p} ELSE known
      BY <1>4, <2>1, <2>2 DEF ParamAdd, groupVars
    <3> QED BY <3>1 DEF IInv, TypesOK, HostView, AssertsHold, Running, Settled
  <2> QED BY <1>1, <1>4, <2>1, <2>2 DEF ParamAdd
<1>5. ASSUME NEW p \in Params, NEW ok \in BOOLEAN, ParamRemove(p, ok) PROVE Attached'
  <2>1. /\ ppending' = [ppending EXCEPT ![p] =
             IF ppending[p] = "appear" THEN "free"
             ELSE IF attached THEN (IF ok THEN "free" ELSE "disappear") ELSE "disappear"]
        /\ known' = IF ppending[p] = "appear" \/ (attached /\ ok) THEN known \ {p} ELSE known
        /\ ppending[p] \in {"appear", "nothing", "change"}
        /\ UNCHANGED <<attached, gpending, fault>>
    BY <1>5 DEF ParamRemove, StillUntold, Settled, groupVars, IInv, Tree, OwnedOK
  <2> QED BY <2>1, ItemsAssumption DEF IInv, TypesOK, HostView, AssertsHold, Running
<1>6. ASSUME NEW refused \in SUBSET Items, HostAttach(refused) PROVE Attached'
  <2>1. ~attached
    BY <1>6, "reattaches" \notin Env DEF HostAttach
  <2>2. /\ Entered = {g \in Groups : gpending[g] # "free"}
        /\ Visited = {p \in Params : ppending[p] # "free"}
        /\ \A g \in Entered : gpending[g] = "appear"
        /\ \A p \in Visited : ppending[p] = "appear"
    BY <2>1, FirstWalk
  <2>3. ~ \E p \in Visited : ppending[p] = "change"
    BY <2>2
  <2>4. CASE ~ \E f \in {"assert_change", "bad_context"} : Fail(f)
    <3>1. /\ fault' = fault
          /\ \A g \in Groups : gpending'[g] =
               IF g \in Entered \ refused THEN "nothing" ELSE gpending[g]
          /\ \A p \in Params : ppending'[p] =
               IF p \in Visited \ refused
                 THEN IF ppending[p] = "appear" THEN "nothing" ELSE "free"
                 ELSE ppending[p]
          /\ known' = (Entered \ refused) \cup
               ((Visited \ refused) \ {p \in Visited \ refused : ppending[p] = "disappear"})
      BY <1>6, <2>4, AttachWalk
    <3>2. {p \in Visited \ refused : ppending[p] = "disappear"} = {}
      BY <2>2
    <3>3. known' = {g \in Groups : gpending'[g] = "nothing"}
                   \cup {p \in Params : ppending'[p] \in {"nothing", "disappear", "change"}}
      BY <2>2, <3>1, <3>2
    <3> QED BY <3>1, <3>3 DEF HostView, AssertsHold
  <2>5. ASSUME Fail("assert_change") PROVE FALSE
    <3>1. Running /\ (fault' = fault \/ fault' = "bad_context")
      BY <1>6, <2>3 DEF HostAttach, Visited, Fail
    <3> QED BY <2>5, <3>1 DEF Fail, Running
  <2> QED BY <1>1, <2>4, <2>5
<1>7. CASE UNCHANGED vars
  BY <1>7 DEF vars, groupVars, paramVars, HostView, AssertsHold, Running
<1>8. CASE Next
  BY <1>2, <1>3, <1>4, <1>5, <1>6, <1>8 DEF Next, Attach, Add, Remove
<1> QED BY <1>7, <1>8

\* With IInv it holds in every state.
LEMMA AttachedAlways ==
  ASSUME "reattaches" \notin Env
  PROVE  Spec => [](IInv /\ Attached)
<1>1. Init => IInv /\ Attached
  BY InitInvariant DEF Init, Attached, HostView, AssertsHold
<1>2. IInv /\ Attached /\ [Next]_vars => (IInv /\ Attached)'
  BY AttachedStep, StepInvariant, "reattaches" \notin Env
<1> QED BY <1>1, <1>2, PTL DEF Spec

\* What the library believes the host to have is what it has (the pending states of
\* group.c and parameter.c against the calls that the host accepted), whatever the
\* host refuses, as long as it attaches once.
THEOREM ViewIsRight ==
  ASSUME "reattaches" \notin Env
  PROVE  Spec => []HostView
<1>1. IInv /\ Attached => HostView
  BY DEF Attached
<1> QED BY <1>1, AttachedAlways, "reattaches" \notin Env, PTL

\* The asserts of parameter.c:333 (a name that is there already) and :282 (a change
\* that waits before the host is attached) do not fail for a plugin that adds no
\* name it has, whatever the host refuses, as long as it attaches once.
THEOREM AssertsNeverFail ==
  ASSUME "reattaches" \notin Env
  PROVE  Spec => []AssertsHold
<1>1. IInv /\ Attached => AssertsHold
  BY DEF Attached
<1> QED BY <1>1, AttachedAlways, "reattaches" \notin Env, PTL

\* A host that refuses nothing is told of everything by its first host_attach, which
\* calls it for no group and no parameter before the group above.
LEMMA WillingWalk ==
  ASSUME IInv, ~attached, HostAttach({})
  PROVE  /\ fault' = fault
         /\ known' = Entered \cup Visited
         /\ \A g \in Groups : gpending'[g] # "appear"
         /\ owned' = owned /\ owned \subseteq known'
<1>1. /\ Entered = {g \in Groups : gpending[g] # "free"}
      /\ Visited = {p \in Params : ppending[p] # "free"}
      /\ \A g \in Entered : gpending[g] = "appear"
      /\ \A p \in Visited : ppending[p] = "appear"
      /\ \A g \in Entered \ {Root} : parent[g] \in Entered
  BY FirstWalk
<1>2. ~ \E f \in {"assert_change", "bad_context"} : Fail(f)
  <2>1. /\ ~ \E p \in Visited : ppending[p] = "change"
        /\ ~ \E g \in Entered \ {Root} : parent[g] \notin Entered \ {}
        /\ ~ \E g \in Entered : ParamsOf(g) \cap Visited # {} /\ g \notin Entered \ {}
    BY <1>1
  <2>2. fault' = fault /\ Running
    BY <2>1 DEF HostAttach, Visited
  <2> QED BY <2>2 DEF Fail, Running
<1>3. /\ fault' = fault /\ owned' = owned
      /\ \A g \in Groups : gpending'[g] =
           IF g \in Entered \ {} THEN "nothing" ELSE gpending[g]
      /\ known' = (Entered \ {}) \cup
           ((Visited \ {}) \ {p \in Visited \ {} : ppending[p] = "disappear"})
  BY <1>2, AttachWalk
<1>4. known' = Entered \cup Visited
  BY <1>1, <1>3
<1>5. owned \subseteq Entered \cup Visited
  BY <1>1 DEF IInv, TypesOK, Items, Tree, OwnedOK
<1> QED BY <1>1, <1>3, <1>4, <1>5

\* The first host_attach that is not refused tells the host of every group and
\* parameter the plugin has: no group is behind one that the walk of group.c:192
\* turns back at, and the list of every group in use is walked.
THEOREM FirstAttachAnnounces ==
  ASSUME "reattaches" \notin Env
  PROVE  Spec => AttachAnnounces
<1>1. IInv /\ [Next]_vars => [HostAttach({}) => owned \subseteq known']_vars
  <2> SUFFICES ASSUME IInv, HostAttach({}) PROVE owned \subseteq known'
    OBVIOUS
  <2>1. ~attached
    BY "reattaches" \notin Env DEF HostAttach
  <2> QED BY <2>1, WillingWalk
<1> QED BY <1>1, PluginInvariant, PTL DEF Spec, AttachAnnounces

\* After the first attach of a host that refuses no appear, no group waits to.
WillingHost ==
  /\ fault = "none"
  /\ attached => \A g \in Groups : gpending[g] # "appear"

\* One step: a group the plugin has is one the host has, so no context is bad.
LEMMA WillingStep ==
  ASSUME Env \subseteq {"refuses_disappear"}, IInv, Attached, WillingHost, [Next]_vars
  PROVE  WillingHost'
<1> USE DEF WillingHost
<1>1. "reattaches" \notin Env /\ "refuses_appear" \notin Env
  OBVIOUS
<1>2. attached => \A g \in Groups : g \in owned => g \in known
  BY DEF Attached, HostView, Running, IInv, Tree, OwnedOK, TypesOK, GroupStates
<1>3. ASSUME NEW par \in Groups, NEW g \in Groups, NEW hint \in BOOLEAN, NEW ok \in BOOLEAN,
             GroupAdd(par, g, hint, ok)
      PROVE  WillingHost'
  <2>1. ok /\ par \in owned
    BY <1>1, <1>3 DEF GroupAdd, MayAppear
  <2>2. /\ UNCHANGED <<attached, fault>>
        /\ gpending' = [gpending EXCEPT ![g] =
                          IF attached THEN Settled("appear", ok) ELSE "appear"]
    BY <1>2, <1>3, <2>1 DEF GroupAdd
  <2> QED BY <2>1, <2>2 DEF IInv, TypesOK, Settled
<1>4. ASSUME NEW g \in Groups, NEW n \in Names, NEW t \in Types, NEW hint \in BOOLEAN,
             ParamReuse(g, n, t, hint)
      PROVE  WillingHost'
  BY <1>4 DEF ParamReuse, groupVars
<1>5. ASSUME NEW g \in Groups, NEW n \in Names, NEW t \in Types, NEW hint \in BOOLEAN,
             NEW p \in Params, NEW ok \in BOOLEAN, ParamAdd(g, n, t, hint, p, ok)
      PROVE  WillingHost'
  <2>1. ~(SameName(g, n) # {} /\ ppending[First(g, n)] # "disappear")
    BY <1>5, FoundIsLeaving DEF ParamAdd
  <2>2. ~(attached /\ g \notin known)
    BY <1>2, <1>5 DEF ParamAdd
  <2> QED BY <1>5, <2>1, <2>2 DEF ParamAdd, groupVars
<1>6. ASSUME NEW p \in Params, NEW ok \in BOOLEAN, ParamRemove(p, ok) PROVE WillingHost'
  BY <1>6 DEF ParamRemove, groupVars
<1>7. ASSUME NEW refused \in SUBSET Items, HostAttach(refused) PROVE WillingHost'
  <2>1. ~attached /\ refused = {}
    BY <1>1, <1>7 DEF HostAttach
  <2> QED BY <1>7, <2>1, WillingWalk
<1>8. CASE UNCHANGED vars
  BY <1>8 DEF vars, groupVars
<1>9. CASE Next
  BY <1>3, <1>4, <1>5, <1>6, <1>7, <1>9 DEF Next, Attach, Add, Remove
<1> QED BY <1>8, <1>9

\* A host that refuses no appear, and attaches once, is called with the context of
\* a group it has, and no assert fails: the bad context of group.c and parameter.c
\* needs a refusal of group_appear.
THEOREM NoFaultWithAWillingHost ==
  ASSUME Env \subseteq {"refuses_disappear"}
  PROVE  Spec => [](fault = "none")
<1>1. "reattaches" \notin Env
  OBVIOUS
<1>2. Init => WillingHost
  BY DEF Init, WillingHost
<1>3. IInv /\ Attached /\ WillingHost /\ [Next]_vars => WillingHost'
  BY WillingStep, Env \subseteq {"refuses_disappear"}
<1>4. WillingHost => fault = "none"
  BY DEF WillingHost
<1>5. Spec => [](IInv /\ Attached)
  BY <1>1, AttachedAlways
<1> QED BY <1>2, <1>3, <1>4, <1>5, PTL DEF Spec
=============================================================================
