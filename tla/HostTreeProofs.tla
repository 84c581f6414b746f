--------------------------- MODULE HostTreeProofs ---------------------------
(***************************************************************************)
(* Proofs about HostTree, whatever the number of groups and parameters:    *)
(* first that the counters that prune the walk never hide a pending item,  *)
(* then what the user interface has been told of what the plugin has.      *)
(* Like HostTree itself, all of them are about programs that do not call   *)
(* change_rt during an interface operation.                                *)
(***************************************************************************)
EXTENDS HostTree, ListsProofs, FiniteSetTheorems, TLAPS

----------------------------------------------------------------------------
(* Cardinalities of the sets of pending items. *)

\* What notify has been asked for at or below x, with the contexts of parameters
\* that have been freed since: they are counted, and no walk will pay for them.
ContextDebt(x) == {p \in Params : contextChange[p] /\ x \in chain[pgroup[p]]}
Debt(x) == Cardinality(GroupPending(x)) + Cardinality(ParamPending(x))
           + Cardinality(ValuePending(x)) + Cardinality(ContextDebt(x))

\* A subset has no more elements than its superset.
LEMMA CardMono ==
  ASSUME NEW S, IsFiniteSet(S), NEW T, T \subseteq S
  PROVE  /\ IsFiniteSet(T)
         /\ Cardinality(T) \in Nat /\ Cardinality(S) \in Nat
         /\ Cardinality(T) <= Cardinality(S)
BY FS_Subset, FS_CardinalityType

\* One more item may be pending: at most one more to count.
LEMMA CardBump ==
  ASSUME NEW S, IsFiniteSet(S), NEW e, NEW T, T \subseteq S \cup {e}
  PROVE  /\ Cardinality(T) \in Nat /\ Cardinality(S) \in Nat
         /\ Cardinality(T) <= Cardinality(S) + 1
<1>1. /\ IsFiniteSet(S \cup {e})
      /\ Cardinality(S) \in Nat
      /\ Cardinality(S \cup {e}) <= Cardinality(S) + 1
  BY FS_AddElement, FS_CardinalityType
<1>2. QED BY <1>1, CardMono, FS_CardinalityType

\* One item is no longer pending: at least one less to count.
LEMMA CardDrop ==
  ASSUME NEW S, IsFiniteSet(S), NEW e \in S, NEW T, T \subseteq S \ {e}
  PROVE  /\ Cardinality(T) \in Nat /\ Cardinality(S) \in Nat
         /\ Cardinality(T) + 1 <= Cardinality(S)
<1>1. /\ IsFiniteSet(S \ {e})
      /\ Cardinality(S) \in Nat
      /\ Cardinality(S \ {e}) = Cardinality(S) - 1
  BY FS_RemoveElement, FS_CardinalityType
<1>2. QED BY <1>1, CardMono, FS_CardinalityType

\* A set with an element is not empty.
LEMMA CardHas ==
  ASSUME NEW S, IsFiniteSet(S), NEW e \in S
  PROVE  Cardinality(S) \in Nat /\ Cardinality(S) >= 1
<1>1. /\ Cardinality(S \ {e}) \in Nat /\ Cardinality(S) \in Nat
      /\ Cardinality(S \ {e}) + 1 <= Cardinality(S)
  BY CardDrop
<1>2. QED BY <1>1

\* A union has at most the elements of its parts together.
LEMMA CardUnion ==
  ASSUME NEW S, IsFiniteSet(S), NEW U, IsFiniteSet(U),
         NEW T, T \subseteq S \cup U
  PROVE  /\ Cardinality(T) \in Nat /\ Cardinality(S) \in Nat
         /\ Cardinality(U) \in Nat
         /\ Cardinality(T) <= Cardinality(S) + Cardinality(U)
<1>1. /\ IsFiniteSet(S \cup U) /\ IsFiniteSet(S \cap U)
      /\ Cardinality(S \cup U)
           = Cardinality(S) + Cardinality(U) - Cardinality(S \cap U)
  BY FS_Union, FS_Subset
<1>2. /\ Cardinality(S) \in Nat /\ Cardinality(U) \in Nat
      /\ Cardinality(S \cap U) \in Nat /\ Cardinality(S \cup U) \in Nat
  BY <1>1, FS_CardinalityType
<1>3. Cardinality(T) \in Nat /\ Cardinality(T) <= Cardinality(S \cup U)
  BY <1>1, CardMono
<1>4. QED BY <1>1, <1>2, <1>3

\* The sets of pending items are finite.
LEMMA PendingFinite ==
  ASSUME NEW x
  PROVE  /\ IsFiniteSet(GroupPending(x)) /\ IsFiniteSet(ParamPending(x))
         /\ IsFiniteSet(ValuePending(x)) /\ IsFiniteSet(ContextPending(x))
         /\ IsFiniteSet(ContextDebt(x))
<1>1. /\ GroupPending(x) \subseteq Groups
      /\ ParamPending(x) \subseteq Params
      /\ ValuePending(x) \subseteq Params
      /\ ContextPending(x) \subseteq Params
      /\ ContextDebt(x) \subseteq Params
  BY DEF GroupPending, ParamPending, ValuePending, ContextPending, ContextDebt
<1>2. QED BY <1>1, FS_Subset, ItemsAssumption

LEMMA PendingCards ==
  ASSUME NEW x
  PROVE  /\ Cardinality(GroupPending(x)) \in Nat
         /\ Cardinality(ParamPending(x)) \in Nat
         /\ Cardinality(ValuePending(x)) \in Nat
         /\ Cardinality(ContextPending(x)) \in Nat
         /\ Cardinality(ContextDebt(x)) \in Nat
         /\ Owed(x) \in Nat /\ Debt(x) \in Nat
BY PendingFinite, FS_CardinalityType DEF Owed, Debt

\* The debt of a group covers what is owed.
LEMMA DebtOwed ==
  ASSUME NEW x PROVE Owed(x) <= Debt(x)
<1>1. ContextPending(x) \subseteq ContextDebt(x)
  BY DEF ContextPending, ContextDebt
<1>2. Cardinality(ContextPending(x)) <= Cardinality(ContextDebt(x))
  BY <1>1, PendingFinite, CardMono
<1>3. QED BY <1>2, PendingCards DEF Owed, Debt

----------------------------------------------------------------------------
(* The inductive invariant. *)

\* Chunks come cleared.
Orderly == "dirty_chunks" \notin Env

\* Climbing from an item of the tree stays in the tree.
ChainOK ==
  /\ Root \in TreeGroups
  /\ \A g \in Groups : g \in chain[g]
  /\ \A g \in TreeGroups : chain[g] \subseteq TreeGroups
  /\ \A g \in TreeGroups \ {Root} :
       parent[g] \in TreeGroups /\ chain[parent[g]] \subseteq chain[g]
  /\ \A p \in TreeParams : pgroup[p] \in TreeGroups

WalkOK == at \in TreeGroups \cup {NoGroup}

\* A context outlives its parameter only until the walk that freed it ends, and
\* it ends in the assert of ui_run.
ContextsOK ==
  /\ \A p \in Params :
       contextChange[p] => "contexts" \in Env /\ pgroup[p] \in TreeGroups
  /\ \A p \in Params :
       Running /\ contextChange[p] /\ ~InTree(p) => ui /\ at # NoGroup

DebtCovers == \A x \in Groups : count[x] >= Debt(x)

IInv == TypeOK /\ ChainOK /\ WalkOK /\ ContextsOK /\ DebtCovers

\* The root is pending exactly while the interface is off, and a climb from it
\* ends at once.
RootInv == /\ chain[Root] = {Root}
           /\ gstate[Root] = IF ui THEN "nothing" ELSE "appear"

\* Climbing from g meets no group that the interface does not have yet.
Settled(g) == \A h \in chain[g] : gstate[h] # "appear"

\* Every climb ends at the root, and is the climb of the group above and one
\* step more.
ChainView ==
  /\ \A g \in TreeGroups : Root \in chain[g]
  /\ \A g \in TreeGroups \ {Root} : chain[g] = chain[parent[g]] \cup {g}

\* The interface has a parameter only when it has every group above it and the
\* program its context.  One that ui_off took away before it was told may be
\* told less than never.
ParamSeen(p) ==
  /\ contextSet[p] => InTree(p) /\ "no_callbacks" \notin Env
  /\ told[p] <= 1
  /\ told[p] = 1 => contextSet[p] /\ pstate[p] # "appear" /\ Settled(pgroup[p])
  /\ pstate[p] \in {"free", "lost"} => told[p] = 0
  /\ pstate[p] = "disappear" => told[p] = 1
  /\ p \in live =>
       /\ pstate[p] \in {"appear", "nothing"}
       /\ told[p] = IF pstate[p] = "appear" THEN 0 ELSE 1
ParamView == \A p \in Params : ParamSeen(p)

\* The interface has the groups that the plugin keeps and that are not pending,
\* and every group above them.
GroupSeen(g) ==
  /\ gstate[g] = "free" => told[g] = 0
  /\ g \in live =>
       /\ gstate[g] \in {"appear", "nothing"}
       /\ told[g] = IF gstate[g] = "appear" THEN 0 ELSE 1
       /\ gstate[g] = "nothing" => Settled(g)
GroupView == \A g \in Groups : GroupSeen(g)

\* A walk with the interface on is never below a group it has not told.
WalkView == ui /\ at # NoGroup => Settled(at)

ViewInv == ChainView /\ ParamView /\ GroupView /\ WalkView

LEMMA InitIInv == ASSUME Orderly, Init PROVE IInv
<1>1. TypeOK
  <2>1. contextChange \in [Params -> BOOLEAN]
    <3>1. contextChange \in [Params -> {FALSE}]
      BY DEF Init, Orderly
    <3>2. QED BY <3>1, Zenon
  <2>2. /\ gstate \in [Groups -> States] /\ pstate \in [Params -> ParamStates]
        /\ ptype \in [Params -> Types] /\ fault \in Faults
    BY DEF Init, States, ParamStates, Types, Faults
  <2>3. /\ parent \in [Groups -> Groups \cup {NoGroup}]
        /\ chain \in [Groups -> SUBSET Groups]
        /\ count \in [Groups -> Nat] /\ pgroup \in [Params -> Groups]
        /\ valueChange \in [Params -> BOOLEAN]
        /\ contextSet \in [Params -> BOOLEAN]
    BY ItemsAssumption DEF Init
  <2>4. /\ left \in SUBSET Items /\ live \in SUBSET Items
        /\ told \in [Items -> Int]
    BY ItemsAssumption DEF Init, Items
  <2>5. QED BY <2>1, <2>2, <2>3, <2>4 DEF Init, TypeOK
<1>2. ChainOK /\ WalkOK /\ ContextsOK
  BY ItemsAssumption
     DEF Init, Orderly, ChainOK, WalkOK, ContextsOK, TreeGroups, TreeParams, InTree
<1>3. DebtCovers
  <2> SUFFICES ASSUME NEW x \in Groups PROVE count[x] >= Debt(x)
    BY DEF DebtCovers
  <2>1. /\ GroupPending(x) = {} /\ ParamPending(x) = {}
        /\ ValuePending(x) = {} /\ ContextDebt(x) = {}
    BY DEF Init, GroupPending, ParamPending, ValuePending, ContextDebt,
           Pending, InTree, Orderly
  <2>2. Debt(x) = 0
    BY <2>1, FS_EmptySet DEF Debt
  <2>3. QED BY <2>2 DEF Init
<1>4. QED BY <1>1, <1>2, <1>3 DEF IInv

\* What is owed below a counter covers what one visit pays back, so that the
\* decrements of a visit cannot make it negative.
LEMMA VisitCovered ==
  ASSUME IInv, NEW p \in TreeParams, NEW n \in Nat,
         n <= One(pstate[p] \in Pending) + One(contextChange[p])
                + One(valueChange[p])
  PROVE  CanDescend(pgroup[p], n)
<1> USE DEF IInv, TypeOK, TreeParams
<1> SUFFICES ASSUME NEW h \in chain[pgroup[p]] PROVE count[h] >= n
  BY DEF CanDescend
<1>1. h \in Groups /\ count[h] \in Nat /\ count[h] >= Debt(h)
  BY DEF ChainOK, DebtCovers, TreeGroups
<1>2. Cardinality(ParamPending(h)) >= One(pstate[p] \in Pending)
  <2>1. pstate[p] \in Pending => p \in ParamPending(h)
    BY DEF ParamPending
  <2>2. QED BY <2>1, PendingFinite, PendingCards, CardHas DEF One
<1>3. Cardinality(ValuePending(h)) >= One(valueChange[p])
  <2>1. valueChange[p] => p \in ValuePending(h)
    BY DEF ValuePending
  <2>2. QED BY <2>1, PendingFinite, PendingCards, CardHas DEF One
<1>4. Cardinality(ContextDebt(h)) >= One(contextChange[p])
  <2>1. contextChange[p] => p \in ContextDebt(h)
    BY DEF ContextDebt
  <2>2. QED BY <2>1, PendingFinite, PendingCards, CardHas DEF One
<1>5. /\ One(pstate[p] \in Pending) \in Nat /\ One(contextChange[p]) \in Nat
      /\ One(valueChange[p]) \in Nat
  BY DEF One
<1>6. QED BY <1>1, <1>2, <1>3, <1>4, <1>5, PendingCards DEF Debt

\* The payments of a walk: one for a pending state, one for a pending value and
\* one for a pending context.
LEMMA PendingPays ==
  ASSUME IInv, NEW p \in TreeParams
  PROVE  /\ pstate[p] \in Pending =>
              /\ CanDescend(pgroup[p], 1)
              /\ CanDescend(pgroup[p], 1 + One(valueChange[p]))
              /\ \A b \in BOOLEAN :
                   CanDescend(pgroup[p], One(contextChange[p]) + One(b)
                                           + One(valueChange[p]))
         /\ CanDescend(pgroup[p], One(valueChange[p]))
BY VisitCovered DEF One

LEMMA GroupVisitCovered ==
  ASSUME IInv, NEW g \in TreeGroups \ {Root}, gstate[g] \in Pending
  PROVE  CanDescend(parent[g], 1)
<1> USE DEF IInv, TypeOK
<1> SUFFICES ASSUME NEW h \in chain[parent[g]] PROVE count[h] >= 1
  BY DEF CanDescend
<1>1. h \in Groups /\ count[h] \in Nat /\ count[h] >= Debt(h)
  BY DEF ChainOK, DebtCovers, TreeGroups
<1>2. g \in GroupPending(h)
  BY DEF GroupPending, TreeGroups
<1>3. Cardinality(GroupPending(h)) >= 1
  BY <1>2, PendingFinite, CardHas
<1>4. QED BY <1>1, <1>3, PendingCards DEF Debt

----------------------------------------------------------------------------
(* Every step preserves the types of the variables. *)

LEMMA CountTypes ==
  ASSUME TypeOK, NEW g \in Groups
  PROVE  /\ Climbed(g) \in [Groups -> Nat]
         /\ \A n \in Nat : CanDescend(g, n) => Descended(g, n) \in [Groups -> Nat]
BY DEF TypeOK, Climbed, CanDescend, Descended

LEMMA HideTypes ==
  ASSUME NEW h \in Groups
  PROVE  HideCount(h) \in Nat
<1>1. /\ IsFiniteSet({p \in HiddenParams : h \in chain[pgroup[p]]})
      /\ IsFiniteSet({g \in CountedGroups : h \in chain[parent[g]]})
  <2>1. /\ {p \in HiddenParams : h \in chain[pgroup[p]]} \subseteq Params
        /\ {g \in CountedGroups : h \in chain[parent[g]]} \subseteq Groups
    BY DEF HiddenParams, CountedGroups, TreeParams, TreeGroups
  <2>2. QED BY <2>1, FS_Subset, ItemsAssumption
<1>2. QED BY <1>1, FS_CardinalityType DEF HideCount

LEMMA PayTypes ==
  ASSUME TypeOK, at \in Groups, NEW p \in Params, NEW n \in Nat, Pay(p, n)
  PROVE  /\ count' \in [Groups -> Nat] /\ valueChange' \in [Params -> BOOLEAN]
         /\ left' \in SUBSET Items /\ fault' \in Faults
<1>1. CASE CanDescend(at, n)
  <2>1. count' \in [Groups -> Nat]
    BY <1>1, CountTypes DEF Pay
  <2>2. QED BY <1>1, <2>1 DEF TypeOK, Pay
<1>2. CASE ~CanDescend(at, n)
  BY <1>2 DEF TypeOK, Pay, Faults
<1>3. QED BY <1>1, <1>2

LEMMA TypeStep == ASSUME IInv, Next PROVE TypeOK'
<1> USE DEF IInv, TypeOK, treeVars, pendVars, walkVars, instVars
<1>1. ASSUME NEW par \in Groups, NEW g \in Groups, GroupAppear(par, g)
      PROVE  TypeOK'
  BY <1>1, CountTypes DEF GroupAppear, States, Items
<1>2. ASSUME NEW g \in Groups, GroupDisappear(g) PROVE TypeOK'
  <2>1. parent[g] \in Groups
    BY <1>2 DEF GroupDisappear, ChainOK, TreeGroups
  <2>2. count' \in [Groups -> Nat]
    BY <1>2, <2>1, CountTypes DEF GroupDisappear
  <2>3. /\ gstate' \in [Groups -> States] /\ live' \in SUBSET Items
        /\ fault' \in Faults
    BY <1>2 DEF GroupDisappear, States, Faults
  <2>4. QED BY <1>2, <2>2, <2>3 DEF GroupDisappear
<1>3. ASSUME NEW g \in Groups, NEW p \in Params, NEW t \in Types,
             ParamAppear(g, p, t)
      PROVE  TypeOK'
  BY <1>3, CountTypes DEF ParamAppear, ParamStates, States, Items
<1>4. ASSUME NEW p \in Params, ParamDisappear(p) PROVE TypeOK'
  <2>1. count' \in [Groups -> Nat]
    BY <1>4, CountTypes DEF ParamDisappear
  <2>2. /\ pstate' \in [Params -> ParamStates] /\ live' \in SUBSET Items
        /\ fault' \in Faults
    BY <1>4 DEF ParamDisappear, ParamStates, States, Faults, Withdrawn
  <2>3. QED BY <1>4, <2>1, <2>2 DEF ParamDisappear
<1>5. ASSUME NEW p \in Params, ChangeRt(p) PROVE TypeOK'
  BY <1>5, CountTypes DEF ChangeRt
<1>6. ASSUME NEW p \in Params, NEW context \in BOOLEAN, ApplySet(p, context)
      PROVE  TypeOK'
  BY <1>6, CountTypes DEF ApplySet
<1>7. CASE Attach
  BY <1>7 DEF Attach
<1>8. CASE UiRun
  <2>1. /\ at' \in Groups \cup {NoGroup} /\ left' \in SUBSET Items
        /\ fault' \in Faults
    BY <1>8, ItemsAssumption
       DEF UiRun, Fail, StartWalk, Faults, TreeGroups, TreeParams, Items
  <2>2. QED BY <1>8, <2>1 DEF UiRun, Fail
<1>9. CASE UiOn
  <2>1. /\ at' \in Groups \cup {NoGroup} /\ left' \in SUBSET Items
        /\ fault' \in Faults
    <3>1. CASE gstate[Root] = "appear"
      BY <1>9, <3>1, ItemsAssumption
         DEF UiOn, StartWalk, TreeGroups, TreeParams, Items
    <3>2. CASE gstate[Root] # "appear"
      BY <1>9, <3>2 DEF UiOn, Fail, Faults
    <3>3. QED BY <3>1, <3>2
  <2>2. /\ gstate' \in [Groups -> States] /\ told' \in [Items -> Int]
        /\ ui' \in BOOLEAN
    <3>1. CASE gstate[Root] = "appear"
      <4>1. gstate' = [gstate EXCEPT ![Root] = "nothing"]
        BY <1>9, <3>1 DEF UiOn
      <4>2. told' = [told EXCEPT ![Root] = @ + 1] /\ Root \in Items
        BY <1>9, <3>1, ItemsAssumption DEF UiOn, GroupAnnounced, Items
      <4>3. gstate' \in [Groups -> States]
        BY <4>1 DEF States
      <4>4. told' \in [Items -> Int]
        <5>1. told[Root] + 1 \in Int
          BY <4>2
        <5>2. QED BY <4>2, <5>1
      <4>5. QED BY <1>9, <3>1, <4>3, <4>4 DEF UiOn
    <3>2. CASE gstate[Root] # "appear"
      BY <1>9, <3>2 DEF UiOn, Fail
    <3>3. QED BY <3>1, <3>2
  <2>3. QED BY <1>9, <2>1, <2>2 DEF UiOn, Fail
<1>10. CASE UiOff
  <2>1. count' \in [Groups -> Nat]
    BY <1>10, HideTypes DEF UiOff
  <2>2. /\ gstate' \in [Groups -> States] /\ pstate' \in [Params -> ParamStates]
        /\ told' \in [Items -> Int]
    BY <1>10 DEF UiOff, States, ParamStates
  <2>3. QED BY <1>10, <2>1, <2>2 DEF UiOff
<1>11. ASSUME NEW h \in Groups, VisitGroup(h) PROVE TypeOK'
  <2>1. at \in Groups /\ h \in Items
    BY <1>11 DEF VisitGroup, KeepWalking, Items
  <2>2. count' \in [Groups -> Nat]
    BY <1>11, <2>1, CountTypes DEF VisitGroup
  <2>3. /\ gstate' \in [Groups -> States] /\ told' \in [Items -> Int]
        /\ fault' \in Faults
    BY <1>11, <2>1 DEF VisitGroup, States, Faults, GroupAnnounced
  <2>4. /\ at' \in Groups \cup {NoGroup} /\ left' \in SUBSET Items
    BY <1>11, <2>1 DEF VisitGroup, Descend
  <2>5. QED BY <1>11, <2>2, <2>3, <2>4 DEF VisitGroup
<1>12. ASSUME NEW p \in Params, VisitAppearing(p) PROVE TypeOK'
  <2>1. at \in Groups
    BY <1>12 DEF VisitAppearing, KeepWalking
  <2>2. /\ count' \in [Groups -> Nat] /\ valueChange' \in [Params -> BOOLEAN]
        /\ left' \in SUBSET Items /\ fault' \in Faults
    <3>1. One(contextChange[p]) + One(ui) + One(valueChange[p]) \in Nat
      BY DEF One
    <3>2. QED BY <1>12, <2>1, <3>1, PayTypes DEF VisitAppearing, Faults
  <2>3. pstate' \in [Params -> ParamStates] /\ told' \in [Items -> Int]
    BY <1>12 DEF VisitAppearing, ParamStates, States, Items, Appeared
  <2>4. /\ contextSet' \in [Params -> BOOLEAN]
        /\ contextChange' \in [Params -> BOOLEAN]
    BY <1>12 DEF VisitAppearing
  <2>5. QED BY <1>12, <2>2, <2>3, <2>4 DEF VisitAppearing
<1>13. ASSUME NEW p \in Params, VisitSettled(p) PROVE TypeOK'
  <2>1. at \in Groups /\ One(valueChange[p]) \in Nat
    BY <1>13 DEF VisitSettled, KeepWalking, One
  <2>2. QED BY <1>13, <2>1, PayTypes DEF VisitSettled
<1>14. ASSUME NEW p \in Params, VisitDisappearing(p) PROVE TypeOK'
  <2>1. at \in Groups /\ 1 + One(valueChange[p]) \in Nat
    BY <1>14 DEF VisitDisappearing, KeepWalking, One
  <2>2. /\ count' \in [Groups -> Nat] /\ valueChange' \in [Params -> BOOLEAN]
        /\ left' \in SUBSET Items /\ fault' \in Faults
    BY <1>14, <2>1, PayTypes DEF VisitDisappearing, Faults
  <2>3. /\ pstate' \in [Params -> ParamStates] /\ told' \in [Items -> Int]
    BY <1>14 DEF VisitDisappearing, ParamStates, States, Items, Freed
  <2>4. contextSet' \in [Params -> BOOLEAN]
    BY <1>14 DEF VisitDisappearing, ContextAfterDestroy
  <2>5. QED BY <1>14, <2>2, <2>3, <2>4 DEF VisitDisappearing
<1>15. CASE Return
  BY <1>15 DEF Return, Faults
<1>16. QED
  BY <1>1, <1>2, <1>3, <1>4, <1>5, <1>6, <1>7, <1>8, <1>9, <1>10, <1>11,
     <1>12, <1>13, <1>14, <1>15
     DEF Next, Callback, Realtime, Walk

----------------------------------------------------------------------------
(* Every step keeps the tree well formed and the walk in it. *)

LEMMA ChainKept ==
  ASSUME ChainOK, UNCHANGED <<chain, parent, pgroup>>,
         TreeGroups' = TreeGroups, TreeParams' \subseteq TreeParams
  PROVE  ChainOK'
BY DEF ChainOK

LEMMA TreeStep == ASSUME IInv, Next PROVE ChainOK' /\ WalkOK'
<1> USE DEF IInv, treeVars, pendVars, walkVars, instVars
<1>1. ASSUME NEW par \in Groups, NEW g \in Groups, GroupAppear(par, g)
      PROVE  ChainOK' /\ WalkOK'
  <2>1. /\ TreeGroups' = TreeGroups \cup {g} /\ TreeParams' = TreeParams
        /\ g \notin TreeGroups /\ par \in TreeGroups
    BY <1>1 DEF GroupAppear, TypeOK, TreeGroups, TreeParams, InTree
  <2>2. /\ \A h \in Groups \ {g} : chain'[h] = chain[h] /\ parent'[h] = parent[h]
        /\ chain'[g] = chain[par] \cup {g} /\ parent'[g] = par
    BY <1>1 DEF GroupAppear, TypeOK
  <2>3. ChainOK'
    BY <1>1, <2>1, <2>2 DEF ChainOK, GroupAppear, TreeGroups
  <2>4. QED BY <1>1, <2>1, <2>3 DEF GroupAppear, WalkOK
<1>2. ASSUME NEW g \in Groups, GroupDisappear(g)
      PROVE  ChainOK' /\ WalkOK'
  <2>1. TreeGroups' = TreeGroups /\ TreeParams' = TreeParams
    BY <1>2 DEF GroupDisappear, TypeOK, TreeGroups, TreeParams, InTree
  <2>2. QED BY <1>2, <2>1, ChainKept DEF GroupDisappear, WalkOK
<1>3. ASSUME NEW g \in Groups, NEW p \in Params, NEW t \in Types,
             ParamAppear(g, p, t)
      PROVE  ChainOK' /\ WalkOK'
  <2>1. /\ TreeGroups' = TreeGroups /\ TreeParams' = TreeParams \cup {p}
        /\ g \in TreeGroups
    BY <1>3 DEF ParamAppear, TypeOK, TreeGroups, TreeParams, InTree
  <2>2. \A q \in Params : pgroup'[q] = IF q = p THEN g ELSE pgroup[q]
    BY <1>3 DEF ParamAppear, TypeOK
  <2>3. ChainOK'
    BY <1>3, <2>1, <2>2 DEF ChainOK, ParamAppear, TreeParams
  <2>4. QED BY <1>3, <2>1, <2>3 DEF ParamAppear, WalkOK
<1>4. ASSUME NEW p \in Params, ParamDisappear(p)
      PROVE  ChainOK' /\ WalkOK'
  <2>1. TreeGroups' = TreeGroups /\ TreeParams' = TreeParams
    BY <1>4 DEF ParamDisappear, TypeOK, TreeGroups, TreeParams, InTree, Withdrawn
  <2>2. QED BY <1>4, <2>1, ChainKept DEF ParamDisappear, WalkOK
<1>5. ASSUME NEW p \in Params, ChangeRt(p)
      PROVE  ChainOK' /\ WalkOK'
  <2>1. TreeGroups' = TreeGroups /\ TreeParams' = TreeParams
    BY <1>5 DEF ChangeRt, TreeGroups, TreeParams, InTree
  <2>2. QED BY <1>5, <2>1, ChainKept DEF ChangeRt, WalkOK
<1>6. ASSUME NEW p \in Params, NEW context \in BOOLEAN, ApplySet(p, context)
      PROVE  ChainOK' /\ WalkOK'
  <2>1. TreeGroups' = TreeGroups /\ TreeParams' = TreeParams
    BY <1>6 DEF ApplySet, TreeGroups, TreeParams, InTree
  <2>2. QED BY <1>6, <2>1, ChainKept DEF ApplySet, WalkOK
<1>7. ASSUME Attach \/ UiRun \/ Return
      PROVE  ChainOK' /\ WalkOK'
  <2>1. TreeGroups' = TreeGroups /\ TreeParams' = TreeParams
    BY <1>7 DEF Attach, UiRun, Return, Fail, TreeGroups, TreeParams, InTree
  <2>2. ChainOK'
    BY <1>7, <2>1, ChainKept DEF Attach, UiRun, Return, Fail
  <2>3. WalkOK'
    <3>1. CASE Attach BY <3>1, <2>1 DEF Attach, WalkOK
    <3>2. CASE UiRun
      BY <3>2, <2>1 DEF UiRun, Fail, StartWalk, WalkOK, ChainOK
    <3>3. CASE Return
      BY <3>3, <2>1 DEF Return, WalkOK, ChainOK
    <3>4. QED BY <1>7, <3>1, <3>2, <3>3
  <2>4. QED BY <1>7, <2>2, <2>3 DEF Attach, UiRun, Return, Fail
<1>8. CASE UiOn
  <2>1. TreeGroups' = TreeGroups /\ TreeParams' = TreeParams
    BY <1>8, ItemsAssumption
       DEF UiOn, Fail, TypeOK, TreeGroups, TreeParams, InTree
  <2>2. WalkOK'
    BY <1>8, <2>1 DEF UiOn, Fail, StartWalk, WalkOK, ChainOK
  <2>3. QED BY <1>8, <2>1, <2>2, ChainKept DEF UiOn, Fail
<1>9. CASE UiOff
  <2>1. TreeGroups' = TreeGroups /\ TreeParams' = TreeParams
    BY <1>9
       DEF UiOff, TreeGroups, TreeParams, InTree, HiddenGroups, HiddenParams
  <2>2. QED BY <1>9, <2>1, ChainKept DEF UiOff, WalkOK
<1>10. ASSUME NEW h \in Groups, VisitGroup(h)
       PROVE  ChainOK' /\ WalkOK'
  <2>1. TreeGroups' = TreeGroups /\ TreeParams' = TreeParams /\ h \in TreeGroups
    BY <1>10
       DEF VisitGroup, TypeOK, TreeGroups, TreeParams, InTree, GroupsLeft, Children
  <2>2. WalkOK'
    BY <1>10, <2>1 DEF VisitGroup, Descend, WalkOK
  <2>3. QED BY <1>10, <2>1, <2>2, ChainKept DEF VisitGroup
<1>11. ASSUME NEW p \in Params,
              VisitAppearing(p) \/ VisitSettled(p) \/ VisitDisappearing(p)
       PROVE  ChainOK' /\ WalkOK'
  <2>1. TreeGroups' = TreeGroups /\ TreeParams' \subseteq TreeParams
    BY <1>11
       DEF VisitAppearing, VisitSettled, VisitDisappearing, TypeOK, TreeGroups,
           TreeParams, InTree, Freed, Appeared
  <2>2. WalkOK'
    BY <1>11, <2>1 DEF VisitAppearing, VisitSettled, VisitDisappearing, WalkOK
  <2>3. QED
    BY <1>11, <2>1, <2>2, ChainKept
       DEF VisitAppearing, VisitSettled, VisitDisappearing
<1>12. QED
  BY <1>1, <1>2, <1>3, <1>4, <1>5, <1>6, <1>7, <1>8, <1>9, <1>10, <1>11
     DEF Next, Callback, Realtime, Walk


----------------------------------------------------------------------------
(* Every step keeps contexts to the walk that frees their parameters. *)

\* A parameter is pending disappear only while the interface is on.
LEMMA DisappearingShown ==
  ASSUME IInv, RootInv, ViewInv, NEW p \in Params, pstate[p] = "disappear"
  PROVE  ui
<1>1. told[p] = 1 /\ Settled(pgroup[p])
  BY DEF ViewInv, ParamView, ParamSeen
<1>2. Root \in chain[pgroup[p]]
  BY DEF IInv, ChainOK, TreeParams, InTree, ViewInv, ChainView
<1>3. QED BY <1>1, <1>2 DEF Settled, RootInv

\* With the root's counter at zero no context is pending anywhere.
LEMMA NoDebtAtZero ==
  ASSUME IInv, ViewInv, count[Root] = 0, NEW p \in Params
  PROVE  ~contextChange[p]
<1> SUFFICES ASSUME contextChange[p] PROVE FALSE
  OBVIOUS
<1>1. p \in ContextDebt(Root)
  BY DEF IInv, ContextsOK, ViewInv, ChainView, ContextDebt
<1>2. Cardinality(ContextDebt(Root)) \in Nat /\ Cardinality(ContextDebt(Root)) >= 1
  BY <1>1, PendingFinite, CardHas
<1>3. count[Root] >= Debt(Root)
  BY ItemsAssumption DEF IInv, DebtCovers
<1>4. QED BY <1>2, <1>3, PendingCards DEF Debt

LEMMA ContextsStep ==
  ASSUME IInv, RootInv, ViewInv, Next, ChainOK' PROVE ContextsOK'
<1> USE DEF IInv, treeVars, pendVars, walkVars, instVars
<1>1. ASSUME NEW par \in Groups, NEW g \in Groups, GroupAppear(par, g)
      PROVE  ContextsOK'
  BY <1>1
     DEF GroupAppear, CallbackTime, Idle, Running, TypeOK, ContextsOK, TreeGroups,
         InTree
<1>2. ASSUME NEW g \in Groups, GroupDisappear(g) PROVE ContextsOK'
  <2>1. TreeGroups' = TreeGroups
    BY <1>2 DEF GroupDisappear, TypeOK, TreeGroups
  <2>2. QED
    BY <1>2, <2>1
       DEF GroupDisappear, CallbackTime, Idle, Running, ContextsOK, InTree
<1>3. ASSUME NEW g \in Groups, NEW p \in Params, NEW t \in Types,
             ParamAppear(g, p, t)
      PROVE  ContextsOK'
  <2>1. ~contextChange[p]
    BY <1>3 DEF ParamAppear, CallbackTime, Idle, ContextsOK, InTree
  <2>2. QED
    BY <1>3, <2>1
       DEF ParamAppear, CallbackTime, Idle, Running, TypeOK, ContextsOK, TreeGroups,
           InTree
<1>4. ASSUME NEW p \in Params, ParamDisappear(p) PROVE ContextsOK'
  BY <1>4
     DEF ParamDisappear, CallbackTime, Idle, Running, TypeOK, ContextsOK, TreeGroups,
         InTree, Withdrawn
<1>5. ASSUME NEW p \in Params, ChangeRt(p) PROVE ContextsOK'
  BY <1>5 DEF ChangeRt, Running, ContextsOK, TreeGroups, InTree
<1>6. ASSUME NEW p \in Params, NEW context \in BOOLEAN, ApplySet(p, context)
      PROVE  ContextsOK'
  <2>1. pgroup[p] \in TreeGroups
    BY <1>6 DEF ApplySet, ChainOK, TreeParams
  <2>2. QED
    BY <1>6, <2>1
       DEF ApplySet, Idle, Running, TypeOK, ContextsOK, TreeGroups, InTree
<1>7. CASE Attach
  BY <1>7 DEF Attach, CallbackTime, Running, ContextsOK, TreeGroups, InTree
<1>8. CASE UiRun
  BY <1>8 DEF UiRun, Fail, Idle, Running, ContextsOK, TreeGroups, InTree
<1>9. CASE UiOn
  <2>1. /\ Running /\ Idle /\ TreeGroups' = TreeGroups
        /\ UNCHANGED <<pstate, pgroup, contextChange>>
    BY <1>9, ItemsAssumption DEF UiOn, Fail, TypeOK, TreeGroups
  <2>2. QED BY <2>1 DEF Idle, ContextsOK, InTree
<1>10. CASE UiOff
  <2>1. /\ Running /\ Idle /\ TreeGroups' = TreeGroups
        /\ UNCHANGED <<pgroup, contextChange>>
        /\ \A p \in Params : InTree(p) => InTree(p)'
    BY <1>10 DEF UiOff, TreeGroups, HiddenGroups, InTree
  <2>2. QED BY <2>1 DEF Idle, ContextsOK
<1>11. ASSUME NEW h \in Groups, VisitGroup(h) PROVE ContextsOK'
  <2>1. TreeGroups' = TreeGroups /\ h # NoGroup
    BY <1>11, ItemsAssumption
       DEF VisitGroup, TypeOK, TreeGroups, GroupsLeft, Children
  <2>2. QED
    BY <1>11, <2>1 DEF VisitGroup, Descend, KeepWalking, Running, ContextsOK, InTree
<1>12. ASSUME NEW p \in Params, VisitAppearing(p) PROVE ContextsOK'
  <2>1. /\ Running /\ at' = at /\ ui' = ui /\ TreeGroups' = TreeGroups
        /\ pgroup' = pgroup
        /\ \A q \in Params : /\ contextChange'[q] => contextChange[q]
                             /\ InTree(q)' <=> InTree(q)
    BY <1>12
       DEF VisitAppearing, KeepWalking, TypeOK, TreeGroups, InTree, Appeared
  <2>2. QED BY <2>1 DEF ContextsOK
<1>13. ASSUME NEW p \in Params, VisitSettled(p) PROVE ContextsOK'
  BY <1>13 DEF VisitSettled, KeepWalking, Running, ContextsOK, TreeGroups, InTree
<1>14. ASSUME NEW p \in Params, VisitDisappearing(p) PROVE ContextsOK'
  <2>1. /\ Running /\ at' = at /\ ui' = ui /\ at # NoGroup
        /\ TreeGroups' = TreeGroups /\ UNCHANGED <<pgroup, contextChange>>
        /\ \A q \in Params \ {p} : InTree(q)' <=> InTree(q)
    BY <1>14 DEF VisitDisappearing, KeepWalking, TypeOK, TreeGroups, InTree
  <2>2. ui
    BY <1>14, DisappearingShown DEF VisitDisappearing
  <2>3. QED BY <2>1, <2>2 DEF ContextsOK
<1>15. CASE Return
  <2>1. /\ Running /\ at # NoGroup /\ ui' = ui /\ TreeGroups' = TreeGroups
        /\ UNCHANGED <<pgroup, contextChange, pstate>>
    BY <1>15 DEF Return, TreeGroups
  <2>2. CASE at # Root
    <3>1. at' # NoGroup
      BY <1>15, <2>1, <2>2, ItemsAssumption
         DEF Return, WalkOK, ChainOK, TreeGroups
    <3>2. QED BY <2>1, <3>1 DEF ContextsOK, InTree
  <2>3. CASE at = Root /\ ui /\ count[Root] # 0
    <3>1. ~Running'
      BY <1>15, <2>3 DEF Return, Running
    <3>2. QED BY <2>1, <3>1 DEF ContextsOK
  <2>4. CASE at = Root /\ ~ui
    BY <2>1, <2>4 DEF ContextsOK, InTree
  <2>5. CASE at = Root /\ count[Root] = 0
    BY <2>1, <2>5, NoDebtAtZero DEF ContextsOK
  <2>6. QED BY <2>2, <2>3, <2>4, <2>5
<1>16. QED
  BY <1>1, <1>2, <1>3, <1>4, <1>5, <1>6, <1>7, <1>8, <1>9, <1>10, <1>11,
     <1>12, <1>13, <1>14, <1>15
     DEF Next, Callback, Realtime, Walk

----------------------------------------------------------------------------
(* Every step keeps the counters above what is pending below them. *)

\* Nothing is pending below a group that is not in the tree.
LEMMA NothingBelowFree ==
  ASSUME IInv, NEW x \in Groups \ TreeGroups
  PROVE  /\ GroupPending(x) = {} /\ ParamPending(x) = {}
         /\ ValuePending(x) = {} /\ ContextDebt(x) = {}
         /\ ContextPending(x) = {}
BY DEF IInv, ChainOK, ContextsOK, GroupPending, ParamPending, ValuePending,
       ContextDebt, ContextPending, Pending, TreeGroups, TreeParams, InTree

\* Nothing new is pending at x.
Shrinks(x) == /\ GroupPending(x)' \subseteq GroupPending(x)
              /\ ParamPending(x)' \subseteq ParamPending(x)
              /\ ValuePending(x)' \subseteq ValuePending(x)
              /\ ContextDebt(x)' \subseteq ContextDebt(x)

LEMMA ShrinkDebt ==
  ASSUME NEW x, Shrinks(x)
  PROVE  Debt(x)' \in Nat /\ Debt(x)' <= Debt(x)
<1>1. /\ Cardinality(GroupPending(x)') \in Nat
      /\ Cardinality(GroupPending(x)') <= Cardinality(GroupPending(x))
      /\ Cardinality(ParamPending(x)') \in Nat
      /\ Cardinality(ParamPending(x)') <= Cardinality(ParamPending(x))
      /\ Cardinality(ValuePending(x)') \in Nat
      /\ Cardinality(ValuePending(x)') <= Cardinality(ValuePending(x))
      /\ Cardinality(ContextDebt(x)') \in Nat
      /\ Cardinality(ContextDebt(x)') <= Cardinality(ContextDebt(x))
  BY PendingFinite, CardMono DEF Shrinks
<1>2. QED BY <1>1, PendingCards DEF Debt

\* One item becomes pending at x.
Grows(x) ==
  \E e :
    \/ /\ GroupPending(x)' \subseteq GroupPending(x) \cup {e}
       /\ ParamPending(x)' \subseteq ParamPending(x)
       /\ ValuePending(x)' \subseteq ValuePending(x)
       /\ ContextDebt(x)' \subseteq ContextDebt(x)
    \/ /\ GroupPending(x)' \subseteq GroupPending(x)
       /\ ParamPending(x)' \subseteq ParamPending(x) \cup {e}
       /\ ValuePending(x)' \subseteq ValuePending(x)
       /\ ContextDebt(x)' \subseteq ContextDebt(x)
    \/ /\ GroupPending(x)' \subseteq GroupPending(x)
       /\ ParamPending(x)' \subseteq ParamPending(x)
       /\ ValuePending(x)' \subseteq ValuePending(x) \cup {e}
       /\ ContextDebt(x)' \subseteq ContextDebt(x)
    \/ /\ GroupPending(x)' \subseteq GroupPending(x)
       /\ ParamPending(x)' \subseteq ParamPending(x)
       /\ ValuePending(x)' \subseteq ValuePending(x)
       /\ ContextDebt(x)' \subseteq ContextDebt(x) \cup {e}

\* A set that keeps its elements or gets one more.
LEMMA CardBetween ==
  ASSUME NEW S, IsFiniteSet(S), NEW e, NEW T, T \subseteq S \cup {e}
  PROVE  /\ Cardinality(T) \in Nat /\ Cardinality(S) \in Nat
         /\ T \subseteq S => Cardinality(T) <= Cardinality(S)
         /\ Cardinality(T) <= Cardinality(S) + 1
BY CardMono, CardBump

LEMMA GrowDebt ==
  ASSUME NEW x, Grows(x)
  PROVE  Debt(x)' \in Nat /\ Debt(x)' <= Debt(x) + 1
<1>1. PICK e :
        /\ GroupPending(x)' \subseteq GroupPending(x) \cup {e}
        /\ ParamPending(x)' \subseteq ParamPending(x) \cup {e}
        /\ ValuePending(x)' \subseteq ValuePending(x) \cup {e}
        /\ ContextDebt(x)' \subseteq ContextDebt(x) \cup {e}
        /\ \/ /\ ParamPending(x)' \subseteq ParamPending(x)
              /\ ValuePending(x)' \subseteq ValuePending(x)
              /\ ContextDebt(x)' \subseteq ContextDebt(x)
           \/ /\ GroupPending(x)' \subseteq GroupPending(x)
              /\ ValuePending(x)' \subseteq ValuePending(x)
              /\ ContextDebt(x)' \subseteq ContextDebt(x)
           \/ /\ GroupPending(x)' \subseteq GroupPending(x)
              /\ ParamPending(x)' \subseteq ParamPending(x)
              /\ ContextDebt(x)' \subseteq ContextDebt(x)
           \/ /\ GroupPending(x)' \subseteq GroupPending(x)
              /\ ParamPending(x)' \subseteq ParamPending(x)
              /\ ValuePending(x)' \subseteq ValuePending(x)
  BY DEF Grows
<1>2. /\ Cardinality(GroupPending(x)') \in Nat
      /\ Cardinality(GroupPending(x)') <= Cardinality(GroupPending(x)) + 1
      /\ GroupPending(x)' \subseteq GroupPending(x) =>
           Cardinality(GroupPending(x)') <= Cardinality(GroupPending(x))
  BY <1>1, PendingFinite, CardBetween
<1>3. /\ Cardinality(ParamPending(x)') \in Nat
      /\ Cardinality(ParamPending(x)') <= Cardinality(ParamPending(x)) + 1
      /\ ParamPending(x)' \subseteq ParamPending(x) =>
           Cardinality(ParamPending(x)') <= Cardinality(ParamPending(x))
  BY <1>1, PendingFinite, CardBetween
<1>4. /\ Cardinality(ValuePending(x)') \in Nat
      /\ Cardinality(ValuePending(x)') <= Cardinality(ValuePending(x)) + 1
      /\ ValuePending(x)' \subseteq ValuePending(x) =>
           Cardinality(ValuePending(x)') <= Cardinality(ValuePending(x))
  BY <1>1, PendingFinite, CardBetween
<1>5. /\ Cardinality(ContextDebt(x)') \in Nat
      /\ Cardinality(ContextDebt(x)') <= Cardinality(ContextDebt(x)) + 1
      /\ ContextDebt(x)' \subseteq ContextDebt(x) =>
           Cardinality(ContextDebt(x)') <= Cardinality(ContextDebt(x))
  BY <1>1, PendingFinite, CardBetween
<1>6. QED BY <1>1, <1>2, <1>3, <1>4, <1>5, PendingCards DEF Debt

\* A step that adds a pending item below g and climbs from g.
LEMMA CoverGrow ==
  ASSUME IInv, NEW g \in Groups, NEW x \in Groups, count'[x] = Climbed(g)[x],
         x \in chain[g] => Grows(x),
         x \notin chain[g] => Shrinks(x)
  PROVE  count'[x] >= Debt(x)'
<1>1. count[x] \in Nat /\ count[x] >= Debt(x)
  BY DEF IInv, TypeOK, DebtCovers
<1>2. CASE x \in chain[g]
  <2>1. count'[x] = count[x] + 1
    BY <1>2 DEF Climbed
  <2>2. QED BY <1>1, <1>2, <2>1, GrowDebt, PendingCards
<1>3. CASE x \notin chain[g]
  <2>1. count'[x] = count[x]
    BY <1>3 DEF Climbed
  <2>2. QED BY <1>1, <1>3, <2>1, ShrinkDebt, PendingCards
<1>4. QED BY <1>2, <1>3

\* A step that leaves the counter of x alone and adds nothing below it.
LEMMA CoverShrink ==
  ASSUME IInv, NEW x \in Groups, count'[x] = count[x], Shrinks(x)
  PROVE  count'[x] >= Debt(x)'
<1>1. count[x] \in Nat /\ count[x] >= Debt(x)
  BY DEF IInv, TypeOK, DebtCovers
<1>2. QED BY <1>1, ShrinkDebt, PendingCards

LEMMA CoverGroupAppear ==
  ASSUME IInv, NEW par \in Groups, NEW g \in Groups, GroupAppear(par, g)
  PROVE  DebtCovers'
<1> USE DEF IInv, treeVars, pendVars
<1> SUFFICES ASSUME NEW x \in Groups PROVE count'[x] >= Debt(x)'
  BY DEF DebtCovers
<1>1. /\ \A h \in Groups \ {g} : /\ chain'[h] = chain[h] /\ parent'[h] = parent[h]
                                /\ gstate'[h] = gstate[h]
      /\ parent'[g] = par /\ gstate[g] = "free" /\ g \notin TreeGroups
      /\ par \in TreeGroups
  BY DEF GroupAppear, TypeOK, TreeGroups
<1>2. UNCHANGED <<pgroup, pstate, valueChange, contextChange>>
  BY DEF GroupAppear
<1>3. /\ ParamPending(x)' \subseteq ParamPending(x)
      /\ ValuePending(x)' \subseteq ValuePending(x)
      /\ ContextDebt(x)' \subseteq ContextDebt(x)
  <2>1. \A p \in Params : InTree(p) \/ contextChange[p] =>
                            chain'[pgroup[p]] = chain[pgroup[p]]
    BY <1>1 DEF ChainOK, ContextsOK, TreeGroups, TreeParams
  <2>2. QED
    BY <1>2, <2>1
       DEF ParamPending, ValuePending, ContextDebt, Pending, InTree
<1>4. /\ x \in chain[par] => GroupPending(x)' \subseteq GroupPending(x) \cup {g}
      /\ x \notin chain[par] => GroupPending(x)' \subseteq GroupPending(x)
  <2>1. \A h \in Groups \ {g, Root} :
          gstate'[h] \in Pending => chain'[parent'[h]] = chain[parent[h]]
    BY <1>1 DEF ChainOK, TreeGroups, Pending
  <2>2. chain'[par] = chain[par]
    BY <1>1
  <2>3. QED BY <1>1, <2>1, <2>2 DEF GroupPending
<1>5. CASE x = g
  <2>1. x \in Groups \ TreeGroups /\ x \notin chain[par] /\ count'[x] = 0
    BY <1>1, <1>5 DEF GroupAppear, ChainOK, TypeOK, Climbed
  <2>2. /\ GroupPending(x)' = {} /\ ParamPending(x)' = {}
        /\ ValuePending(x)' = {} /\ ContextDebt(x)' = {}
    BY <2>1, <1>3, <1>4, NothingBelowFree
  <2>3. Debt(x)' = 0
    BY <2>2, FS_EmptySet DEF Debt
  <2>4. QED BY <2>1, <2>3
<1>6. CASE x # g
  <2>1. count'[x] = Climbed(par)[x]
    BY <1>6 DEF GroupAppear, Climbed
  <2>2. /\ x \in chain[par] => Grows(x)
        /\ x \notin chain[par] => Shrinks(x)
    BY <1>3, <1>4 DEF Grows, Shrinks
  <2>3. QED BY <2>1, <2>2, CoverGrow
<1>7. QED BY <1>5, <1>6

LEMMA CoverParamAppear ==
  ASSUME IInv, NEW g \in Groups, NEW p \in Params, NEW t \in Types,
         ParamAppear(g, p, t)
  PROVE  DebtCovers'
<1> USE DEF IInv, treeVars, pendVars
<1> SUFFICES ASSUME NEW x \in Groups PROVE count'[x] >= Debt(x)'
  BY DEF DebtCovers
<1>1. /\ UNCHANGED <<chain, parent, gstate, contextChange>>
      /\ \A q \in Params \ {p} : /\ pgroup'[q] = pgroup[q] /\ pstate'[q] = pstate[q]
                                 /\ valueChange'[q] = valueChange[q]
      /\ pgroup'[p] = g /\ valueChange'[p] = FALSE /\ ~contextChange[p]
  BY DEF ParamAppear, CallbackTime, Idle, TypeOK, ContextsOK, InTree
<1>2. /\ GroupPending(x)' \subseteq GroupPending(x)
      /\ ValuePending(x)' \subseteq ValuePending(x)
      /\ ContextDebt(x)' \subseteq ContextDebt(x)
  BY <1>1 DEF GroupPending, ValuePending, ContextDebt, InTree
<1>3. /\ x \in chain[g] => ParamPending(x)' \subseteq ParamPending(x) \cup {p}
      /\ x \notin chain[g] => ParamPending(x)' \subseteq ParamPending(x)
  BY <1>1 DEF ParamPending
<1>4. count'[x] = Climbed(g)[x]
  BY DEF ParamAppear
<1>5. QED BY <1>2, <1>3, <1>4, CoverGrow DEF Grows, Shrinks

\* The two outcomes of removing an item that is pending appear.
LEMMA CoverGroupDisappear ==
  ASSUME IInv, NEW g \in Groups, GroupDisappear(g)
  PROVE  DebtCovers'
<1> USE DEF IInv, treeVars, pendVars
<1> SUFFICES ASSUME NEW x \in Groups PROVE count'[x] >= Debt(x)'
  BY DEF DebtCovers
<1>1. /\ UNCHANGED <<chain, parent, pgroup, pstate, valueChange, contextChange>>
      /\ g # Root /\ g \in TreeGroups /\ parent[g] \in TreeGroups
      /\ \A h \in Groups \ {g} : gstate'[h] = gstate[h]
  BY DEF GroupDisappear, TypeOK, ChainOK, TreeGroups
<1>2. /\ ParamPending(x)' \subseteq ParamPending(x)
      /\ ValuePending(x)' \subseteq ValuePending(x)
      /\ ContextDebt(x)' \subseteq ContextDebt(x)
  BY <1>1 DEF ParamPending, ValuePending, ContextDebt, InTree
<1>3. CASE gstate[g] = "appear"
  <2>1. CanDescend(parent[g], 1)
    BY <1>1, <1>3, GroupVisitCovered DEF Pending
  <2>2. gstate'[g] = "nothing" /\ count' = Descended(parent[g], 1)
    BY <1>1, <1>3, <2>1 DEF GroupDisappear, TypeOK
  <2>3. GroupPending(x)' \subseteq GroupPending(x) \ {g}
    BY <1>1, <2>2 DEF GroupPending, Pending
  <2>4. CASE x \in chain[parent[g]]
    <3>1. g \in GroupPending(x) /\ count'[x] = count[x] - 1
      BY <1>1, <1>3, <2>2, <2>4 DEF GroupPending, Pending, TreeGroups, Descended
    <3>2. Debt(x)' \in Nat /\ Debt(x)' + 1 <= Debt(x)
      <4>1. /\ Cardinality(GroupPending(x)') \in Nat
            /\ Cardinality(GroupPending(x)') + 1 <= Cardinality(GroupPending(x))
        BY <2>3, <3>1, PendingFinite, CardDrop
      <4>2. /\ Cardinality(ParamPending(x)') \in Nat
            /\ Cardinality(ParamPending(x)') <= Cardinality(ParamPending(x))
            /\ Cardinality(ValuePending(x)') \in Nat
            /\ Cardinality(ValuePending(x)') <= Cardinality(ValuePending(x))
            /\ Cardinality(ContextDebt(x)') \in Nat
            /\ Cardinality(ContextDebt(x)') <= Cardinality(ContextDebt(x))
        BY <1>2, PendingFinite, CardMono
      <4>3. QED BY <4>1, <4>2, PendingCards DEF Debt
    <3>3. QED BY <3>1, <3>2, PendingCards DEF TypeOK, DebtCovers
  <2>5. CASE x \notin chain[parent[g]]
    <3>1. count'[x] = count[x]
      BY <2>2, <2>5 DEF Descended
    <3>2. QED BY <1>2, <2>3, <3>1, CoverShrink DEF Shrinks
  <2>6. QED BY <2>4, <2>5
<1>4. CASE gstate[g] = "nothing"
  <2>1. gstate'[g] = "disappear" /\ count' = Climbed(parent[g])
    BY <1>1, <1>4 DEF GroupDisappear, TypeOK
  <2>2. /\ x \in chain[parent[g]] =>
              GroupPending(x)' \subseteq GroupPending(x) \cup {g}
        /\ x \notin chain[parent[g]] => GroupPending(x)' \subseteq GroupPending(x)
    BY <1>1 DEF GroupPending
  <2>3. count'[x] = Climbed(parent[g])[x] /\ parent[g] \in Groups
    BY <1>1, <2>1 DEF TreeGroups
  <2>4. QED BY <1>2, <2>2, <2>3, CoverGrow DEF Grows, Shrinks
<1>5. QED BY <1>3, <1>4 DEF GroupDisappear

\* A step that settles d pending states, v pending values and c pending contexts
\* of p and pays the counters back.
LEMMA CoverPay ==
  ASSUME IInv, NEW p \in TreeParams,
         NEW d \in {0, 1}, NEW v \in {0, 1}, NEW c \in {0, 1},
         UNCHANGED <<chain, parent, gstate, pgroup>>,
         \A q \in Params \ {p} : /\ pstate'[q] = pstate[q]
                                /\ valueChange'[q] = valueChange[q]
                                /\ contextChange'[q] = contextChange[q],
         InTree(p)' => InTree(p),
         pstate'[p] \in Pending => pstate[p] \in Pending,
         valueChange'[p] => valueChange[p],
         contextChange'[p] => contextChange[p],
         d = 1 => pstate[p] \in Pending /\ pstate'[p] \notin Pending,
         v = 1 => valueChange[p] /\ ~valueChange'[p],
         c = 1 => contextChange[p] /\ ~contextChange'[p],
         NEW n, n = d + v + c, count' = Descended(pgroup[p], n)
  PROVE  DebtCovers'
<1> USE DEF IInv
<1> SUFFICES ASSUME NEW x \in Groups PROVE count'[x] >= Debt(x)'
  BY DEF DebtCovers
<1>1. p \in Params /\ InTree(p)
  BY DEF TreeParams
<1>2. /\ GroupPending(x)' \subseteq GroupPending(x)
      /\ ParamPending(x)' \subseteq ParamPending(x)
  BY DEF GroupPending, ParamPending
<1>3. /\ ValuePending(x)' \subseteq ValuePending(x)
      /\ ContextDebt(x)' \subseteq ContextDebt(x)
  BY <1>1 DEF ValuePending, ContextDebt, InTree
<1>4. CASE x \in chain[pgroup[p]]
  <2>1. count'[x] = count[x] - (d + v + c)
    BY <1>4 DEF Descended
  <2>2. /\ Cardinality(ParamPending(x)') \in Nat
        /\ Cardinality(ParamPending(x)') + d <= Cardinality(ParamPending(x))
    <3>1. CASE d = 0
      BY <1>2, <3>1, PendingFinite, CardMono
    <3>2. CASE d = 1
      <4>1. p \in ParamPending(x) /\ ParamPending(x)' \subseteq ParamPending(x) \ {p}
        BY <1>1, <1>2, <1>4, <3>2 DEF ParamPending
      <4>2. QED BY <3>2, <4>1, PendingFinite, CardDrop
    <3>3. QED BY <3>1, <3>2
  <2>3. /\ Cardinality(ValuePending(x)') \in Nat
        /\ Cardinality(ValuePending(x)') + v <= Cardinality(ValuePending(x))
    <3>1. CASE v = 0
      BY <1>3, <3>1, PendingFinite, CardMono
    <3>2. CASE v = 1
      <4>1. p \in ValuePending(x) /\ ValuePending(x)' \subseteq ValuePending(x) \ {p}
        BY <1>1, <1>3, <1>4, <3>2 DEF ValuePending
      <4>2. QED BY <3>2, <4>1, PendingFinite, CardDrop
    <3>3. QED BY <3>1, <3>2
  <2>4. /\ Cardinality(ContextDebt(x)') \in Nat
        /\ Cardinality(ContextDebt(x)') + c <= Cardinality(ContextDebt(x))
    <3>1. CASE c = 0
      BY <1>3, <3>1, PendingFinite, CardMono
    <3>2. CASE c = 1
      <4>1. /\ p \in ContextDebt(x)
            /\ ContextDebt(x)' \subseteq ContextDebt(x) \ {p}
        BY <1>1, <1>3, <1>4, <3>2 DEF ContextDebt
      <4>2. QED BY <3>2, <4>1, PendingFinite, CardDrop
    <3>3. QED BY <3>1, <3>2
  <2>5. /\ Cardinality(GroupPending(x)') \in Nat
        /\ Cardinality(GroupPending(x)') <= Cardinality(GroupPending(x))
    BY <1>2, PendingFinite, CardMono
  <2>6. Debt(x)' \in Nat /\ Debt(x)' + (d + v + c) <= Debt(x)
    BY <2>2, <2>3, <2>4, <2>5, PendingCards DEF Debt
  <2>7. QED BY <2>1, <2>6, PendingCards DEF TypeOK, DebtCovers
<1>5. CASE x \notin chain[pgroup[p]]
  <2>1. count'[x] = count[x]
    BY <1>5 DEF Descended
  <2>2. QED BY <1>2, <1>3, <2>1, CoverShrink DEF Shrinks
<1>6. QED BY <1>4, <1>5

LEMMA CoverParamDisappear ==
  ASSUME IInv, NEW p \in Params, ParamDisappear(p)
  PROVE  DebtCovers'
<1> USE DEF IInv, treeVars, pendVars
<1>1. /\ UNCHANGED <<chain, parent, gstate, pgroup, valueChange, contextChange>>
      /\ p \in TreeParams
      /\ \A q \in Params \ {p} : pstate'[q] = pstate[q]
  BY DEF ParamDisappear, TypeOK, TreeParams, InTree
<1>2. CASE pstate[p] = "appear"
  <2>1. CanDescend(pgroup[p], 1)
    BY <1>1, <1>2, PendingPays DEF Pending
  <2>2. pstate'[p] = "nothing" /\ count' = Descended(pgroup[p], 1)
    BY <1>1, <1>2, <2>1 DEF ParamDisappear, TypeOK, Withdrawn
  <2>3. 1 = 1 + 0 + 0
    OBVIOUS
  <2>4. QED BY <1>1, <1>2, <2>2, <2>3, CoverPay DEF Pending, InTree
<1>3. CASE pstate[p] = "nothing"
  <2>1. pstate'[p] = "disappear" /\ count' = Climbed(pgroup[p])
    BY <1>1, <1>3 DEF ParamDisappear, TypeOK
  <2> SUFFICES ASSUME NEW x \in Groups PROVE count'[x] >= Debt(x)'
    BY DEF DebtCovers
  <2>2. /\ GroupPending(x)' \subseteq GroupPending(x)
        /\ ValuePending(x)' \subseteq ValuePending(x)
        /\ ContextDebt(x)' \subseteq ContextDebt(x)
    BY <1>1, <1>3 DEF GroupPending, ValuePending, ContextDebt, InTree
  <2>3. /\ x \in chain[pgroup[p]] =>
              ParamPending(x)' \subseteq ParamPending(x) \cup {p}
        /\ x \notin chain[pgroup[p]] => ParamPending(x)' \subseteq ParamPending(x)
    BY <1>1 DEF ParamPending
  <2>4. pgroup[p] \in Groups
    BY DEF TypeOK
  <2>5. QED BY <2>1, <2>2, <2>3, <2>4, CoverGrow DEF Grows, Shrinks
<1>4. QED BY <1>2, <1>3 DEF ParamDisappear

LEMMA CoverChangeRt ==
  ASSUME IInv, NEW p \in Params, ChangeRt(p)
  PROVE  DebtCovers'
<1> USE DEF IInv, treeVars
<1> SUFFICES ASSUME NEW x \in Groups PROVE count'[x] >= Debt(x)'
  BY DEF DebtCovers
<1>1. /\ UNCHANGED <<chain, parent, gstate, pgroup, pstate, contextChange>>
      /\ \A q \in Params \ {p} : valueChange'[q] = valueChange[q]
      /\ count' = Climbed(pgroup[p]) /\ pgroup[p] \in Groups
  BY DEF ChangeRt, TypeOK
<1>2. /\ GroupPending(x)' \subseteq GroupPending(x)
      /\ ParamPending(x)' \subseteq ParamPending(x)
      /\ ContextDebt(x)' \subseteq ContextDebt(x)
  BY <1>1 DEF GroupPending, ParamPending, ContextDebt, InTree
<1>3. /\ x \in chain[pgroup[p]] =>
            ValuePending(x)' \subseteq ValuePending(x) \cup {p}
      /\ x \notin chain[pgroup[p]] => ValuePending(x)' \subseteq ValuePending(x)
  BY <1>1 DEF ValuePending, InTree
<1>4. QED BY <1>1, <1>2, <1>3, CoverGrow DEF Grows, Shrinks

\* A message may replace the pending context by NULL; the count stays.
LEMMA CoverApplySet ==
  ASSUME IInv, NEW p \in Params, NEW context \in BOOLEAN, ApplySet(p, context)
  PROVE  DebtCovers'
<1> USE DEF IInv, treeVars
<1> SUFFICES ASSUME NEW x \in Groups PROVE count'[x] >= Debt(x)'
  BY DEF DebtCovers
<1>1. /\ UNCHANGED <<chain, parent, gstate, pgroup, pstate, valueChange>>
      /\ \A q \in Params \ {p} : contextChange'[q] = contextChange[q]
      /\ contextChange'[p] = context /\ pgroup[p] \in Groups
  BY DEF ApplySet, TypeOK
<1>2. /\ GroupPending(x)' \subseteq GroupPending(x)
      /\ ParamPending(x)' \subseteq ParamPending(x)
      /\ ValuePending(x)' \subseteq ValuePending(x)
  BY <1>1 DEF GroupPending, ParamPending, ValuePending, InTree
<1>3. CASE context
  <2>1. count'[x] = Climbed(pgroup[p])[x]
    BY <1>3 DEF ApplySet
  <2>2. /\ x \in chain[pgroup[p]] =>
              ContextDebt(x)' \subseteq ContextDebt(x) \cup {p}
        /\ x \notin chain[pgroup[p]] =>
              ContextDebt(x)' \subseteq ContextDebt(x)
    BY <1>1 DEF ContextDebt, InTree
  <2>3. QED BY <1>1, <1>2, <2>1, <2>2, CoverGrow DEF Grows, Shrinks
<1>4. CASE ~context
  <2>1. count'[x] = count[x]
    BY <1>4 DEF ApplySet
  <2>2. ContextDebt(x)' \subseteq ContextDebt(x)
    BY <1>1, <1>4 DEF ContextDebt, InTree
  <2>3. QED BY <1>2, <2>1, <2>2, CoverShrink DEF Shrinks
<1>5. QED BY <1>3, <1>4

\* Steps that change neither counters nor what is pending.
LEMMA CoverUnchanged ==
  ASSUME IInv, UNCHANGED <<parent, chain, pgroup>>,
         UNCHANGED <<count, pstate, valueChange, contextChange>>,
         \A g \in Groups \ {Root} : gstate'[g] = gstate[g]
  PROVE  DebtCovers'
<1> SUFFICES ASSUME NEW x \in Groups PROVE count'[x] >= Debt(x)'
  BY DEF DebtCovers
<1>1. Shrinks(x) /\ count'[x] = count[x]
  BY DEF Shrinks, GroupPending, ParamPending, ValuePending,
         ContextDebt, InTree
<1>2. QED BY <1>1, CoverShrink

LEMMA CoverUiOff ==
  ASSUME IInv, UiOff
  PROVE  DebtCovers'
<1> USE DEF IInv, treeVars
<1> SUFFICES ASSUME NEW x \in Groups PROVE count'[x] >= Debt(x)'
  BY DEF DebtCovers
<1> DEFINE P == {p \in HiddenParams : x \in chain[pgroup[p]]}
           G == {g \in CountedGroups : x \in chain[parent[g]]}
<1>1. UNCHANGED <<chain, parent, pgroup, valueChange, contextChange>>
  BY DEF UiOff
<1>2. /\ \A g \in Groups \ HiddenGroups : gstate'[g] = gstate[g]
      /\ \A p \in Params \ HiddenParams : pstate'[p] = pstate[p]
      /\ \A p \in Params : InTree(p)' => InTree(p)
  BY DEF UiOff, HiddenParams, TreeParams, InTree
<1>3. \A g \in HiddenGroups \ {Root} : g \in CountedGroups
  BY DEF HiddenGroups, CountedGroups, ChainOK
<1>4. /\ GroupPending(x)' \subseteq GroupPending(x) \cup G
      /\ ParamPending(x)' \subseteq ParamPending(x) \cup P
  BY <1>1, <1>2, <1>3 DEF GroupPending, ParamPending
<1>5. /\ ValuePending(x)' \subseteq ValuePending(x)
      /\ ContextDebt(x)' \subseteq ContextDebt(x)
  BY <1>1, <1>2 DEF ValuePending, ContextDebt
<1>6. /\ IsFiniteSet(P) /\ IsFiniteSet(G)
      /\ Cardinality(P) \in Nat /\ Cardinality(G) \in Nat
  <2>1. P \subseteq Params /\ G \subseteq Groups
    BY DEF HiddenParams, CountedGroups, TreeParams, TreeGroups
  <2>2. QED BY <2>1, FS_Subset, FS_CardinalityType, ItemsAssumption
<1>7. /\ Cardinality(GroupPending(x)') \in Nat
      /\ Cardinality(GroupPending(x)')
           <= Cardinality(GroupPending(x)) + Cardinality(G)
  BY <1>4, <1>6, PendingFinite, CardUnion
<1>8. /\ Cardinality(ParamPending(x)') \in Nat
      /\ Cardinality(ParamPending(x)')
           <= Cardinality(ParamPending(x)) + Cardinality(P)
  BY <1>4, <1>6, PendingFinite, CardUnion
<1>9. /\ Cardinality(ValuePending(x)') \in Nat
      /\ Cardinality(ValuePending(x)') <= Cardinality(ValuePending(x))
      /\ Cardinality(ContextDebt(x)') \in Nat
      /\ Cardinality(ContextDebt(x)') <= Cardinality(ContextDebt(x))
  BY <1>5, PendingFinite, CardMono
<1>10. count'[x] = count[x] + Cardinality(P) + Cardinality(G)
  <2>1. count'[x] = count[x] + HideCount(x)
    BY DEF UiOff
  <2>2. count[x] \in Nat
    BY DEF TypeOK
  <2>3. QED BY <2>1, <2>2, <1>6 DEF HideCount
<1>11. Debt(x)' <= Debt(x) + Cardinality(P) + Cardinality(G) /\ Debt(x)' \in Nat
  BY <1>6, <1>7, <1>8, <1>9, PendingCards DEF Debt
<1>12. QED BY <1>6, <1>10, <1>11, PendingCards DEF TypeOK, DebtCovers

LEMMA CoverVisitGroup ==
  ASSUME IInv, NEW h \in Groups, VisitGroup(h)
  PROVE  DebtCovers'
<1> USE DEF IInv, treeVars
<1>1. /\ UNCHANGED <<chain, parent, pgroup, pstate, valueChange, contextChange>>
      /\ h \in TreeGroups \ {Root} /\ parent[h] = at
      /\ \A g \in Groups \ {h} : gstate'[g] = gstate[g]
  BY DEF VisitGroup, TypeOK, GroupsLeft, Children
<1>2. CASE gstate[h] = "appear" /\ ui
  <2>1. CanDescend(at, 1)
    BY <1>1, <1>2, GroupVisitCovered DEF Pending
  <2>2. gstate'[h] = "nothing" /\ count' = Descended(at, 1)
    BY <1>1, <1>2, <2>1 DEF VisitGroup, TypeOK
  <2> SUFFICES ASSUME NEW x \in Groups PROVE count'[x] >= Debt(x)'
    BY DEF DebtCovers
  <2>3. /\ ParamPending(x)' \subseteq ParamPending(x)
        /\ ValuePending(x)' \subseteq ValuePending(x)
        /\ ContextDebt(x)' \subseteq ContextDebt(x)
    BY <1>1 DEF ParamPending, ValuePending, ContextDebt, InTree
  <2>4. GroupPending(x)' \subseteq GroupPending(x) \ {h}
    BY <1>1, <2>2 DEF GroupPending, Pending
  <2>5. CASE x \in chain[at]
    <3>1. h \in GroupPending(x) /\ count'[x] = count[x] - 1
      BY <1>1, <1>2, <2>2, <2>5 DEF GroupPending, Pending, TreeGroups, Descended
    <3>2. /\ Cardinality(GroupPending(x)') \in Nat
          /\ Cardinality(GroupPending(x)') + 1 <= Cardinality(GroupPending(x))
      BY <2>4, <3>1, PendingFinite, CardDrop
    <3>3. /\ Cardinality(ParamPending(x)') \in Nat
          /\ Cardinality(ParamPending(x)') <= Cardinality(ParamPending(x))
          /\ Cardinality(ValuePending(x)') \in Nat
          /\ Cardinality(ValuePending(x)') <= Cardinality(ValuePending(x))
          /\ Cardinality(ContextDebt(x)') \in Nat
          /\ Cardinality(ContextDebt(x)') <= Cardinality(ContextDebt(x))
      BY <2>3, PendingFinite, CardMono
    <3>4. Debt(x)' \in Nat /\ Debt(x)' + 1 <= Debt(x)
      BY <3>2, <3>3, PendingCards DEF Debt
    <3>5. QED BY <3>1, <3>4, PendingCards DEF TypeOK, DebtCovers
  <2>6. CASE x \notin chain[at]
    <3>1. count'[x] = count[x]
      BY <2>2, <2>6 DEF Descended
    <3>2. QED BY <2>3, <2>4, <3>1, CoverShrink DEF Shrinks
  <2>7. QED BY <2>5, <2>6
<1>3. CASE ~(gstate[h] = "appear" /\ ui)
  <2>1. gstate' = gstate /\ count' = count
    BY <1>3 DEF VisitGroup
  <2>2. QED BY <1>1, <2>1, CoverUnchanged
<1>4. QED BY <1>2, <1>3

LEMMA CoverVisitParam ==
  ASSUME IInv, NEW p \in Params,
         VisitAppearing(p) \/ VisitSettled(p) \/ VisitDisappearing(p)
  PROVE  DebtCovers'
<1> USE DEF IInv, treeVars
<1>1. /\ UNCHANGED <<chain, parent, gstate, pgroup>>
      /\ p \in TreeParams /\ pgroup[p] = at /\ InTree(p)
  <2>1. UNCHANGED <<chain, parent, gstate, pgroup>>
    BY DEF VisitAppearing, VisitSettled, VisitDisappearing
  <2>2. p \in ParamsLeft(at)
    BY DEF VisitAppearing, VisitSettled, VisitDisappearing
  <2>3. QED BY <2>1, <2>2 DEF ParamsLeft, ParamsOf, TreeParams
<1>2. ASSUME NEW n, CanDescend(at, n), Pay(p, n)
      PROVE  /\ count' = Descended(pgroup[p], n)
             /\ ~valueChange'[p]
             /\ \A q \in Params \ {p} : valueChange'[q] = valueChange[q]
  BY <1>1, <1>2 DEF Pay, TypeOK
<1>3. /\ One(valueChange[p]) \in {0, 1} /\ (One(valueChange[p]) = 1 => valueChange[p])
      /\ One(contextChange[p]) \in {0, 1}
      /\ One(contextChange[p]) = 1 => contextChange[p]
      /\ One(ui) \in {0, 1} /\ (One(ui) = 1 => ui)
  BY DEF One
<1>4. CASE VisitAppearing(p)
  <2>1. pstate[p] = "appear"
    BY <1>4 DEF VisitAppearing
  <2>2. CASE ~contextSet[p] /\ "no_callbacks" \in Env
    BY <1>4, <2>2, CoverUnchanged, <1>1 DEF VisitAppearing
  <2>3. CASE ~(~contextSet[p] /\ "no_callbacks" \in Env)
    <3> DEFINE n == One(contextChange[p]) + One(ui) + One(valueChange[p])
    <3>1. Pay(p, n)
      BY <1>4, <2>3 DEF VisitAppearing
    <3>2. CanDescend(at, n)
      BY <1>1, <2>1, PendingPays DEF TypeOK, Pending
    <3>3. n = One(ui) + One(valueChange[p]) + One(contextChange[p])
      BY <1>3
    <3> HIDE DEF n
    <3>4. /\ count' = Descended(pgroup[p], n) /\ ~valueChange'[p]
          /\ \A q \in Params \ {p} : valueChange'[q] = valueChange[q]
      BY <1>2, <3>1, <3>2
    <3>5. /\ \A q \in Params \ {p} : /\ pstate'[q] = pstate[q]
                                    /\ contextChange'[q] = contextChange[q]
          /\ pstate'[p] = IF ui THEN "nothing" ELSE "appear"
          /\ ~contextChange'[p]
      BY <1>4, <2>1, <2>3 DEF VisitAppearing, TypeOK, Appeared
    <3>6. /\ InTree(p)' => InTree(p)
          /\ pstate'[p] \in Pending => pstate[p] \in Pending
          /\ One(ui) = 1 => pstate[p] \in Pending /\ pstate'[p] \notin Pending
      BY <1>1, <1>3, <2>1, <3>5 DEF Pending
    <3>7. QED BY <1>1, <1>3, <3>3, <3>4, <3>5, <3>6, CoverPay
  <2>4. QED BY <2>2, <2>3
<1>5. CASE VisitSettled(p)
  <2>1. One(valueChange[p]) = 0 + One(valueChange[p]) + 0
    BY <1>3
  <2>2. UNCHANGED <<pstate, contextChange>> /\ Pay(p, One(valueChange[p]))
    BY <1>5 DEF VisitSettled
  <2>3. CanDescend(at, One(valueChange[p]))
    BY <1>1, PendingPays
  <2>4. /\ count' = Descended(pgroup[p], One(valueChange[p])) /\ ~valueChange'[p]
        /\ \A q \in Params \ {p} : valueChange'[q] = valueChange[q]
    BY <1>2, <2>2, <2>3
  <2>5. QED BY <1>1, <1>3, <2>1, <2>2, <2>4, CoverPay
<1>6. CASE VisitDisappearing(p)
  <2>1. pstate[p] = "disappear"
    BY <1>6 DEF VisitDisappearing
  <2>2. CASE ~contextSet[p] /\ "no_callbacks" \notin Env
    BY <1>1, <1>6, <2>2, CoverUnchanged DEF VisitDisappearing
  <2>3. CASE ~(~contextSet[p] /\ "no_callbacks" \notin Env)
    <3> DEFINE n == 1 + One(valueChange[p])
    <3>1. Pay(p, n) /\ UNCHANGED contextChange
      BY <1>6, <2>3 DEF VisitDisappearing
    <3>2. CanDescend(at, n)
      BY <1>1, <2>1, PendingPays DEF Pending
    <3>3. n = 1 + One(valueChange[p]) + 0
      BY <1>3
    <3> HIDE DEF n
    <3>4. /\ count' = Descended(pgroup[p], n) /\ ~valueChange'[p]
          /\ \A q \in Params \ {p} : valueChange'[q] = valueChange[q]
      BY <1>2, <3>1, <3>2
    <3>5. /\ \A q \in Params \ {p} : pstate'[q] = pstate[q]
          /\ pstate'[p] \in {"lost", "free"}
      BY <1>6, <2>3 DEF VisitDisappearing, TypeOK, Freed
    <3>6. QED
      BY <1>1, <1>3, <2>1, <3>1, <3>3, <3>4, <3>5, CoverPay DEF Pending
  <2>4. QED BY <2>2, <2>3
<1>7. QED BY <1>4, <1>5, <1>6

LEMMA CoverStep == ASSUME IInv, Next PROVE DebtCovers'
<1> USE DEF IInv, treeVars, pendVars
<1>1. CASE Callback
  BY <1>1, CoverGroupAppear, CoverGroupDisappear, CoverParamAppear,
     CoverParamDisappear DEF Callback
<1>2. CASE Realtime
  BY <1>2, CoverChangeRt, CoverApplySet DEF Realtime
<1>3. ASSUME Attach \/ UiRun \/ UiOn \/ Return PROVE DebtCovers'
  <2>1. /\ UNCHANGED <<parent, chain, pgroup>>
        /\ UNCHANGED <<count, pstate, valueChange, contextChange>>
        /\ \A g \in Groups \ {Root} : gstate'[g] = gstate[g]
    BY <1>3, ItemsAssumption DEF Attach, UiRun, UiOn, Return, Fail, TypeOK
  <2>2. QED BY <2>1, CoverUnchanged
<1>4. CASE UiOff
  BY <1>4, CoverUiOff
<1>5. CASE Walk
  BY <1>3, <1>5, CoverVisitGroup, CoverVisitParam DEF Walk
<1>6. QED BY <1>1, <1>2, <1>3, <1>4, <1>5 DEF Next

LEMMA StepIInv == ASSUME IInv, RootInv, ViewInv, Next PROVE IInv'
<1>1. TypeOK' /\ ChainOK' /\ WalkOK'
  BY TypeStep, TreeStep
<1>2. ContextsOK' /\ DebtCovers'
  BY <1>1, ContextsStep, CoverStep
<1>3. QED BY <1>1, <1>2 DEF IInv

LEMMA StutterIInv == ASSUME IInv, UNCHANGED vars PROVE IInv'
<1>1. TypeOK' /\ ChainOK' /\ WalkOK' /\ ContextsOK'
  BY DEF IInv, vars, treeVars, pendVars, walkVars, instVars, TypeOK, ChainOK,
         WalkOK, ContextsOK, TreeGroups, TreeParams, InTree, Running
<1>2. DebtCovers'
  BY CoverUnchanged DEF IInv, vars, treeVars, pendVars
<1>3. QED BY <1>1, <1>2 DEF IInv

----------------------------------------------------------------------------
(* The asserts of host.c. *)

\* A parameter that can reach the destroying callback has its context.
DestroyInv ==
  \A p \in Params :
    pstate[p] = "disappear" \/ (pstate[p] = "nothing" /\ p \in live)
      => contextSet[p]

AssertInv == AssertsHold /\ RootInv /\ DestroyInv

LEMMA InitAssertInv == ASSUME Init PROVE AssertInv
BY ItemsAssumption DEF Init, AssertInv, AssertsHold, RootInv, DestroyInv

LEMMA RootStep == ASSUME IInv, RootInv, Next PROVE RootInv'
<1> USE ItemsAssumption DEF IInv, treeVars, pendVars, instVars
<1>1. ASSUME NEW par \in Groups, NEW g \in Groups, GroupAppear(par, g)
      PROVE  RootInv'
  <2>1. g # Root
    BY <1>1 DEF GroupAppear, RootInv
  <2>2. QED BY <1>1, <2>1 DEF GroupAppear, RootInv, TypeOK
<1>2. ASSUME NEW g \in Groups, GroupDisappear(g) PROVE RootInv'
  <2>1. gstate'[Root] = gstate[Root]
    BY <1>2 DEF GroupDisappear, TypeOK
  <2>2. QED BY <1>2, <2>1 DEF GroupDisappear, RootInv
<1>3. ASSUME NEW h \in Groups, VisitGroup(h) PROVE RootInv'
  <2>1. gstate'[Root] = gstate[Root]
    BY <1>3 DEF VisitGroup, GroupsLeft, Children, TypeOK
  <2>2. QED BY <1>3, <2>1 DEF VisitGroup, RootInv
<1>4. CASE UiOn
  <2>1. gstate[Root] = "appear"
    BY <1>4 DEF UiOn, RootInv
  <2>2. QED BY <1>4, <2>1 DEF UiOn, RootInv, TypeOK
<1>5. CASE UiOff
  <2>1. gstate'[Root] = "appear"
    BY <1>5 DEF UiOff, RootInv, HiddenGroups, ChainOK
  <2>2. QED BY <1>5, <2>1 DEF UiOff, RootInv
<1>6. CASE UiRun
  <2>1. UNCHANGED <<chain, gstate, ui>>
    <3>1. CASE ui /\ gstate[Root] # "nothing"
      BY <1>6, <3>1 DEF UiRun, Fail
    <3>2. CASE ~(ui /\ gstate[Root] # "nothing")
      BY <1>6, <3>2 DEF UiRun
    <3>3. QED BY <3>1, <3>2
  <2>2. QED BY <2>1 DEF RootInv
<1>7. ASSUME NEW g \in Groups, NEW p \in Params, NEW t \in Types,
             ParamAppear(g, p, t)
      PROVE  RootInv'
  BY <1>7 DEF ParamAppear, RootInv
<1>8. ASSUME NEW p \in Params, NEW context \in BOOLEAN,
             \/ ParamDisappear(p) \/ ChangeRt(p) \/ ApplySet(p, context)
      PROVE  RootInv'
  BY <1>8 DEF ParamDisappear, ChangeRt, ApplySet, RootInv
<1>9. ASSUME NEW p \in Params,
             VisitAppearing(p) \/ VisitSettled(p) \/ VisitDisappearing(p)
      PROVE  RootInv'
  BY <1>9 DEF VisitAppearing, VisitSettled, VisitDisappearing, RootInv
<1>10. CASE Attach \/ Return
  BY <1>10 DEF Attach, Return, RootInv
<1>11. QED
  BY <1>1, <1>2, <1>3, <1>4, <1>5, <1>6, <1>7, <1>8, <1>9, <1>10
     DEF Next, Callback, Realtime, Walk

LEMMA DestroyStep == ASSUME IInv, DestroyInv, Next PROVE DestroyInv'
<1> USE DEF IInv, treeVars, pendVars
<1> SUFFICES ASSUME NEW p \in Params,
                    pstate'[p] = "disappear" \/ (pstate'[p] = "nothing" /\ p \in live')
             PROVE  contextSet'[p]
  BY DEF DestroyInv
<1>1. ASSUME NEW g \in Groups, NEW q \in Params, NEW t \in Types,
             ParamAppear(g, q, t)
      PROVE  contextSet'[p]
  BY <1>1 DEF ParamAppear, TypeOK, DestroyInv
<1>2. ASSUME NEW q \in Params, ParamDisappear(q) PROVE contextSet'[p]
  BY <1>2 DEF ParamDisappear, TypeOK, DestroyInv, Withdrawn
<1>3. ASSUME NEW q \in Params, VisitAppearing(q) PROVE contextSet'[p]
  <2>1. CASE p = q
    <3>1. CASE ~contextSet[q] /\ "no_callbacks" \in Env
      BY <1>3, <2>1, <3>1 DEF VisitAppearing
    <3>2. CASE ~(~contextSet[q] /\ "no_callbacks" \in Env)
      BY <1>3, <2>1, <3>2 DEF VisitAppearing, TypeOK
    <3>3. QED BY <3>1, <3>2
  <2>2. CASE p # q
    BY <1>3, <2>2 DEF VisitAppearing, TypeOK, DestroyInv
  <2>3. QED BY <2>1, <2>2
<1>4. ASSUME NEW q \in Params, VisitDisappearing(q) PROVE contextSet'[p]
  <2>1. CASE ~contextSet[q] /\ "no_callbacks" \notin Env
    BY <1>4, <2>1 DEF VisitDisappearing, DestroyInv
  <2>2. CASE ~(~contextSet[q] /\ "no_callbacks" \notin Env)
    <3>1. pstate'[q] \in {"lost", "free"}
      BY <1>4, <2>2 DEF VisitDisappearing, TypeOK, Freed
    <3>2. /\ p # q => pstate'[p] = pstate[p] /\ contextSet'[p] = contextSet[p]
          /\ live' = live
      BY <1>4, <2>2 DEF VisitDisappearing, TypeOK
    <3>3. QED BY <3>1, <3>2 DEF DestroyInv
  <2>3. QED BY <2>1, <2>2
<1>5. CASE UiOff
  BY <1>5 DEF UiOff, DestroyInv, HiddenParams
<1>6. ASSUME NEW par \in Groups, NEW g \in Groups,
             GroupAppear(par, g) \/ GroupDisappear(g)
      PROVE  contextSet'[p]
  <2>1. p # g
    BY ItemsAssumption
  <2>2. QED BY <1>6, <2>1 DEF GroupAppear, GroupDisappear, DestroyInv
<1>7. ASSUME NEW q \in Params, NEW context \in BOOLEAN,
             ChangeRt(q) \/ ApplySet(q, context) \/ VisitSettled(q)
      PROVE  contextSet'[p]
  BY <1>7 DEF ChangeRt, ApplySet, VisitSettled, DestroyInv
<1>8. CASE Attach \/ UiRun \/ UiOn \/ Return
  BY <1>8 DEF Attach, UiRun, UiOn, Return, Fail, DestroyInv
<1>9. ASSUME NEW h \in Groups, VisitGroup(h) PROVE contextSet'[p]
  BY <1>9 DEF VisitGroup, DestroyInv
<1>10. QED
  BY <1>1, <1>2, <1>3, <1>4, <1>5, <1>6, <1>7, <1>8, <1>9
     DEF Next, Callback, Realtime, Walk

LEMMA AssertStep == ASSUME IInv, AssertInv, Next PROVE AssertsHold'
<1> USE DEF IInv, AssertInv, AssertsHold
<1>1. ASSUME NEW g \in Groups, GroupDisappear(g) PROVE AssertsHold'
  <2>1. gstate[g] = "appear" => CanDescend(parent[g], 1)
    BY <1>1, GroupVisitCovered DEF GroupDisappear, TreeGroups, Pending
  <2>2. QED BY <1>1, <2>1 DEF GroupDisappear
<1>2. ASSUME NEW p \in Params, ParamDisappear(p) PROVE AssertsHold'
  <2>1. pstate[p] = "appear" => CanDescend(pgroup[p], 1)
    BY PendingPays DEF TreeParams, InTree, Pending
  <2>2. QED BY <1>2, <2>1 DEF ParamDisappear
<1>3. CASE UiRun
  BY <1>3 DEF UiRun, RootInv
<1>4. CASE UiOn
  BY <1>4 DEF UiOn, RootInv
<1>5. ASSUME NEW h \in Groups, VisitGroup(h) PROVE AssertsHold'
  <2>1. h \in TreeGroups \ {Root} /\ parent[h] = at
    BY <1>5 DEF VisitGroup, GroupsLeft, Children
  <2>2. gstate[h] = "appear" => CanDescend(at, 1)
    BY <2>1, GroupVisitCovered DEF Pending
  <2>3. QED BY <1>5, <2>2 DEF VisitGroup
<1>6. ASSUME NEW p \in Params, VisitAppearing(p) PROVE AssertsHold'
  <2>1. p \in TreeParams /\ pgroup[p] = at /\ pstate[p] = "appear"
    BY <1>6 DEF VisitAppearing, ParamsLeft, ParamsOf
  <2>2. CanDescend(at, One(contextChange[p]) + One(ui) + One(valueChange[p]))
    BY <2>1, PendingPays DEF TypeOK, Pending
  <2>3. QED BY <1>6, <2>2 DEF VisitAppearing, Pay
<1>7. ASSUME NEW p \in Params, VisitSettled(p) PROVE AssertsHold'
  <2>1. p \in TreeParams /\ pgroup[p] = at
    BY <1>7 DEF VisitSettled, ParamsLeft, ParamsOf
  <2>2. QED BY <1>7, <2>1, PendingPays DEF VisitSettled, Pay
<1>8. ASSUME NEW p \in Params, VisitDisappearing(p) PROVE AssertsHold'
  <2>1. p \in TreeParams /\ pgroup[p] = at /\ pstate[p] = "disappear"
    BY <1>8 DEF VisitDisappearing, ParamsLeft, ParamsOf
  <2>2. contextSet[p] /\ CanDescend(at, 1 + One(valueChange[p]))
    BY <1>8, <2>1, PendingPays DEF DestroyInv, Pending
  <2>3. QED BY <1>8, <2>2 DEF VisitDisappearing, Pay
<1>9. ASSUME UNCHANGED fault PROVE AssertsHold'
  BY <1>9
<1>10. CASE Return
  BY <1>10 DEF Return
<1>11. QED
  BY <1>1, <1>2, <1>3, <1>4, <1>5, <1>6, <1>7, <1>8, <1>9, <1>10
     DEF Next, Callback, Realtime, Walk, GroupAppear, ParamAppear, ChangeRt,
         ApplySet, Attach, UiOff

----------------------------------------------------------------------------
(* What the user interface has been told, compared with what the plugin has. *)

LEMMA InitViewInv == ASSUME Init PROVE ViewInv
<1> USE ItemsAssumption DEF Init
<1>1. ChainView
  BY DEF ChainView, TreeGroups
<1>2. ParamView
  BY DEF ParamView, ParamSeen, Items
<1>3. GroupView /\ WalkView
  BY DEF GroupView, GroupSeen, WalkView, Items
<1>4. QED BY <1>1, <1>2, <1>3 DEF ViewInv

\* A climb from a group of the tree is as settled after a step as before, when
\* no group of the tree becomes pending appear.
LEMMA SettledKept ==
  ASSUME IInv, NEW g \in TreeGroups, Settled(g), chain'[g] = chain[g],
         \A h \in TreeGroups : gstate'[h] = "appear" => gstate[h] = "appear"
  PROVE  Settled(g)'
BY DEF IInv, ChainOK, Settled

----------------------------------------------------------------------------
(* Every step preserves the parts of the invariant. *)

LEMMA ChainViewStep == ASSUME IInv, ViewInv, Next PROVE ChainView'
<1> USE DEF IInv, ViewInv, treeVars, pendVars, walkVars, instVars
<1>1. ASSUME NEW par \in Groups, NEW g \in Groups, GroupAppear(par, g)
      PROVE  ChainView'
  <2>1. /\ TreeGroups' = TreeGroups \cup {g} /\ g \notin TreeGroups
        /\ par \in TreeGroups
    BY <1>1 DEF GroupAppear, TypeOK, TreeGroups
  <2>2. /\ \A h \in Groups \ {g} : chain'[h] = chain[h] /\ parent'[h] = parent[h]
        /\ chain'[g] = chain[par] \cup {g} /\ parent'[g] = par
    BY <1>1 DEF GroupAppear, TypeOK
  <2>3. QED BY <2>1, <2>2 DEF ChainView, ChainOK, TreeGroups
<1>2. ASSUME UNCHANGED <<chain, parent>>, TreeGroups' = TreeGroups
      PROVE  ChainView'
  BY <1>2 DEF ChainView
<1>3. ASSUME NEW g \in Groups, GroupDisappear(g) PROVE ChainView'
  <2>1. TreeGroups' = TreeGroups
    BY <1>3 DEF GroupDisappear, TypeOK, TreeGroups
  <2>2. QED BY <1>3, <2>1, <1>2 DEF GroupDisappear
<1>4. ASSUME NEW h \in Groups, VisitGroup(h) PROVE ChainView'
  <2>1. TreeGroups' = TreeGroups
    BY <1>4 DEF VisitGroup, TypeOK, TreeGroups, GroupsLeft, Children
  <2>2. QED BY <1>4, <2>1, <1>2 DEF VisitGroup
<1>5. CASE UiOn
  <2>1. TreeGroups' = TreeGroups
    BY <1>5, ItemsAssumption DEF UiOn, Fail, TypeOK, TreeGroups
  <2>2. QED BY <1>5, <2>1, <1>2 DEF UiOn, Fail
<1>6. CASE UiOff
  <2>1. TreeGroups' = TreeGroups
    BY <1>6 DEF UiOff, TreeGroups, HiddenGroups
  <2>2. QED BY <1>6, <2>1, <1>2 DEF UiOff
<1>7. ASSUME UNCHANGED <<chain, parent, gstate>> PROVE ChainView'
  BY <1>7 DEF ChainView, TreeGroups
<1>8. QED
  BY <1>1, <1>3, <1>4, <1>5, <1>6, <1>7
     DEF Next, Callback, Realtime, Walk, ParamAppear, ParamDisappear, ChangeRt,
         ApplySet, Attach, UiRun, Fail, VisitAppearing, VisitSettled,
         VisitDisappearing, Return

\* Steps that leave a parameter alone preserve what is said of it.
LEMMA ParamKept ==
  ASSUME NEW p \in Params, ParamSeen(p),
         pstate'[p] = pstate[p], contextSet'[p] = contextSet[p],
         told'[p] = told[p], p \in live' <=> p \in live,
         Settled(pgroup[p]) => Settled(pgroup[p])'
  PROVE  ParamSeen(p)'
BY DEF ParamSeen, InTree

\* The climb from a parameter of the tree stays settled.
LEMMA ParamSettledKept ==
  ASSUME IInv, NEW p \in TreeParams, pgroup'[p] = pgroup[p],
         UNCHANGED chain,
         \A h \in TreeGroups : gstate'[h] = "appear" => gstate[h] = "appear"
  PROVE  Settled(pgroup[p]) => Settled(pgroup[p])'
BY SettledKept DEF IInv, ChainOK

LEMMA CallbackParamView ==
  ASSUME IInv, ParamView, NEW p \in Params, Callback PROVE ParamSeen(p)'
<1> USE DEF IInv, treeVars
<1>0. ParamSeen(p)
  BY DEF ParamView
<1>1. ASSUME NEW par \in Groups, NEW g \in Groups, GroupAppear(par, g)
      PROVE  ParamSeen(p)'
  <2>1. Settled(pgroup[p]) /\ p \in TreeParams => Settled(pgroup[p])'
    <3>1. p \in TreeParams => pgroup[p] # g
      BY <1>1 DEF GroupAppear, ChainOK, TreeGroups
    <3>2. p \in TreeParams => chain'[pgroup[p]] = chain[pgroup[p]] /\ g \notin chain[pgroup[p]]
      BY <1>1, <3>1 DEF GroupAppear, ChainOK, TypeOK, TreeGroups
    <3>3. QED BY <1>1, <3>2 DEF GroupAppear, Settled, TypeOK
  <2>2. p \notin TreeParams => ~ (told[p] = 1)
    BY <1>0 DEF ParamSeen, TreeParams
  <2>3. p # g
    BY ItemsAssumption
  <2>4. QED BY <1>0, <1>1, <2>1, <2>2, <2>3 DEF GroupAppear, ParamSeen, InTree
<1>2. ASSUME NEW g \in Groups, GroupDisappear(g) PROVE ParamSeen(p)'
  <2>1. \A h \in Groups : gstate'[h] = "appear" => gstate[h] = "appear"
    BY <1>2 DEF GroupDisappear, TypeOK
  <2>2. Settled(pgroup[p]) => Settled(pgroup[p])'
    BY <1>2, <2>1 DEF Settled, GroupDisappear, TypeOK
  <2>3. p # g
    BY ItemsAssumption
  <2>4. p \in live' <=> p \in live
    BY <1>2, <2>3 DEF GroupDisappear
  <2>5. QED BY <1>0, <1>2, <2>2, <2>4, ParamKept DEF GroupDisappear
<1>3. ASSUME NEW g \in Groups, NEW q \in Params, NEW t \in Types,
             ParamAppear(g, q, t)
      PROVE  ParamSeen(p)'
  <2>1. CASE p = q
    <3>1. told[p] = 0
      BY <1>0, <1>3, <2>1 DEF ParamAppear, ParamSeen
    <3>2. pstate'[p] = "appear" /\ contextSet'[p] = FALSE /\ told'[p] = 0
      BY <1>3, <2>1, <3>1 DEF ParamAppear, TypeOK
    <3>3. QED BY <3>2 DEF ParamSeen
  <2>2. CASE p # q
    <3>1. /\ pstate'[p] = pstate[p] /\ contextSet'[p] = contextSet[p]
          /\ told'[p] = told[p] /\ (p \in live' <=> p \in live)
          /\ pgroup'[p] = pgroup[p] /\ UNCHANGED <<chain, gstate>>
      BY <1>3, <2>2 DEF ParamAppear, TypeOK
    <3>2. Settled(pgroup[p]) => Settled(pgroup[p])'
      BY <3>1 DEF Settled
    <3>3. QED BY <1>0, <3>1, <3>2, ParamKept
  <2>3. QED BY <2>1, <2>2
<1>4. ASSUME NEW q \in Params, ParamDisappear(q) PROVE ParamSeen(p)'
  <2>1. Settled(pgroup[p]) => Settled(pgroup[p])'
    BY <1>4 DEF Settled, ParamDisappear
  <2>2. CASE p # q
    <3>1. /\ pstate'[p] = pstate[p] /\ contextSet'[p] = contextSet[p]
          /\ told'[p] = told[p] /\ (p \in live' <=> p \in live)
      BY <1>4, <2>2 DEF ParamDisappear, TypeOK
    <3>2. QED BY <1>0, <2>1, <3>1, ParamKept
  <2>3. CASE p = q
    <3>1. UNCHANGED <<told, contextSet, pgroup>>
      BY <1>4 DEF ParamDisappear
    <3>2. CASE fault' = "count_underflow"
      BY <1>0, <1>4, <2>1, <2>3, <3>1, <3>2, ParamKept
         DEF ParamDisappear, CallbackTime, Running
    <3>3. CASE pstate[p] = "appear" /\ fault' # "count_underflow"
      <4>1. pstate'[p] = "nothing" /\ p \notin live'
        BY <1>4, <2>3, <3>3 DEF ParamDisappear, TypeOK, Withdrawn
      <4>2. QED BY <1>0, <2>1, <3>1, <3>3, <4>1 DEF ParamSeen, InTree
    <3>4. CASE pstate[p] = "nothing" /\ fault' # "count_underflow"
      <4>1. pstate'[p] = "disappear" /\ p \notin live' /\ p \in live
        BY <1>4, <2>3, <3>4 DEF ParamDisappear, TypeOK
      <4>2. QED BY <1>0, <2>1, <3>1, <3>4, <4>1 DEF ParamSeen, InTree
    <3>5. QED BY <1>4, <2>3, <3>2, <3>3, <3>4 DEF ParamDisappear
  <2>4. QED BY <2>2, <2>3
<1>5. QED BY <1>1, <1>2, <1>3, <1>4 DEF Callback

\* With the interface on a walk visits a parameter below settled groups only.
LEMMA VisitSettledBelow ==
  ASSUME IInv, WalkView, NEW p \in ParamsLeft(at), KeepWalking, ui
  PROVE  Settled(pgroup[p]) /\ p \in TreeParams
BY DEF ParamsLeft, ParamsOf, KeepWalking, WalkView

LEMMA VisitParamView ==
  ASSUME IInv, ViewInv, RootInv, NEW p \in Params, NEW q \in Params,
         VisitAppearing(q) \/ VisitSettled(q) \/ VisitDisappearing(q)
  PROVE  ParamSeen(p)'
<1> USE DEF IInv, treeVars
<1>0. ParamSeen(p)
  BY DEF ViewInv, ParamView
<1>1. /\ UNCHANGED <<chain, gstate, pgroup, live, ui>>
      /\ Settled(pgroup[p]) => Settled(pgroup[p])'
  <2>1. UNCHANGED <<chain, gstate, pgroup, live, ui>>
    BY DEF VisitAppearing, VisitSettled, VisitDisappearing, instVars
  <2>2. QED BY <2>1 DEF Settled
<1>2. CASE p # q
  <2>1. /\ pstate'[p] = pstate[p] /\ contextSet'[p] = contextSet[p]
        /\ told'[p] = told[p]
    BY <1>2 DEF VisitAppearing, VisitSettled, VisitDisappearing, TypeOK, Items
  <2>2. QED BY <1>0, <1>1, <2>1, ParamKept
<1>3. CASE VisitSettled(q)
  BY <1>0, <1>1, <1>3, ParamKept DEF VisitSettled
<1>4. CASE VisitAppearing(q) /\ p = q
  <2>1. pstate[p] = "appear" /\ p \in ParamsLeft(at) /\ KeepWalking
    BY <1>4 DEF VisitAppearing
  <2>2. CASE ~contextSet[p] /\ "no_callbacks" \in Env
    BY <1>0, <1>1, <1>4, <2>2, ParamKept DEF VisitAppearing
  <2>3. CASE ~(~contextSet[p] /\ "no_callbacks" \in Env)
    <3>1. "no_callbacks" \notin Env
      BY <1>0, <2>3 DEF ParamSeen
    <3>2. told[p] <= 0 /\ told[p] \in Int /\ (p \in live => told[p] = 0)
      BY <1>0, <2>1, ItemsAssumption DEF ParamSeen, TypeOK, Items
    <3>3. /\ contextSet'[p] = TRUE
          /\ pstate'[p] = IF ui THEN "nothing" ELSE "appear"
          /\ told'[p] = IF ui THEN told[p] + 1 ELSE told[p]
      <4>1. p \in Items
        BY DEF Items
      <4>2. QED BY <1>4, <2>1, <2>3, <4>1 DEF VisitAppearing, TypeOK, Appeared
    <3>4. ui => Settled(pgroup[p])'
      BY <1>1, <2>1, VisitSettledBelow DEF ViewInv
    <3>5. CASE ui
      <4>1. /\ contextSet'[p] = TRUE /\ pstate'[p] = "nothing"
            /\ told'[p] = told[p] + 1 /\ Settled(pgroup[p])'
        BY <3>3, <3>4, <3>5
      <4>2. told'[p] <= 1 /\ (p \in live => told'[p] = 1)
        BY <3>2, <4>1
      <4>3. QED BY <1>1, <3>1, <4>1, <4>2 DEF ParamSeen, InTree
    <3>6. CASE ~ui
      <4>1. contextSet'[p] = TRUE /\ pstate'[p] = "appear" /\ told'[p] = told[p]
        BY <3>3, <3>6
      <4>2. QED BY <1>1, <3>1, <3>2, <4>1 DEF ParamSeen, InTree
    <3>7. QED BY <3>5, <3>6
  <2>4. QED BY <2>2, <2>3
<1>5. CASE VisitDisappearing(q) /\ p = q
  <2>1. pstate[p] = "disappear" /\ p \in ParamsLeft(at) /\ KeepWalking
    BY <1>5 DEF VisitDisappearing
  <2>2. told[p] = 1 /\ contextSet[p] /\ p \notin live /\ "no_callbacks" \notin Env
    BY <1>0, <2>1 DEF ParamSeen
  <2>3. ui
    <3>1. Settled(pgroup[p]) /\ p \in TreeParams
      BY <1>0, <2>1, <2>2 DEF ParamSeen, ParamsLeft, ParamsOf
    <3>2. gstate[Root] # "appear"
      BY <3>1 DEF Settled, ViewInv, ChainView, ChainOK
    <3>3. QED BY <3>2 DEF RootInv
  <2>4. /\ contextSet'[p] = FALSE /\ pstate'[p] \in {"free", "lost"}
        /\ told'[p] = told[p] - 1
    <3>1. p \in Items
      BY DEF Items
    <3>2. QED
      BY <1>5, <2>2, <2>3, <3>1
         DEF VisitDisappearing, TypeOK, Freed, ContextAfterDestroy
  <2>5. told'[p] = 0
    BY <2>2, <2>4
  <2>6. QED BY <1>1, <2>2, <2>4, <2>5 DEF ParamSeen
<1>6. QED BY <1>2, <1>3, <1>4, <1>5

\* ui_off takes from the interface every parameter it has.
LEMMA HiddenWhenShown ==
  ASSUME IInv, NEW p \in Params, ParamSeen(p), told[p] = 1
  PROVE  p \in HiddenParams
BY DEF ParamSeen, HiddenParams, HiddenGroups, TreeParams, InTree, Settled, IInv,
       ChainOK

LEMMA ParamViewStep ==
  ASSUME IInv, ViewInv, RootInv, Next PROVE ParamView'
<1> USE DEF IInv, treeVars, pendVars, walkVars, instVars
<1> SUFFICES ASSUME NEW p \in Params PROVE ParamSeen(p)'
  BY DEF ParamView
<1>0. ParamSeen(p) /\ p \in Items
  BY DEF ViewInv, ParamView, Items
<1>1. CASE Callback
  BY <1>1, CallbackParamView DEF ViewInv
<1>2. ASSUME NEW q \in Params,
             VisitAppearing(q) \/ VisitSettled(q) \/ VisitDisappearing(q)
      PROVE  ParamSeen(p)'
  BY <1>2, VisitParamView
<1>3. ASSUME UNCHANGED <<chain, gstate, pgroup, pstate, contextSet, told, live>>
      PROVE  ParamSeen(p)'
  BY <1>0, <1>3, ParamKept DEF Settled
<1>4. ASSUME NEW h \in Groups, VisitGroup(h) PROVE ParamSeen(p)'
  <2>1. \A g \in Groups : gstate'[g] = "appear" => gstate[g] = "appear"
    BY <1>4 DEF VisitGroup, TypeOK
  <2>2. Settled(pgroup[p]) => Settled(pgroup[p])'
    BY <1>4, <2>1 DEF Settled, VisitGroup, TypeOK
  <2>3. told'[p] = told[p]
    <3>1. p # h
      BY ItemsAssumption
    <3>2. QED BY <1>0, <1>4, <3>1 DEF VisitGroup, GroupAnnounced, TypeOK
  <2>4. QED BY <1>0, <1>4, <2>2, <2>3, ParamKept DEF VisitGroup
<1>5. CASE UiOn
  <2>1. CASE gstate[Root] = "appear"
    <3>1. \A g \in Groups : gstate'[g] = "appear" => gstate[g] = "appear"
      BY <1>5, <2>1 DEF UiOn, TypeOK
    <3>2. Settled(pgroup[p]) => Settled(pgroup[p])'
      BY <1>5, <2>1, <3>1 DEF Settled, UiOn, TypeOK
    <3>3. told'[p] = told[p]
      BY <1>0, <1>5, <2>1, ItemsAssumption DEF UiOn, GroupAnnounced, TypeOK
    <3>4. QED BY <1>0, <1>5, <2>1, <3>2, <3>3, ParamKept DEF UiOn
  <2>2. CASE gstate[Root] # "appear"
    BY <1>3, <1>5, <2>2 DEF UiOn, Fail
  <2>3. QED BY <2>1, <2>2
<1>6. CASE UiOff
  <2>1. UNCHANGED <<chain, pgroup, contextSet, live>>
    BY <1>6 DEF UiOff
  <2>2. p \notin HiddenGroups
    BY ItemsAssumption DEF HiddenGroups, TreeGroups
  <2>3. CASE p \in HiddenParams
    <3>1. pstate'[p] = "appear" /\ told'[p] = told[p] - 1
      BY <1>0, <1>6, <2>3 DEF UiOff
    <3>2. pstate[p] # "appear" /\ InTree(p) /\ told[p] \in Int
      BY <1>0, <2>3 DEF HiddenParams, TreeParams, TypeOK
    <3>3. told'[p] <= 0 /\ told'[p] \in Int /\ (p \in live => told'[p] = 0)
      BY <1>0, <3>1, <3>2 DEF ParamSeen
    <3>4. QED BY <1>0, <2>1, <3>1, <3>3 DEF ParamSeen, InTree
  <2>4. CASE p \notin HiddenParams
    <3>1. pstate'[p] = pstate[p] /\ told'[p] = told[p]
      BY <1>0, <1>6, <2>2, <2>4 DEF UiOff
    <3>2. told[p] # 1
      BY <1>0, <2>4, HiddenWhenShown
    <3>3. QED BY <1>0, <2>1, <3>1, <3>2 DEF ParamSeen, InTree
  <2>5. QED BY <2>3, <2>4
<1>7. QED
  BY <1>1, <1>2, <1>3, <1>4, <1>5, <1>6
     DEF Next, Realtime, Walk, ChangeRt, ApplySet, Attach, UiRun, Fail, Return

\* Steps that leave a group alone preserve what is said of it.
LEMMA GroupKept ==
  ASSUME NEW g \in Groups, GroupSeen(g),
         gstate'[g] = gstate[g], told'[g] = told[g], g \in live' => g \in live,
         Settled(g) /\ g \in live /\ gstate[g] = "nothing" => Settled(g)'
  PROVE  GroupSeen(g)'
BY DEF GroupSeen

LEMMA GroupViewStep ==
  ASSUME IInv, ViewInv, RootInv, Next PROVE GroupView'
<1> USE DEF IInv, treeVars, pendVars, walkVars, instVars
<1> SUFFICES ASSUME NEW g \in Groups PROVE GroupSeen(g)'
  BY DEF GroupView
<1>0. g \in Items /\ GroupSeen(g)
  BY DEF ViewInv, GroupView, Items
<1>1. ASSUME NEW par \in Groups, NEW h \in Groups, GroupAppear(par, h)
      PROVE  GroupSeen(g)'
  <2>1. CASE g = h
    <3>1. gstate[g] = "free" /\ gstate'[g] = "appear" /\ told'[g] = told[g]
      BY <1>1, <2>1 DEF GroupAppear, TypeOK
    <3>2. QED BY <1>0, <3>1 DEF GroupSeen
  <2>2. CASE g # h
    <3>1. /\ gstate'[g] = gstate[g] /\ told'[g] = told[g]
          /\ chain'[g] = chain[g] /\ (g \in live' => g \in live)
      BY <1>1, <2>2 DEF GroupAppear, TypeOK
    <3>2. g \in TreeGroups => h \notin chain[g]
      BY <1>1 DEF GroupAppear, ChainOK, TreeGroups
    <3>3. Settled(g) /\ g \in TreeGroups => Settled(g)'
      BY <1>1, <3>1, <3>2 DEF GroupAppear, Settled, TypeOK
    <3>4. QED BY <1>0, <3>1, <3>3, GroupKept DEF TreeGroups
  <2>3. QED BY <2>1, <2>2
<1>2. ASSUME NEW h \in Groups, GroupDisappear(h) PROVE GroupSeen(g)'
  <2>1. \A f \in Groups : gstate'[f] = "appear" => gstate[f] = "appear"
    BY <1>2 DEF GroupDisappear, TypeOK
  <2>2. Settled(g) => Settled(g)'
    BY <1>2, <2>1 DEF Settled, GroupDisappear, TypeOK
  <2>3. CASE g # h \/ fault' = "count_underflow"
    <3>1. gstate'[g] = gstate[g] /\ (g \in live' => g \in live)
      BY <1>2, <2>3 DEF GroupDisappear, TypeOK, CallbackTime, Running
    <3>2. QED BY <1>0, <1>2, <2>2, <3>1, GroupKept DEF GroupDisappear
  <2>4. CASE g = h /\ fault' # "count_underflow"
    <3>1. g \notin live' /\ gstate'[g] # "free"
      BY <1>2, <2>4 DEF GroupDisappear, TypeOK
    <3>2. QED BY <3>1 DEF GroupSeen
  <2>5. QED BY <2>3, <2>4
<1>3. ASSUME UNCHANGED <<chain, gstate>>, told'[g] = told[g],
             g \in live' => g \in live
      PROVE  GroupSeen(g)'
  BY <1>0, <1>3, GroupKept DEF Settled
<1>4. ASSUME NEW h \in Groups, NEW q \in Params, NEW t \in Types,
             ParamAppear(h, q, t) \/ ParamDisappear(q)
      PROVE  GroupSeen(g)'
  <2>1. g # q
    BY ItemsAssumption
  <2>2. QED BY <1>3, <1>4, <2>1 DEF ParamAppear, ParamDisappear
<1>5. ASSUME NEW q \in Params,
             VisitAppearing(q) \/ VisitSettled(q) \/ VisitDisappearing(q)
      PROVE  GroupSeen(g)'
  <2>1. g # q
    BY ItemsAssumption
  <2>2. told'[g] = told[g]
    BY <1>0, <1>5, <2>1
       DEF VisitAppearing, VisitSettled, VisitDisappearing, TypeOK
  <2>3. QED
    BY <1>3, <1>5, <2>2 DEF VisitAppearing, VisitSettled, VisitDisappearing
<1>6. ASSUME NEW h \in Groups, VisitGroup(h) PROVE GroupSeen(g)'
  <2>1. \A f \in Groups : gstate'[f] = "appear" => gstate[f] = "appear"
    BY <1>6 DEF VisitGroup, TypeOK
  <2>2. Settled(g) => Settled(g)'
    BY <1>6, <2>1 DEF Settled, VisitGroup, TypeOK
  <2>3. CASE g = h /\ gstate[h] = "appear" /\ ui /\ CanDescend(at, 1)
    <3>1. gstate'[g] = "nothing" /\ told'[g] = told[g] + 1 /\ UNCHANGED <<live, chain>>
      BY <1>0, <1>6, <2>3 DEF VisitGroup, GroupAnnounced, TypeOK
    <3>2. g \in live => told'[g] = 1
      BY <1>0, <2>3, <3>1 DEF GroupSeen
    <3>3. chain[g] = chain[at] \cup {g}
      BY <1>6, <2>3
         DEF VisitGroup, GroupsLeft, Children, ViewInv, ChainView
    <3>4. Settled(at)
      BY <1>6, <2>3 DEF VisitGroup, KeepWalking, ViewInv, WalkView
    <3>5. Settled(g)'
      BY <2>1, <3>1, <3>3, <3>4 DEF Settled, WalkOK, TypeOK
    <3>6. QED BY <3>1, <3>2, <3>5 DEF GroupSeen
  <2>4. CASE ~(g = h /\ gstate[h] = "appear" /\ ui /\ CanDescend(at, 1))
    <3>1. gstate'[g] = gstate[g] /\ told'[g] = told[g]
      BY <1>0, <1>6, <2>4 DEF VisitGroup, GroupAnnounced, TypeOK
    <3>2. QED BY <1>0, <1>6, <2>2, <3>1, GroupKept DEF VisitGroup
  <2>5. QED BY <2>3, <2>4
<1>7. CASE UiOn
  <2>1. CASE gstate[Root] # "appear"
    BY <1>3, <1>7, <2>1 DEF UiOn, Fail
  <2>2. CASE gstate[Root] = "appear"
    <3>1. \A f \in Groups : gstate'[f] = "appear" => gstate[f] = "appear"
      BY <1>7, <2>2 DEF UiOn, TypeOK
    <3>2. Settled(g) => Settled(g)'
      BY <1>7, <2>2, <3>1 DEF Settled, UiOn, TypeOK
    <3>3. CASE g # Root
      BY <1>0, <1>7, <2>2, <3>2, <3>3, GroupKept DEF UiOn, GroupAnnounced, TypeOK
    <3>4. CASE g = Root
      <4>1. gstate'[g] = "nothing" /\ told'[g] = told[g] + 1 /\ UNCHANGED <<live, chain>>
        BY <1>0, <1>7, <2>2, <3>4 DEF UiOn, GroupAnnounced, TypeOK
      <4>2. g \in live => told'[g] = 1
        BY <1>0, <2>2, <3>4, <4>1 DEF GroupSeen
      <4>3. Settled(g)'
        BY <3>4, <4>1 DEF Settled, RootInv
      <4>4. QED BY <4>1, <4>2, <4>3 DEF GroupSeen
    <3>5. QED BY <3>3, <3>4
  <2>3. QED BY <2>1, <2>2
<1>8. CASE UiOff
  <2>1. UNCHANGED <<chain, live>>
    BY <1>8 DEF UiOff
  <2>2. CASE g \in HiddenGroups
    <3>1. gstate'[g] = "appear" /\ told'[g] = told[g] - 1
      BY <1>0, <1>8, <2>2 DEF UiOff
    <3>2. gstate[g] # "appear"
      BY <2>2 DEF HiddenGroups, ChainOK
    <3>3. g \in live => told'[g] = 0
      BY <1>0, <3>1, <3>2 DEF GroupSeen
    <3>4. QED BY <2>1, <3>1, <3>3 DEF GroupSeen
  <2>3. CASE g \notin HiddenGroups
    <3>1. g \notin HiddenParams
      BY ItemsAssumption DEF HiddenParams, TreeParams
    <3>2. gstate'[g] = gstate[g] /\ told'[g] = told[g]
      BY <1>0, <1>8, <2>3, <3>1 DEF UiOff
    <3>3. ~(Settled(g) /\ gstate[g] = "nothing")
      BY <2>3 DEF HiddenGroups, Settled, TreeGroups
    <3>4. QED BY <1>0, <2>1, <3>2, <3>3, GroupKept
  <2>4. QED BY <2>2, <2>3
<1>9. ASSUME NEW q \in Params, NEW context \in BOOLEAN,
             ChangeRt(q) \/ ApplySet(q, context)
      PROVE  GroupSeen(g)'
  BY <1>3, <1>9 DEF ChangeRt, ApplySet
<1>10. CASE Attach \/ UiRun \/ Return
  BY <1>3, <1>10 DEF Attach, UiRun, Fail, Return
<1>11. CASE Callback
  BY <1>1, <1>2, <1>4, <1>11 DEF Callback, Types
<1>12. CASE Realtime
  BY <1>9, <1>12 DEF Realtime
<1>13. CASE Walk
  BY <1>5, <1>6, <1>10, <1>13 DEF Walk
<1>14. QED BY <1>7, <1>8, <1>10, <1>11, <1>12, <1>13 DEF Next

LEMMA WalkViewStep ==
  ASSUME IInv, ViewInv, RootInv, Next PROVE WalkView'
<1> USE DEF IInv, treeVars, pendVars, walkVars, instVars
<1> SUFFICES ASSUME ui', at' # NoGroup PROVE Settled(at)'
  BY DEF WalkView
<1>1. ASSUME UNCHANGED <<chain, gstate, ui, at>> PROVE Settled(at)'
  BY <1>1 DEF ViewInv, WalkView, Settled
<1>2. CASE Callback
  <2>1. at' = NoGroup
    BY <1>2
       DEF Callback, GroupAppear, GroupDisappear, ParamAppear, ParamDisappear,
           CallbackTime, Idle
  <2>2. QED BY <2>1
<1>3. CASE UiRun
  <2>1. CASE ui /\ gstate[Root] # "nothing"
    BY <1>1, <1>3, <2>1 DEF UiRun, Fail
  <2>2. CASE ~(ui /\ gstate[Root] # "nothing")
    BY <1>3, <2>2 DEF UiRun, StartWalk, Settled, RootInv
  <2>3. QED BY <2>1, <2>2
<1>4. CASE UiOn
  <2>1. CASE gstate[Root] # "appear"
    BY <1>1, <1>4, <2>1 DEF UiOn, Fail
  <2>2. CASE gstate[Root] = "appear"
    BY <1>4, <2>2, ItemsAssumption DEF UiOn, StartWalk, Settled, RootInv, TypeOK
  <2>3. QED BY <2>1, <2>2
<1>5. ASSUME NEW h \in Groups, VisitGroup(h) PROVE Settled(at)'
  <2>1. Settled(at) /\ ui
    BY <1>5 DEF VisitGroup, KeepWalking, ViewInv, WalkView
  <2>2. h \in TreeGroups \ {Root} /\ chain[h] = chain[at] \cup {h}
    BY <1>5 DEF VisitGroup, GroupsLeft, Children, ViewInv, ChainView
  <2>3. /\ UNCHANGED chain
        /\ \A f \in Groups : gstate'[f] = "appear" => gstate[f] = "appear"
    BY <1>5 DEF VisitGroup, TypeOK
  <2>4. at' = at \/ (at' = h /\ gstate'[h] # "appear")
    BY <1>5, <2>1 DEF VisitGroup, Descend, TypeOK
  <2>5. QED BY <2>1, <2>2, <2>3, <2>4 DEF Settled, TypeOK
<1>6. ASSUME NEW q \in Params,
             VisitAppearing(q) \/ VisitSettled(q) \/ VisitDisappearing(q)
      PROVE  Settled(at)'
  BY <1>1, <1>6 DEF VisitAppearing, VisitSettled, VisitDisappearing
<1>7. CASE Return
  <2>1. CASE at' = at
    BY <1>1, <1>7, <2>1 DEF Return
  <2>2. CASE at' = parent[at] /\ at # Root
    <3>1. at \in TreeGroups /\ chain[parent[at]] \subseteq chain[at]
      BY <1>7, <2>2 DEF Return, WalkOK, ChainOK
    <3>2. Settled(at)
      BY <1>7 DEF Return, ViewInv, WalkView
    <3>3. QED BY <1>7, <2>2, <3>1, <3>2 DEF Return, Settled
  <2>3. QED BY <1>7, <2>1, <2>2 DEF Return
<1>8. ASSUME NEW q \in Params, NEW context \in BOOLEAN,
             ChangeRt(q) \/ ApplySet(q, context)
      PROVE  Settled(at)'
  BY <1>1, <1>8 DEF ChangeRt, ApplySet
<1>9. CASE Attach
  BY <1>1, <1>9 DEF Attach
<1>10. CASE UiOff
  BY <1>10 DEF UiOff
<1>11. QED
  BY <1>2, <1>3, <1>4, <1>5, <1>6, <1>7, <1>8, <1>9, <1>10
     DEF Next, Realtime, Walk

----------------------------------------------------------------------------
(* The invariant holds, and what follows from it. *)

\* What the interface has been told agrees with the tree, and the counters with
\* what is pending, in every reachable state.  Each needs the other: that no
\* context is left behind in a freed chunk is seen from the interface being on.
THEOREM InvariantHolds ==
  ASSUME Orderly PROVE Spec => [](IInv /\ RootInv /\ ViewInv)
<1>1. Init => IInv /\ RootInv /\ ViewInv
  BY InitIInv, InitAssertInv, InitViewInv DEF AssertInv
<1>2. IInv /\ RootInv /\ ViewInv /\ [Next]_vars => (IInv /\ RootInv /\ ViewInv)'
  <2>1. ASSUME IInv, RootInv, ViewInv, Next PROVE IInv' /\ RootInv' /\ ViewInv'
    BY <2>1, StepIInv, RootStep, ChainViewStep, ParamViewStep, GroupViewStep,
       WalkViewStep DEF ViewInv
  <2>2. ASSUME IInv, RootInv, ViewInv, UNCHANGED vars
        PROVE  IInv' /\ RootInv' /\ ViewInv'
    <3>1. IInv'
      BY <2>2, StutterIInv
    <3>2. RootInv' /\ ViewInv'
      BY <2>2 DEF vars, treeVars, pendVars, walkVars, instVars, RootInv, ViewInv,
         ChainView, ParamView, ParamSeen, GroupView, GroupSeen, WalkView, Settled,
         TreeGroups, InTree
    <3>3. QED BY <3>1, <3>2
  <2>3. QED BY <2>1, <2>2
<1>3. QED BY <1>1, <1>2, PTL DEF Spec

\* The variables keep their types; in particular no counter of
\* pending_childern_count becomes negative.
THEOREM TypeCorrect == ASSUME Orderly PROVE Spec => []TypeOK
<1>1. IInv => TypeOK
  BY DEF IInv
<1>2. QED BY <1>1, InvariantHolds, PTL

\* However many groups and parameters there are, and whatever the plugin adds
\* and removes and whenever the interface is turned on and off, no counter of
\* host.c is smaller than what is pending at and below its group, so that the
\* walk of lv2dynparam_host_notify skips nothing.
THEOREM NothingSkipped == ASSUME Orderly PROVE Spec => []CountCovers
<1>1. IInv => CountCovers
  BY DebtOwed, PendingCards DEF IInv, TypeOK, DebtCovers, CountCovers
<1>2. QED BY <1>1, InvariantHolds, PTL

\* The counters never go below zero (host.c:294), the root is pending exactly
\* while the interface is off (1231, 1265) and only a parameter with a context
\* reaches the destroying callback (602), for any tree and any plugin.
THEOREM AssertsNeverFail == ASSUME Orderly PROVE Spec => []AssertsHold
<1>1. Init => AssertInv
  BY InitAssertInv
<1>2. IInv /\ AssertInv /\ [Next]_vars => AssertInv'
  <2>1. ASSUME IInv, AssertInv, Next PROVE AssertInv'
    BY <2>1, RootStep, DestroyStep, AssertStep DEF AssertInv
  <2>2. ASSUME AssertInv, UNCHANGED vars PROVE AssertInv'
    BY <2>2 DEF AssertInv, AssertsHold, RootInv, DestroyInv, vars, treeVars,
       pendVars, instVars
  <2>3. QED BY <2>1, <2>2
<1>3. AssertInv => AssertsHold
  BY DEF AssertInv
<1>4. QED BY <1>1, <1>2, <1>3, InvariantHolds, PTL DEF Spec

\* The program holds a context exactly for parameters of the tree, and holds it
\* before the interface is shown the parameter, for any plugin and however often
\* the interface is turned off (host.c:573, 602).
THEOREM ContextsLast == ASSUME Orderly PROVE Spec => []ContextLifetime
<1>1. ViewInv => ContextLifetime
  BY DEF ViewInv, ParamView, ParamSeen, ContextLifetime, Shown
<1>2. QED BY <1>1, InvariantHolds, PTL

\* When the root's counter is zero nothing is pending in the whole tree.
LEMMA NothingPending ==
  ASSUME IInv, ViewInv, count[Root] = 0
  PROVE  /\ \A g \in TreeGroups \ {Root} : gstate[g] \notin Pending
         /\ \A p \in TreeParams : pstate[p] \notin Pending
<1> USE DEF IInv
<1>1. Debt(Root) = 0
  BY PendingCards, ItemsAssumption DEF DebtCovers, TypeOK
<1>2. /\ Cardinality(GroupPending(Root)) = 0
      /\ Cardinality(ParamPending(Root)) = 0
  BY <1>1, PendingCards DEF Debt
<1>3. GroupPending(Root) = {} /\ ParamPending(Root) = {}
  BY <1>2, PendingFinite, CardHas
<1>4. ASSUME NEW g \in TreeGroups \ {Root}, gstate[g] \in Pending PROVE FALSE
  <2>1. Root \in chain[parent[g]]
    BY DEF ViewInv, ChainView, ChainOK
  <2>2. QED BY <1>3, <1>4, <2>1 DEF GroupPending, TreeGroups
<1>5. ASSUME NEW p \in TreeParams, pstate[p] \in Pending PROVE FALSE
  <2>1. Root \in chain[pgroup[p]]
    BY DEF ViewInv, ChainView, ChainOK
  <2>2. QED BY <1>3, <1>5, <2>1 DEF ParamPending, TreeParams
<1>6. QED BY <1>4, <1>5

\* Once a walk has brought the root's counter to zero the interface has every
\* group and parameter that the plugin owns: for any tree, any order of adding
\* and removing and any number of ui_off and ui_on, the pruned walk of
\* lv2dynparam_host_notify has missed nothing.
THEOREM LiveIsShown == ASSUME Orderly PROVE Spec => []LiveShown
<1>1. IInv /\ RootInv /\ ViewInv => LiveShown
  <2> SUFFICES ASSUME IInv, RootInv, ViewInv, ui, count[Root] = 0,
                      NEW x \in live
               PROVE  told[x] = 1
    BY DEF LiveShown, Shown
  <2>1. CASE x \in Params
    BY <2>1, NothingPending
       DEF ViewInv, ParamView, ParamSeen, TreeParams, InTree, Pending
  <2>2. CASE x \in Groups
    <3>1. x \in TreeGroups /\ GroupSeen(x)
      BY <2>2 DEF ViewInv, GroupView, GroupSeen, TreeGroups
    <3>2. gstate[x] # "appear"
      BY <3>1, NothingPending DEF RootInv, Pending
    <3>3. QED BY <3>2, <3>1 DEF GroupSeen
  <2>3. QED BY <2>1, <2>2 DEF IInv, TypeOK, Items
<1>2. QED BY <1>1, InvariantHolds, PTL

----------------------------------------------------------------------------
(* A program that never turns its interface off. *)

Steady == Orderly /\ "hides" \notin Env

\* The interface has what the plugin has removed exactly while it has to be
\* told, and what the plugin keeps is in a group that it keeps.
ParamGone(p) ==
  /\ p \notin live => /\ pstate[p] # "appear"
                      /\ told[p] = IF pstate[p] = "disappear" THEN 1 ELSE 0
  /\ p \in live => pgroup[p] \in live
GroupGone(g) ==
  /\ g \notin live => /\ gstate[g] # "appear"
                      /\ told[g] = IF gstate[g] = "disappear" THEN 1 ELSE 0
  /\ g \in live \ {Root} => parent[g] \in live
SteadyView == /\ \A p \in Params : ParamGone(p)
              /\ \A g \in Groups : GroupGone(g)

LEMMA InitSteadyView == ASSUME Init PROVE SteadyView
<1> USE ItemsAssumption DEF Init, Items
<1>1. ASSUME NEW p \in Params PROVE ParamGone(p)
  BY DEF ParamGone
<1>2. ASSUME NEW g \in Groups PROVE GroupGone(g)
  BY DEF GroupGone
<1>3. QED BY <1>1, <1>2 DEF SteadyView

LEMMA ParamGoneStep ==
  ASSUME IInv, ViewInv, RootInv, SteadyView, Steady, Next, NEW p \in Params
  PROVE  ParamGone(p)'
<1> USE DEF IInv, treeVars, pendVars, walkVars, instVars
<1>0. ParamGone(p) /\ ParamSeen(p) /\ p \in Items
  BY DEF SteadyView, ViewInv, ParamView, Items
<1>1. ASSUME pstate'[p] = pstate[p], told'[p] = told[p], pgroup'[p] = pgroup[p],
             p \in live' <=> p \in live,
             p \in live => pgroup[p] \in live'
      PROVE  ParamGone(p)'
  BY <1>0, <1>1 DEF ParamGone
<1>2. ASSUME NEW par \in Groups, NEW g \in Groups, GroupAppear(par, g)
      PROVE  ParamGone(p)'
  <2>1. p # g
    BY ItemsAssumption
  <2>2. QED BY <1>0, <1>1, <1>2, <2>1 DEF GroupAppear, ParamGone
<1>3. ASSUME NEW g \in Groups, GroupDisappear(g) PROVE ParamGone(p)'
  <2>1. p # g
    BY ItemsAssumption
  <2>2. p \in live => pgroup[p] # g
    BY <1>0, <1>3
       DEF GroupDisappear, ParamsOf, TreeParams, InTree, ParamSeen
  <2>3. /\ p \in live' <=> p \in live
        /\ p \in live => pgroup[p] \in live'
    BY <1>0, <1>3, <2>1, <2>2 DEF GroupDisappear, ParamGone
  <2>4. QED BY <1>1, <1>3, <2>3 DEF GroupDisappear
<1>4. ASSUME NEW g \in Groups, NEW q \in Params, NEW t \in Types,
             ParamAppear(g, q, t)
      PROVE  ParamGone(p)'
  BY <1>0, <1>4 DEF ParamAppear, ParamGone, TypeOK
<1>5. ASSUME NEW q \in Params, ParamDisappear(q) PROVE ParamGone(p)'
  <2>1. pgroup[p] # q
    BY ItemsAssumption DEF TypeOK
  <2>2. CASE p # q \/ fault' = "count_underflow"
    <3>1. /\ pstate'[p] = pstate[p] /\ (p \in live' <=> p \in live)
          /\ p \in live => pgroup[p] \in live'
      BY <1>0, <1>5, <2>1, <2>2
         DEF ParamDisappear, TypeOK, CallbackTime, Running, ParamGone
    <3>2. QED BY <1>1, <1>5, <3>1 DEF ParamDisappear
  <2>3. CASE p = q /\ fault' # "count_underflow"
    <3>1. /\ p \in live /\ p \notin live' /\ UNCHANGED told
          /\ \/ pstate[p] = "appear" /\ pstate'[p] = "nothing"
             \/ pstate[p] = "nothing" /\ pstate'[p] = "disappear"
      BY <1>5, <2>3 DEF ParamDisappear, TypeOK, Withdrawn
    <3>2. QED BY <1>0, <3>1 DEF ParamGone, ParamSeen
  <2>4. QED BY <2>2, <2>3
<1>6. ASSUME NEW q \in Params,
             VisitAppearing(q) \/ VisitSettled(q) \/ VisitDisappearing(q)
      PROVE  ParamGone(p)'
  <2>1. UNCHANGED <<pgroup, live, ui>>
    BY <1>6 DEF VisitAppearing, VisitSettled, VisitDisappearing
  <2>2. CASE p # q \/ VisitSettled(q)
    <3>1. pstate'[p] = pstate[p] /\ told'[p] = told[p]
      BY <1>0, <1>6, <2>2
         DEF VisitAppearing, VisitSettled, VisitDisappearing, TypeOK
    <3>2. QED BY <1>0, <1>1, <2>1, <3>1 DEF ParamGone
  <2>3. CASE VisitAppearing(q) /\ p = q
    <3>1. p \in live
      BY <1>0, <2>3 DEF VisitAppearing, ParamGone
    <3>2. QED BY <1>0, <2>1, <3>1 DEF ParamGone
  <2>4. CASE VisitDisappearing(q) /\ p = q
    <3>1. ParamSeen(p)' /\ ParamSeen(p)
      BY <1>0, <2>4, VisitParamView
    <3>2. pstate[p] = "disappear" /\ contextSet[p]
      BY <2>4, <3>1 DEF VisitDisappearing, ParamSeen
    <3>3. pstate'[p] \in {"free", "lost"}
      BY <2>4, <3>2 DEF VisitDisappearing, TypeOK, Freed
    <3>4. told'[p] = 0 /\ p \notin live
      BY <3>1, <3>2, <3>3 DEF ParamSeen
    <3>5. QED BY <2>1, <3>3, <3>4 DEF ParamGone
  <2>5. QED BY <1>6, <2>2, <2>3, <2>4
<1>7. ASSUME NEW h \in Groups, VisitGroup(h) PROVE ParamGone(p)'
  <2>1. told'[p] = told[p]
    <3>1. p # h
      BY ItemsAssumption
    <3>2. QED BY <1>0, <1>7, <3>1 DEF VisitGroup, GroupAnnounced, TypeOK
  <2>2. QED BY <1>0, <1>1, <1>7, <2>1 DEF VisitGroup, ParamGone
<1>8. CASE UiOn
  <2>1. told'[p] = told[p]
    BY <1>0, <1>8, ItemsAssumption DEF UiOn, Fail, GroupAnnounced, TypeOK
  <2>2. UNCHANGED <<pstate, pgroup, live>>
    BY <1>8 DEF UiOn, Fail
  <2>3. QED BY <1>0, <1>1, <2>1, <2>2 DEF ParamGone
<1>9. ASSUME UNCHANGED <<pstate, told, pgroup, live>> PROVE ParamGone(p)'
  BY <1>0, <1>9 DEF ParamGone
<1>10. CASE Callback
  BY <1>2, <1>3, <1>4, <1>5, <1>10 DEF Callback
<1>11. CASE Realtime
  BY <1>9, <1>11 DEF Realtime, ChangeRt, ApplySet
<1>12. CASE Attach \/ UiRun \/ Return
  BY <1>9, <1>12 DEF Attach, UiRun, Fail, Return
<1>13. CASE Walk
  BY <1>6, <1>7, <1>12, <1>13 DEF Walk
<1>14. QED
  BY <1>8, <1>10, <1>11, <1>12, <1>13 DEF Next, UiOff, Steady

LEMMA GroupGoneStep ==
  ASSUME IInv, ViewInv, RootInv, SteadyView, Steady, Next, NEW g \in Groups
  PROVE  GroupGone(g)'
<1> USE DEF IInv, treeVars, pendVars, walkVars, instVars
<1>0. GroupGone(g) /\ GroupSeen(g) /\ g \in Items
  BY DEF SteadyView, ViewInv, GroupView, Items
<1>1. ASSUME gstate'[g] = gstate[g], told'[g] = told[g], parent'[g] = parent[g],
             g \in live' <=> g \in live,
             g \in live \ {Root} => parent[g] \in live'
      PROVE  GroupGone(g)'
  BY <1>0, <1>1 DEF GroupGone
<1>2. ASSUME NEW par \in Groups, NEW h \in Groups, GroupAppear(par, h)
      PROVE  GroupGone(g)'
  BY <1>0, <1>2 DEF GroupAppear, GroupGone, TypeOK
<1>3. ASSUME NEW h \in Groups, GroupDisappear(h) PROVE GroupGone(g)'
  <2>1. CASE g # h \/ fault' = "count_underflow"
    <3>1. g \in live \ {Root} /\ g # h => parent[g] # h
      BY <1>0, <1>3 DEF GroupDisappear, Children, TreeGroups, GroupSeen
    <3>2. /\ gstate'[g] = gstate[g] /\ (g \in live' <=> g \in live)
          /\ g \in live \ {Root} => parent[g] \in live'
      BY <1>0, <1>3, <2>1, <3>1
         DEF GroupDisappear, TypeOK, CallbackTime, Running, GroupGone
    <3>3. QED BY <1>1, <1>3, <3>2 DEF GroupDisappear
  <2>2. CASE g = h /\ fault' # "count_underflow"
    <3>1. /\ g \in live /\ g \notin live' /\ UNCHANGED told
          /\ \/ gstate[g] = "appear" /\ gstate'[g] = "nothing"
             \/ gstate[g] = "nothing" /\ gstate'[g] = "disappear"
      BY <1>3, <2>2 DEF GroupDisappear, TypeOK
    <3>2. QED BY <1>0, <3>1 DEF GroupGone, GroupSeen
  <2>3. QED BY <2>1, <2>2
<1>4. ASSUME NEW h \in Groups, NEW q \in Params, NEW t \in Types,
             ParamAppear(h, q, t) \/ ParamDisappear(q)
      PROVE  GroupGone(g)'
  <2>1. g # q /\ (g \in live \ {Root} => parent[g] # q)
    BY <1>0, ItemsAssumption DEF ChainOK, TreeGroups, GroupSeen
  <2>2. QED BY <1>0, <1>4, <2>1 DEF ParamAppear, ParamDisappear, GroupGone
<1>5. ASSUME NEW q \in Params,
             VisitAppearing(q) \/ VisitSettled(q) \/ VisitDisappearing(q)
      PROVE  GroupGone(g)'
  <2>1. g # q
    BY ItemsAssumption
  <2>2. told'[g] = told[g]
    BY <1>0, <1>5, <2>1
       DEF VisitAppearing, VisitSettled, VisitDisappearing, TypeOK
  <2>3. QED
    BY <1>0, <1>1, <1>5, <2>2
       DEF VisitAppearing, VisitSettled, VisitDisappearing, GroupGone
<1>6. ASSUME NEW h \in Groups, VisitGroup(h) PROVE GroupGone(g)'
  <2>1. UNCHANGED <<parent, live>>
    BY <1>6 DEF VisitGroup
  <2>2. CASE g = h /\ gstate[h] = "appear"
    <3>1. g \in live
      BY <1>0, <2>2 DEF GroupGone
    <3>2. QED BY <1>0, <2>1, <3>1 DEF GroupGone
  <2>3. CASE ~(g = h /\ gstate[h] = "appear")
    <3>1. gstate'[g] = gstate[g] /\ told'[g] = told[g]
      BY <1>0, <1>6, <2>3 DEF VisitGroup, GroupAnnounced, TypeOK
    <3>2. QED BY <1>0, <1>1, <2>1, <3>1 DEF GroupGone
  <2>4. QED BY <2>2, <2>3
<1>7. CASE UiOn
  <2>1. UNCHANGED <<parent, live>>
    BY <1>7 DEF UiOn, Fail
  <2>2. CASE g = Root
    <3>1. g \in live \/ (gstate[g] # "appear" /\ UNCHANGED <<gstate, told>>)
      BY <1>0, <1>7, <2>2 DEF UiOn, Fail, GroupGone
    <3>2. QED BY <1>0, <2>1, <2>2, <3>1 DEF GroupGone
  <2>3. CASE g # Root
    <3>1. gstate'[g] = gstate[g] /\ told'[g] = told[g]
      BY <1>0, <1>7, <2>3 DEF UiOn, Fail, GroupAnnounced, TypeOK
    <3>2. QED BY <1>0, <1>1, <2>1, <3>1 DEF GroupGone
  <2>4. QED BY <2>2, <2>3
<1>8. ASSUME UNCHANGED <<gstate, told, parent, live>> PROVE GroupGone(g)'
  BY <1>0, <1>8 DEF GroupGone
<1>9. CASE Callback
  BY <1>2, <1>3, <1>4, <1>9 DEF Callback, Types
<1>10. CASE Realtime
  BY <1>8, <1>10 DEF Realtime, ChangeRt, ApplySet
<1>11. CASE Attach \/ UiRun \/ Return
  BY <1>8, <1>11 DEF Attach, UiRun, Fail, Return
<1>12. CASE Walk
  BY <1>5, <1>6, <1>11, <1>12 DEF Walk
<1>13. QED
  BY <1>7, <1>9, <1>10, <1>11, <1>12 DEF Next, UiOff, Steady

\* What has been removed is with the interface only while it has to be told.
THEOREM SteadyInvariant ==
  ASSUME Steady PROVE Spec => [](IInv /\ RootInv /\ ViewInv /\ SteadyView)
<1> USE DEF Steady
<1>1. Init => SteadyView
  BY InitSteadyView
<1>2. IInv /\ RootInv /\ ViewInv /\ SteadyView /\ [Next]_vars => SteadyView'
  <2>1. ASSUME IInv, RootInv, ViewInv, SteadyView, Next PROVE SteadyView'
    BY <2>1, ParamGoneStep, GroupGoneStep DEF SteadyView
  <2>2. ASSUME SteadyView, UNCHANGED vars PROVE SteadyView'
    BY <2>2 DEF vars, treeVars, pendVars, SteadyView, ParamGone, GroupGone
  <2>3. QED BY <2>1, <2>2
<1>3. QED BY <1>1, <1>2, InvariantHolds, PTL DEF Spec

\* While the interface is never turned off, appear and disappear calls alternate
\* for each item, so that a ui_context is never replaced while in use nor passed
\* before it was set.
THEOREM CallsAlternate == ASSUME Steady PROVE Spec => []ToldInTurn
<1>1. ViewInv /\ SteadyView /\ IInv => ToldInTurn
  BY DEF ViewInv, ParamView, ParamSeen, GroupView, GroupSeen, SteadyView,
     ParamGone, GroupGone, ToldInTurn, Items
<1>2. QED BY <1>1, SteadyInvariant, PTL

\* ... and once a walk has brought the root's counter to zero the interface has
\* exactly what the plugin has.
THEOREM ViewAgrees == ASSUME Steady PROVE Spec => []ViewIsLive
<1>1. IInv /\ RootInv /\ ViewInv /\ SteadyView /\ LiveShown => ViewIsLive
  <2> SUFFICES ASSUME IInv, RootInv, ViewInv, SteadyView, LiveShown,
                      Running, ui, Idle, count[Root] = 0
               PROVE  {x \in Items : Shown(x)} = live
    BY DEF ViewIsLive
  <2>1. live \subseteq {x \in Items : Shown(x)}
    BY DEF LiveShown, IInv, TypeOK
  <2>2. ASSUME NEW x \in Items \ live PROVE ~Shown(x)
    <3>1. CASE x \in Params
      BY <2>2, <3>1, NothingPending
         DEF SteadyView, ParamGone, Shown, TreeParams, InTree, Pending
    <3>2. CASE x \in Groups
      BY <2>2, <3>2, NothingPending
         DEF SteadyView, GroupGone, Shown, TreeGroups, RootInv, Pending
    <3>3. QED BY <2>2, <3>1, <3>2 DEF Items
  <2>3. QED BY <2>1, <2>2
<1>2. QED BY <1>1, SteadyInvariant, LiveIsShown, PTL DEF Steady

\* The interface is never told that a parameter appeared that the plugin has
\* already removed (host.c:573).
THEOREM RemovedNotTold == ASSUME Steady PROVE Spec => RemovedStaysRemoved
<1>1. IInv /\ SteadyView /\ [Next]_vars
        => [\A p \in Params : told'[p] > told[p] => p \in live]_vars
  <2> SUFFICES ASSUME IInv, SteadyView, Next, NEW p \in Params,
                      told'[p] > told[p]
               PROVE  p \in live
    OBVIOUS
  <2> USE DEF IInv, treeVars, pendVars, walkVars, instVars
  <2>1. p \notin Groups /\ p \in Items /\ told[p] \in Int
    BY ItemsAssumption DEF TypeOK, Items
  <2>2. told'[p] # told[p]
    BY <2>1
  <2>3. ASSUME NEW h \in Groups, VisitGroup(h) PROVE told'[p] = told[p]
    BY <2>1, <2>3 DEF VisitGroup, GroupAnnounced, TypeOK
  <2>4. ASSUME UiOn PROVE told'[p] = told[p]
    BY <2>1, <2>4, ItemsAssumption DEF UiOn, Fail, GroupAnnounced, TypeOK
  <2>5. PICK q \in Params : VisitAppearing(q) \/ VisitDisappearing(q)
    <3>1. ~Callback
      BY <2>2 DEF Callback, GroupAppear, GroupDisappear, ParamAppear, ParamDisappear
    <3>2. ~Realtime /\ ~Attach /\ ~UiRun
      BY <2>2 DEF Realtime, ChangeRt, ApplySet, Attach, UiRun, Fail
    <3>3. ~UiOff
      BY DEF UiOff, Steady
    <3>4. Walk /\ ~Return
      BY <2>2, <2>4, <3>1, <3>2, <3>3 DEF Next, Return
    <3>5. QED BY <2>2, <2>3, <3>4 DEF Walk, VisitSettled
  <2>6. p = q
    BY <2>1, <2>2, <2>5 DEF VisitAppearing, VisitDisappearing, TypeOK
  <2>7. CASE VisitAppearing(q)
    BY <2>6, <2>7 DEF VisitAppearing, SteadyView, ParamGone
  <2>8. CASE VisitDisappearing(q)
    BY <2>1, <2>6, <2>8 DEF VisitDisappearing, TypeOK
  <2>9. QED BY <2>5, <2>7, <2>8
<1>2. QED
  BY <1>1, SteadyInvariant, PTL DEF Spec, RemovedStaysRemoved

----------------------------------------------------------------------------
(* HostTree implements UiContract. *)

\* The group of each item, as UiContract sees it.
Holder == [x \in Items |-> IF x \in Groups THEN parent[x] ELSE pgroup[x]]

LEMMA PlaceStep ==
  ASSUME UNCHANGED told,
         \A x \in Items : told[x] = 1 => Holder'[x] = Holder[x]
  PROVE  Contract!Next
BY DEF Contract!Next, Contract!Place, Contract!Has, Holder

LEMMA AppearStep ==
  ASSUME NEW x \in Items, told[x] = 0,
         x # Root => Holder[x] \in Items /\ told[Holder[x]] = 1,
         told' = [told EXCEPT ![x] = 1], UNCHANGED <<parent, pgroup>>
  PROVE  Contract!Next
<1>1. Contract!Appear(x)
  BY DEF Contract!Appear, Contract!Has, Holder
<1>2. QED BY <1>1 DEF Contract!Next

LEMMA DisappearStep ==
  ASSUME NEW x \in Items, told[x] = 1,
         \A y \in Items \ {x, Root} : Holder[y] = x => told[y] # 1,
         told' = [told EXCEPT ![x] = 0], UNCHANGED <<parent, pgroup>>
  PROVE  Contract!Next
<1>1. Contract!Disappear(x)
  BY DEF Contract!Disappear, Contract!Has, Holder
<1>2. QED BY <1>1 DEF Contract!Next

\* A call in which the walk tells the interface of a parameter.
LEMMA VisitContract ==
  ASSUME IInv, RootInv, ViewInv, SteadyView, ToldInTurn, NEW p \in Params,
         VisitAppearing(p) \/ VisitSettled(p) \/ VisitDisappearing(p)
  PROVE  Contract!Next
<1> USE DEF IInv, treeVars
<1>1. /\ UNCHANGED <<parent, pgroup>> /\ p \in Items /\ p \notin Groups
      /\ p # Root /\ told[p] \in {0, 1}
  BY ItemsAssumption
     DEF VisitAppearing, VisitSettled, VisitDisappearing, Items, ToldInTurn
<1>2. CASE UNCHANGED told
  BY <1>1, <1>2, PlaceStep DEF Holder
<1>3. CASE VisitAppearing(p) /\ told' # told
  <2>1. /\ ui /\ pstate[p] = "appear" /\ p \in ParamsLeft(at) /\ KeepWalking
        /\ told' = [told EXCEPT ![p] = told[p] + 1]
    BY <1>3 DEF VisitAppearing, TypeOK
  <2>2. p \in live /\ told[p] = 0
    BY <2>1 DEF SteadyView, ParamGone, ViewInv, ParamView, ParamSeen
  <2>3. pgroup[p] \in Groups \cap live /\ Settled(pgroup[p])
    BY <2>1, <2>2, VisitSettledBelow DEF SteadyView, ParamGone, ViewInv, TypeOK
  <2>4. told[pgroup[p]] = 1
    BY <2>3 DEF ViewInv, GroupView, GroupSeen, Settled, ChainOK
  <2>5. Holder[p] = pgroup[p] /\ pgroup[p] \in Items
    BY <1>1, <2>3 DEF Holder, Items
  <2>6. told' = [told EXCEPT ![p] = 1]
    BY <2>1, <2>2
  <2>7. QED BY <1>1, <2>2, <2>4, <2>5, <2>6, AppearStep
<1>4. CASE VisitDisappearing(p) /\ told' # told
  <2>1. told' = [told EXCEPT ![p] = told[p] - 1] /\ pstate[p] = "disappear"
    BY <1>4 DEF VisitDisappearing, TypeOK
  <2>2. told[p] = 1
    BY <2>1 DEF ViewInv, ParamView, ParamSeen
  <2>3. told' = [told EXCEPT ![p] = 0]
    BY <2>1, <2>2
  <2>4. ASSUME NEW y \in Items \ {p, Root}, Holder[y] = p PROVE told[y] # 1
    <3>1. y \in Groups /\ parent[y] = p
      BY <1>1, <2>4 DEF Holder, TypeOK, Items
    <3>2. y \notin TreeGroups
      BY <1>1, <2>4, <3>1 DEF ChainOK, TreeGroups
    <3>3. QED BY <3>1, <3>2 DEF ViewInv, GroupView, GroupSeen, TreeGroups
  <2>5. QED BY <1>1, <2>2, <2>3, <2>4, DisappearStep
<1>5. QED BY <1>2, <1>3, <1>4 DEF VisitSettled

LEMMA ContractStep ==
  ASSUME IInv, RootInv, ViewInv, SteadyView, ToldInTurn, Steady, Next
  PROVE  Contract!Next
<1> USE DEF IInv, treeVars, pendVars, walkVars, instVars
<1>1. ASSUME UNCHANGED <<told, parent, pgroup>> PROVE Contract!Next
  BY <1>1, PlaceStep DEF Holder
<1>2. ASSUME NEW par \in Groups, NEW g \in Groups, GroupAppear(par, g)
      PROVE  Contract!Next
  <2>1. told[g] = 0
    BY <1>2 DEF GroupAppear, ViewInv, GroupView, GroupSeen
  <2>2. \A x \in Items : told[x] = 1 => Holder'[x] = Holder[x]
    BY <1>2, <2>1 DEF GroupAppear, Holder, TypeOK
  <2>3. QED BY <1>2, <2>2, PlaceStep DEF GroupAppear
<1>3. ASSUME NEW g \in Groups, NEW p \in Params, NEW t \in Types,
             ParamAppear(g, p, t)
      PROVE  Contract!Next
  <2>1. told[p] = 0
    BY <1>3 DEF ParamAppear, ViewInv, ParamView, ParamSeen
  <2>2. \A x \in Items : told[x] = 1 => Holder'[x] = Holder[x]
    BY <1>3, <2>1 DEF ParamAppear, Holder, TypeOK, Items
  <2>3. QED BY <1>3, <2>2, PlaceStep DEF ParamAppear
<1>4. ASSUME NEW h \in Groups, VisitGroup(h) PROVE Contract!Next
  <2>1. CASE told' = told
    BY <1>1, <1>4, <2>1 DEF VisitGroup
  <2>2. CASE told' # told
    <3>1. /\ gstate[h] = "appear" /\ ui /\ h \in TreeGroups \ {Root}
          /\ parent[h] = at /\ at # NoGroup
          /\ told' = [told EXCEPT ![h] = told[h] + 1]
      BY <1>4, <2>2
         DEF VisitGroup, GroupAnnounced, GroupsLeft, Children, KeepWalking, TypeOK
    <3>2. h \in live /\ told[h] = 0
      BY <3>1 DEF SteadyView, GroupGone, ViewInv, GroupView, GroupSeen, TreeGroups
    <3>3. at \in Groups \cap live
      BY <3>1, <3>2 DEF SteadyView, GroupGone, TypeOK, TreeGroups
    <3>4. told[at] = 1
      BY <3>1, <3>3
         DEF ViewInv, WalkView, GroupView, GroupSeen, Settled, ChainOK
    <3>5. Holder[h] = at /\ at \in Items /\ h \in Items
      BY <3>1, <3>3 DEF Holder, Items, TreeGroups
    <3>6. told' = [told EXCEPT ![h] = 1]
      BY <3>1, <3>2
    <3>7. QED BY <1>4, <3>2, <3>4, <3>5, <3>6, AppearStep DEF VisitGroup
  <2>3. QED BY <2>1, <2>2
<1>5. CASE UiOn
  <2>1. CASE gstate[Root] # "appear"
    BY <1>1, <1>5, <2>1 DEF UiOn, Fail
  <2>2. CASE gstate[Root] = "appear"
    <3>1. told' = [told EXCEPT ![Root] = told[Root] + 1] /\ Root \in Items
      BY <1>5, <2>2, ItemsAssumption DEF UiOn, GroupAnnounced, Items, TypeOK
    <3>2. told[Root] = 0
      BY <2>2, ItemsAssumption
         DEF SteadyView, GroupGone, ViewInv, GroupView, GroupSeen
    <3>3. told' = [told EXCEPT ![Root] = 1]
      BY <3>1, <3>2
    <3>4. QED BY <1>5, <2>2, <3>1, <3>2, <3>3, AppearStep DEF UiOn
  <2>3. QED BY <2>1, <2>2
<1>6. ASSUME NEW p \in Params,
             VisitAppearing(p) \/ VisitSettled(p) \/ VisitDisappearing(p)
      PROVE  Contract!Next
  BY <1>6, VisitContract
<1>7. CASE Callback
  <2>1. ASSUME NEW g \in Groups, GroupDisappear(g) PROVE Contract!Next
    BY <1>1, <2>1 DEF GroupDisappear
  <2>2. ASSUME NEW p \in Params, ParamDisappear(p) PROVE Contract!Next
    BY <1>1, <2>2 DEF ParamDisappear
  <2>3. QED BY <1>2, <1>3, <1>7, <2>1, <2>2 DEF Callback
<1>8. CASE Realtime
  BY <1>1, <1>8 DEF Realtime, ChangeRt, ApplySet
<1>9. CASE Attach \/ UiRun \/ Return
  BY <1>1, <1>9 DEF Attach, UiRun, Fail, Return
<1>10. CASE Walk
  BY <1>4, <1>6, <1>9, <1>10 DEF Walk
<1>11. QED
  BY <1>5, <1>7, <1>8, <1>9, <1>10 DEF Next, UiOff, Steady

\* The calls that host.c makes keep the contract of host.h with the interface,
\* for any tree and any plugin, as long as the program does not turn the
\* interface off: an item appears below a group that is shown, once, and
\* disappears only when it is shown.
THEOREM ContractKept == ASSUME Steady PROVE Spec => KeepsContract
<1>1. Init => Contract!Init
  BY DEF Init, Contract!Init
<1>2. IInv /\ RootInv /\ ViewInv /\ SteadyView /\ ToldInTurn /\ [Next]_vars
        => [Contract!Next]_(Contract!vars)
  <2>1. ASSUME UNCHANGED vars PROVE UNCHANGED Contract!vars
    BY <2>1 DEF vars, treeVars, Contract!vars
  <2>2. QED BY <2>1, ContractStep
<1>3. QED
  BY <1>1, <1>2, SteadyInvariant, CallsAlternate, PTL
     DEF Spec, KeepsContract, Contract!Spec

\* Whatever the interface has hangs below a group it has.
Nested ==
  \A x \in Items \ {Root} : Shown(x) => Holder[x] \in Items /\ Shown(Holder[x])

\* UiContract promises it.
LEMMA ContractNests == Contract!Spec => []Nested
<1> USE DEF Holder, Shown, Contract!Has
<1>1. Contract!Init => Nested
  BY DEF Contract!Init, Nested
<1>2. Nested /\ [Contract!Next]_(Contract!vars) => Nested'
  <2> SUFFICES ASSUME Nested, [Contract!Next]_(Contract!vars) PROVE Nested'
    OBVIOUS
  <2>1. ASSUME NEW x \in Items, Contract!Appear(x) PROVE Nested'
    BY <2>1 DEF Nested, Contract!Appear
  <2>2. ASSUME NEW x \in Items, Contract!Disappear(x) PROVE Nested'
    BY <2>2 DEF Nested, Contract!Disappear
  <2>3. CASE Contract!AllGone
    BY <2>3 DEF Nested, Contract!AllGone
  <2>4. CASE Contract!Place
    BY <2>4 DEF Nested, Contract!Place
  <2>5. CASE UNCHANGED Contract!vars
    BY <2>5 DEF Nested, Contract!vars
  <2>6. QED BY <2>1, <2>2, <2>3, <2>4, <2>5 DEF Contract!Next
<1>3. QED BY <1>1, <1>2, PTL DEF Contract!Spec

\* The ui_context of an item's group, with which the interface is called, is
\* always one that it has given out: also in the middle of a walk, what it shows
\* hangs below a group it shows.
THEOREM NothingHangsLoose == ASSUME Steady PROVE Spec => []ShownUnderShown
<1>1. Nested /\ IInv => ShownUnderShown
  BY ItemsAssumption
     DEF Nested, ShownUnderShown, Holder, Items, TreeGroups, TreeParams
<1>2. QED BY <1>1, ContractKept, ContractNests, SteadyInvariant, PTL DEF KeepsContract

----------------------------------------------------------------------------
(* The counters of a program that never turns its interface off are exact. *)

\* They are only while no context is passed: a second one before the walk counts
\* twice, and is paid for once.
Contextless == Steady /\ "contexts" \notin Env
NoContexts == \A p \in Params : contextChange[p] = FALSE

LEMMA NoContextsHere ==
  ASSUME IInv, IInv', "contexts" \notin Env PROVE NoContexts /\ NoContexts'
BY DEF IInv, TypeOK, ContextsOK, NoContexts

\* Without contexts none is pending.
LEMMA NoContextPending ==
  ASSUME NEW x, NoContexts
  PROVE  ContextPending(x) = {} /\ Cardinality(ContextPending(x)) = 0
BY FS_EmptySet DEF NoContexts, ContextPending

\* One item more, one item less.
LEMMA CardGain ==
  ASSUME NEW S, IsFiniteSet(S), NEW e, e \notin S
  PROVE  Cardinality(S \cup {e}) = Cardinality(S) + 1
BY FS_AddElement

LEMMA CardLoss ==
  ASSUME NEW S, IsFiniteSet(S), NEW e \in S
  PROVE  Cardinality(S \ {e}) = Cardinality(S) - 1
BY FS_RemoveElement

\* Without contexts a counter owes the other three kinds of item.
LEMMA OwedSum ==
  ASSUME NEW x, NoContexts, NoContexts'
  PROVE  /\ Owed(x) = Cardinality(GroupPending(x)) + Cardinality(ParamPending(x))
                      + Cardinality(ValuePending(x))
         /\ Owed(x)' = Cardinality(GroupPending(x)') + Cardinality(ParamPending(x)')
                       + Cardinality(ValuePending(x)')
<1>1. ContextPending(x) = {} /\ ContextPending(x)' = {}
  BY DEF NoContexts, ContextPending
<1>2. /\ Cardinality(ContextPending(x)) = 0
      /\ Cardinality(ContextPending(x)') = 0
  BY <1>1, FS_EmptySet
<1>3. /\ Cardinality(GroupPending(x)') \in Nat
      /\ Cardinality(ParamPending(x)') \in Nat
      /\ Cardinality(ValuePending(x)') \in Nat
  <2>1. /\ GroupPending(x)' \subseteq Groups
        /\ ParamPending(x)' \subseteq Params
        /\ ValuePending(x)' \subseteq Params
    BY DEF GroupPending, ParamPending, ValuePending
  <2>2. QED BY <2>1, FS_Subset, FS_CardinalityType, ItemsAssumption
<1>4. QED BY <1>2, <1>3, PendingCards DEF Owed

\* The invariant.
Exact == \A x \in Groups : count[x] = Owed(x)

\* A step that makes one more item below g pending and climbs from g.
LEMMA ExactGrow ==
  ASSUME IInv, Exact, NoContexts, NoContexts', NEW g \in Groups, NEW x \in Groups, NEW e,
         count'[x] = Climbed(g)[x],
         x \notin chain[g] =>
           /\ GroupPending(x)' = GroupPending(x)
           /\ ParamPending(x)' = ParamPending(x)
           /\ ValuePending(x)' = ValuePending(x),
         x \in chain[g] =>
           \/ /\ GroupPending(x)' = GroupPending(x) \cup {e}
              /\ e \notin GroupPending(x)
              /\ ParamPending(x)' = ParamPending(x)
              /\ ValuePending(x)' = ValuePending(x)
           \/ /\ GroupPending(x)' = GroupPending(x)
              /\ ParamPending(x)' = ParamPending(x) \cup {e}
              /\ e \notin ParamPending(x)
              /\ ValuePending(x)' = ValuePending(x)
           \/ /\ GroupPending(x)' = GroupPending(x)
              /\ ParamPending(x)' = ParamPending(x)
              /\ ValuePending(x)' = ValuePending(x) \cup {e}
              /\ e \notin ValuePending(x)
  PROVE  count'[x] = Owed(x)'
<1>0. count[x] = Owed(x) /\ NoContexts
  BY DEF Exact, IInv
<1>1. CASE x \notin chain[g]
  <2>1. count'[x] = count[x]
    BY <1>1 DEF Climbed
  <2>2. Owed(x)' = Owed(x)
    BY <1>0, <1>1, PendingCards, OwedSum
  <2>3. QED BY <1>0, <2>1, <2>2, PendingCards
<1>2. CASE x \in chain[g]
  <2>1. count'[x] = count[x] + 1
    BY <1>2 DEF Climbed
  <2>2. CASE /\ GroupPending(x)' = GroupPending(x) \cup {e}
             /\ e \notin GroupPending(x)
             /\ ParamPending(x)' = ParamPending(x)
             /\ ValuePending(x)' = ValuePending(x)
    <3>1. Cardinality(GroupPending(x)') = Cardinality(GroupPending(x)) + 1
      BY <2>2, PendingFinite, CardGain
    <3>2. Owed(x)' = Owed(x) + 1
      <4>1. /\ Cardinality(ParamPending(x)') = Cardinality(ParamPending(x))
            /\ Cardinality(ValuePending(x)') = Cardinality(ValuePending(x))
        BY <2>2
      <4>2. QED BY <1>0, <3>1, <4>1, PendingCards, OwedSum
    <3>3. QED BY <1>0, <2>1, <3>2
  <2>3. CASE /\ GroupPending(x)' = GroupPending(x)
             /\ ParamPending(x)' = ParamPending(x) \cup {e}
             /\ e \notin ParamPending(x)
             /\ ValuePending(x)' = ValuePending(x)
    <3>1. Cardinality(ParamPending(x)') = Cardinality(ParamPending(x)) + 1
      BY <2>3, PendingFinite, CardGain
    <3>2. Owed(x)' = Owed(x) + 1
      <4>1. /\ Cardinality(GroupPending(x)') = Cardinality(GroupPending(x))
            /\ Cardinality(ValuePending(x)') = Cardinality(ValuePending(x))
        BY <2>3
      <4>2. QED BY <1>0, <3>1, <4>1, PendingCards, OwedSum
    <3>3. QED BY <1>0, <2>1, <3>2
  <2>4. CASE /\ GroupPending(x)' = GroupPending(x)
             /\ ParamPending(x)' = ParamPending(x)
             /\ ValuePending(x)' = ValuePending(x) \cup {e}
             /\ e \notin ValuePending(x)
    <3>1. Cardinality(ValuePending(x)') = Cardinality(ValuePending(x)) + 1
      BY <2>4, PendingFinite, CardGain
    <3>2. Owed(x)' = Owed(x) + 1
      <4>1. /\ Cardinality(GroupPending(x)') = Cardinality(GroupPending(x))
            /\ Cardinality(ParamPending(x)') = Cardinality(ParamPending(x))
        BY <2>4
      <4>2. QED BY <1>0, <3>1, <4>1, PendingCards, OwedSum
    <3>3. QED BY <1>0, <2>1, <3>2
  <2>5. QED BY <1>2, <2>2, <2>3, <2>4
<1>3. QED BY <1>1, <1>2

\* A step that settles a group below g and pays g back.
LEMMA ExactGroupSettled ==
  ASSUME IInv, Exact, NoContexts, NoContexts', NEW h \in TreeGroups \ {Root},
         gstate[h] \in Pending, gstate'[h] \notin Pending,
         \A f \in Groups \ {h} : gstate'[f] = gstate[f],
         UNCHANGED <<chain, parent, pgroup, pstate, valueChange>>,
         count' = Descended(parent[h], 1)
  PROVE  Exact'
<1> SUFFICES ASSUME NEW x \in Groups PROVE count'[x] = Owed(x)'
  BY DEF Exact
<1>0. count[x] = Owed(x) /\ NoContexts
  BY DEF Exact, IInv
<1>1. /\ GroupPending(x)' = GroupPending(x) \ {h}
      /\ ParamPending(x)' = ParamPending(x)
      /\ ValuePending(x)' = ValuePending(x)
  BY DEF GroupPending, ParamPending, ValuePending, InTree
<1>2. h \in GroupPending(x) <=> x \in chain[parent[h]]
  BY DEF GroupPending, TreeGroups
<1>3. CASE x \in chain[parent[h]]
  <2>1. count'[x] = count[x] - 1
    BY <1>3 DEF Descended
  <2>2. Cardinality(GroupPending(x)') = Cardinality(GroupPending(x)) - 1
    BY <1>1, <1>2, <1>3, PendingFinite, PendingCards, CardLoss
  <2>3. /\ Cardinality(ParamPending(x)') = Cardinality(ParamPending(x))
        /\ Cardinality(ValuePending(x)') = Cardinality(ValuePending(x))
    BY <1>1
  <2>4. Owed(x)' = Owed(x) - 1
    BY <1>0, <2>2, <2>3, PendingCards, OwedSum
  <2>5. QED BY <1>0, <2>1, <2>4, PendingCards
<1>4. CASE x \notin chain[parent[h]]
  <2>1. count'[x] = count[x]
    BY <1>4 DEF Descended
  <2>2. /\ Cardinality(GroupPending(x)') = Cardinality(GroupPending(x))
        /\ Cardinality(ParamPending(x)') = Cardinality(ParamPending(x))
        /\ Cardinality(ValuePending(x)') = Cardinality(ValuePending(x))
    <3>1. GroupPending(x)' = GroupPending(x)
      BY <1>1, <1>2, <1>4
    <3>2. QED BY <1>1, <3>1
  <2>3. Owed(x)' = Owed(x)
    BY <1>0, <2>2, PendingCards, OwedSum
  <2>4. QED BY <1>0, <2>1, <2>3, PendingCards
<1>5. QED BY <1>3, <1>4

\* A step that settles d pending states and v pending values of p and pays the
\* counters back.
LEMMA ExactPay ==
  ASSUME IInv, Exact, NoContexts, NoContexts', NEW p \in TreeParams,
         NEW d \in {0, 1}, NEW v \in {0, 1},
         UNCHANGED <<chain, parent, gstate, pgroup>>,
         \A q \in Params \ {p} : /\ pstate'[q] = pstate[q]
                                /\ valueChange'[q] = valueChange[q],
         d = 1 => pstate[p] \in Pending /\ pstate'[p] \notin Pending,
         d = 0 => (pstate'[p] \in Pending <=> pstate[p] \in Pending),
         v = 1 => valueChange[p] /\ ~valueChange'[p],
         v = 0 => (valueChange'[p] <=> valueChange[p]),
         (v = 0 /\ valueChange[p]) => InTree(p)',
         count' = Descended(pgroup[p], d + v)
  PROVE  Exact'
<1> SUFFICES ASSUME NEW x \in Groups PROVE count'[x] = Owed(x)'
  BY DEF Exact
<1>0. count[x] = Owed(x) /\ NoContexts /\ p \in Params /\ InTree(p)
  BY DEF Exact, IInv, TreeParams
<1>1. GroupPending(x)' = GroupPending(x)
  BY DEF GroupPending
<1>2. /\ d = 1 => ParamPending(x)' = ParamPending(x) \ {p}
      /\ d = 0 => ParamPending(x)' = ParamPending(x)
      /\ d = 1 => (p \in ParamPending(x) <=> x \in chain[pgroup[p]])
  BY <1>0 DEF ParamPending
<1>3. /\ v = 1 => ValuePending(x)' = ValuePending(x) \ {p}
      /\ v = 0 => ValuePending(x)' = ValuePending(x)
      /\ v = 1 => (p \in ValuePending(x) <=> x \in chain[pgroup[p]])
  BY <1>0 DEF ValuePending, InTree
<1>4. CASE x \in chain[pgroup[p]]
  <2>1. count'[x] = count[x] - (d + v)
    BY <1>4 DEF Descended
  <2>2. Cardinality(ParamPending(x)') = Cardinality(ParamPending(x)) - d
    BY <1>2, <1>4, PendingFinite, PendingCards, CardLoss
  <2>3. Cardinality(ValuePending(x)') = Cardinality(ValuePending(x)) - v
    BY <1>3, <1>4, PendingFinite, PendingCards, CardLoss
  <2>4. Owed(x)' = Owed(x) - (d + v)
    BY <1>0, <1>1, <2>2, <2>3, PendingCards, OwedSum
  <2>5. QED BY <1>0, <2>1, <2>4, PendingCards
<1>5. CASE x \notin chain[pgroup[p]]
  <2>1. count'[x] = count[x]
    BY <1>5 DEF Descended
  <2>2. /\ ParamPending(x)' = ParamPending(x)
        /\ ValuePending(x)' = ValuePending(x)
    BY <1>2, <1>3, <1>5
  <2>3. Owed(x)' = Owed(x)
    BY <1>0, <1>1, <2>2, PendingCards, OwedSum
  <2>4. QED BY <1>0, <2>1, <2>3, PendingCards
<1>6. QED BY <1>4, <1>5

\* Steps that change neither counters nor what is pending.
LEMMA ExactUnchanged ==
  ASSUME Exact, UNCHANGED <<parent, chain, pgroup>>,
         UNCHANGED <<count, pstate, valueChange, contextChange>>,
         \A g \in Groups \ {Root} : gstate'[g] = gstate[g]
  PROVE  Exact'
<1> SUFFICES ASSUME NEW x \in Groups PROVE count'[x] = Owed(x)'
  BY DEF Exact
<1>1. /\ GroupPending(x)' = GroupPending(x) /\ ParamPending(x)' = ParamPending(x)
      /\ ValuePending(x)' = ValuePending(x)
      /\ ContextPending(x)' = ContextPending(x)
  BY DEF GroupPending, ParamPending, ValuePending, ContextPending, InTree
<1>2. QED BY <1>1 DEF Exact, Owed

LEMMA ExactGroupAppear ==
  ASSUME IInv, Exact, NoContexts, NoContexts', NEW par \in Groups, NEW g \in Groups,
         GroupAppear(par, g)
  PROVE  Exact'
<1> USE DEF IInv, treeVars, pendVars
<1> SUFFICES ASSUME NEW x \in Groups PROVE count'[x] = Owed(x)'
  BY DEF Exact
<1>1. /\ \A h \in Groups \ {g} : /\ chain'[h] = chain[h] /\ parent'[h] = parent[h]
                                /\ gstate'[h] = gstate[h]
      /\ parent'[g] = par /\ gstate[g] = "free" /\ g \notin TreeGroups
      /\ par \in TreeGroups /\ gstate'[g] = "appear" /\ g # Root
      /\ UNCHANGED <<pgroup, pstate, valueChange, contextChange>>
  BY DEF GroupAppear, TypeOK, TreeGroups, ChainOK
<1>2. ParamPending(x)' = ParamPending(x) /\ ValuePending(x)' = ValuePending(x)
  <2>1. \A p \in TreeParams : chain'[pgroup[p]] = chain[pgroup[p]]
    BY <1>1 DEF ChainOK, TreeGroups
  <2>2. QED
    BY <1>1, <2>1 DEF ParamPending, ValuePending, Pending, TreeParams, InTree
<1>3. /\ x \in chain[par] => GroupPending(x)' = GroupPending(x) \cup {g}
      /\ x \notin chain[par] => GroupPending(x)' = GroupPending(x)
      /\ g \notin GroupPending(x)
  <2>1. \A h \in Groups \ {g, Root} :
          gstate'[h] \in Pending => chain'[parent'[h]] = chain[parent[h]]
    BY <1>1 DEF ChainOK, TreeGroups, Pending
  <2>2. chain'[par] = chain[par] /\ "appear" \in Pending /\ "free" \notin Pending
    BY <1>1 DEF Pending
  <2>3. QED BY <1>1, <2>1, <2>2 DEF GroupPending
<1>4. count'[x] = Climbed(par)[x]
  <2>1. CASE x # g
    BY <2>1 DEF GroupAppear, Climbed
  <2>2. CASE x = g
    <3>1. count'[x] = 0 /\ Climbed(par)[x] = count[x]
      BY <1>1, <2>2 DEF GroupAppear, ChainOK, TypeOK, Climbed
    <3>2. Owed(x) = 0
      BY <1>1, <2>2, NothingBelowFree, FS_EmptySet DEF Owed
    <3>3. QED BY <3>1, <3>2 DEF Exact
  <2>3. QED BY <2>1, <2>2
<1>5. QED BY <1>2, <1>3, <1>4, ExactGrow

LEMMA ExactParamAppear ==
  ASSUME IInv, Exact, NoContexts, NoContexts', NEW g \in Groups, NEW p \in Params,
         NEW t \in Types, ParamAppear(g, p, t)
  PROVE  Exact'
<1> USE DEF IInv, treeVars, pendVars
<1> SUFFICES ASSUME NEW x \in Groups PROVE count'[x] = Owed(x)'
  BY DEF Exact
<1>1. /\ UNCHANGED <<chain, parent, gstate, contextChange>>
      /\ \A q \in Params \ {p} : /\ pgroup'[q] = pgroup[q] /\ pstate'[q] = pstate[q]
                                 /\ valueChange'[q] = valueChange[q]
      /\ pgroup'[p] = g /\ ~valueChange'[p]
      /\ pstate[p] = "free" /\ pstate'[p] = "appear"
  BY DEF ParamAppear, TypeOK
<1>2. GroupPending(x)' = GroupPending(x) /\ ValuePending(x)' = ValuePending(x)
  BY <1>1 DEF GroupPending, ValuePending, InTree
<1>3. /\ x \in chain[g] => ParamPending(x)' = ParamPending(x) \cup {p}
      /\ x \notin chain[g] => ParamPending(x)' = ParamPending(x)
      /\ p \notin ParamPending(x)
  BY <1>1 DEF ParamPending, Pending
<1>4. count'[x] = Climbed(g)[x]
  BY DEF ParamAppear
<1>5. QED BY <1>2, <1>3, <1>4, ExactGrow

LEMMA ExactGroupDisappear ==
  ASSUME IInv, Exact, NoContexts, NoContexts', NEW g \in Groups, GroupDisappear(g)
  PROVE  Exact'
<1> USE DEF IInv, treeVars, pendVars
<1>1. /\ UNCHANGED <<chain, parent, pgroup, pstate, valueChange, contextChange>>
      /\ g \in TreeGroups \ {Root} /\ parent[g] \in Groups
      /\ \A f \in Groups \ {g} : gstate'[f] = gstate[f]
  BY DEF GroupDisappear, TypeOK, TreeGroups, ChainOK
<1>2. CASE gstate[g] = "appear"
  <2>1. CanDescend(parent[g], 1)
    BY <1>1, <1>2, GroupVisitCovered DEF Pending
  <2>2. gstate'[g] = "nothing" /\ count' = Descended(parent[g], 1)
    BY <1>1, <1>2, <2>1 DEF GroupDisappear, TypeOK
  <2>3. QED BY <1>1, <1>2, <2>2, ExactGroupSettled DEF Pending
<1>3. CASE gstate[g] = "nothing"
  <2>1. gstate'[g] = "disappear" /\ count' = Climbed(parent[g])
    BY <1>1, <1>3 DEF GroupDisappear, TypeOK
  <2> SUFFICES ASSUME NEW x \in Groups PROVE count'[x] = Owed(x)'
    BY DEF Exact
  <2>2. ParamPending(x)' = ParamPending(x) /\ ValuePending(x)' = ValuePending(x)
    BY <1>1 DEF ParamPending, ValuePending, InTree
  <2>3. /\ x \in chain[parent[g]] => GroupPending(x)' = GroupPending(x) \cup {g}
        /\ x \notin chain[parent[g]] => GroupPending(x)' = GroupPending(x)
        /\ g \notin GroupPending(x)
    BY <1>1, <1>3, <2>1 DEF GroupPending, Pending
  <2>4. QED BY <1>1, <2>1, <2>2, <2>3, ExactGrow
<1>4. QED BY <1>2, <1>3 DEF GroupDisappear

LEMMA ExactParamDisappear ==
  ASSUME IInv, Exact, NoContexts, NoContexts', NEW p \in Params, ParamDisappear(p)
  PROVE  Exact'
<1> USE DEF IInv, treeVars, pendVars
<1>1. /\ UNCHANGED <<chain, parent, gstate, pgroup, valueChange, contextChange>>
      /\ p \in TreeParams /\ pgroup[p] \in Groups
      /\ \A q \in Params \ {p} : pstate'[q] = pstate[q]
  BY DEF ParamDisappear, TypeOK, TreeParams, InTree
<1>2. CASE pstate[p] = "appear"
  <2>1. CanDescend(pgroup[p], 1)
    BY <1>1, <1>2, PendingPays DEF Pending
  <2>2. pstate'[p] = "nothing" /\ count' = Descended(pgroup[p], 1)
    BY <1>1, <1>2, <2>1 DEF ParamDisappear, TypeOK, Withdrawn
  <2>3. count' = Descended(pgroup[p], 1 + 0)
    BY <2>2, 1 + 0 = 1
  <2>4. QED BY <1>1, <1>2, <2>2, <2>3, ExactPay DEF Pending, InTree
<1>3. CASE pstate[p] = "nothing"
  <2>1. pstate'[p] = "disappear" /\ count' = Climbed(pgroup[p])
    BY <1>1, <1>3 DEF ParamDisappear, TypeOK
  <2> SUFFICES ASSUME NEW x \in Groups PROVE count'[x] = Owed(x)'
    BY DEF Exact
  <2>2. GroupPending(x)' = GroupPending(x) /\ ValuePending(x)' = ValuePending(x)
    BY <1>1, <1>3, <2>1 DEF GroupPending, ValuePending, InTree
  <2>3. /\ x \in chain[pgroup[p]] => ParamPending(x)' = ParamPending(x) \cup {p}
        /\ x \notin chain[pgroup[p]] => ParamPending(x)' = ParamPending(x)
        /\ p \notin ParamPending(x)
    BY <1>1, <1>3, <2>1 DEF ParamPending, Pending
  <2>4. QED BY <1>1, <2>1, <2>2, <2>3, ExactGrow
<1>4. QED BY <1>2, <1>3 DEF ParamDisappear

LEMMA ExactChangeRt ==
  ASSUME IInv, Exact, NoContexts, NoContexts', NEW p \in Params, ChangeRt(p)
  PROVE  Exact'
<1> USE DEF IInv, treeVars
<1> SUFFICES ASSUME NEW x \in Groups PROVE count'[x] = Owed(x)'
  BY DEF Exact
<1>1. /\ UNCHANGED <<chain, parent, gstate, pgroup, pstate, contextChange>>
      /\ \A q \in Params \ {p} : valueChange'[q] = valueChange[q]
      /\ ~valueChange[p] /\ valueChange'[p] /\ InTree(p)
      /\ count' = Climbed(pgroup[p]) /\ pgroup[p] \in Groups
  BY DEF ChangeRt, TypeOK
<1>2. GroupPending(x)' = GroupPending(x) /\ ParamPending(x)' = ParamPending(x)
  BY <1>1 DEF GroupPending, ParamPending
<1>3. /\ x \in chain[pgroup[p]] => ValuePending(x)' = ValuePending(x) \cup {p}
      /\ x \notin chain[pgroup[p]] => ValuePending(x)' = ValuePending(x)
      /\ p \notin ValuePending(x)
  BY <1>1 DEF ValuePending, InTree
<1>4. QED BY <1>1, <1>2, <1>3, ExactGrow

LEMMA ExactVisitGroup ==
  ASSUME IInv, Exact, NoContexts, NoContexts', NEW h \in Groups, VisitGroup(h)
  PROVE  Exact'
<1> USE DEF IInv, treeVars
<1>1. /\ UNCHANGED <<chain, parent, pgroup, pstate, valueChange, contextChange>>
      /\ h \in TreeGroups \ {Root} /\ parent[h] = at
      /\ \A g \in Groups \ {h} : gstate'[g] = gstate[g]
  BY DEF VisitGroup, TypeOK, GroupsLeft, Children
<1>2. CASE gstate[h] = "appear" /\ ui
  <2>1. CanDescend(at, 1)
    BY <1>1, <1>2, GroupVisitCovered DEF Pending
  <2>2. gstate'[h] = "nothing" /\ count' = Descended(at, 1)
    BY <1>1, <1>2, <2>1 DEF VisitGroup, TypeOK
  <2>3. QED BY <1>1, <1>2, <2>2, ExactGroupSettled DEF Pending
<1>3. CASE ~(gstate[h] = "appear" /\ ui)
  <2>1. gstate' = gstate /\ count' = count
    BY <1>3 DEF VisitGroup
  <2>2. QED BY <1>1, <2>1, ExactUnchanged
<1>4. QED BY <1>2, <1>3

LEMMA ExactVisitParam ==
  ASSUME IInv, Exact, NoContexts, NoContexts', NEW p \in Params,
         VisitAppearing(p) \/ VisitSettled(p) \/ VisitDisappearing(p)
  PROVE  Exact'
<1> USE DEF IInv, treeVars
<1>1. /\ UNCHANGED <<chain, parent, gstate, pgroup>>
      /\ p \in TreeParams /\ pgroup[p] = at
  <2>1. UNCHANGED <<chain, parent, gstate, pgroup>>
    BY DEF VisitAppearing, VisitSettled, VisitDisappearing
  <2>2. p \in ParamsLeft(at)
    BY DEF VisitAppearing, VisitSettled, VisitDisappearing
  <2>3. QED BY <2>1, <2>2 DEF ParamsLeft, ParamsOf
<1>2. contextChange[p] = FALSE /\ p \in Params /\ InTree(p)
  BY <1>1 DEF NoContexts, TreeParams
<1>3. ASSUME NEW d \in {0, 1}, d = 1 => pstate[p] \in Pending,
             Pay(p, d + One(valueChange[p]))
      PROVE  /\ count' = Descended(pgroup[p], d + One(valueChange[p]))
             /\ ~valueChange'[p]
             /\ \A q \in Params \ {p} : valueChange'[q] = valueChange[q]
  <2>1. CanDescend(at, d + One(valueChange[p]))
    <3>1. CASE d = 1
      BY <1>1, <1>3, <3>1, PendingPays
    <3>2. CASE d = 0
      <4>1. 0 + One(valueChange[p]) = One(valueChange[p])
        BY DEF One
      <4>2. QED BY <1>1, <3>2, <4>1, PendingPays
    <3>3. QED BY <3>1, <3>2
  <2>2. QED BY <1>1, <1>2, <1>3, <2>1 DEF Pay, TypeOK
<1>4. One(valueChange[p]) \in {0, 1} /\ (One(valueChange[p]) = 1 <=> valueChange[p])
  BY DEF One
<1>5. CASE VisitAppearing(p)
  <2>1. pstate[p] = "appear"
    BY <1>5 DEF VisitAppearing
  <2>2. CASE ~contextSet[p] /\ "no_callbacks" \in Env
    BY <1>5, <2>2, ExactUnchanged, <1>1 DEF VisitAppearing
  <2>3. CASE ~(~contextSet[p] /\ "no_callbacks" \in Env)
    <3>1. Pay(p, One(contextChange[p]) + One(ui) + One(valueChange[p]))
      BY <1>5, <2>3 DEF VisitAppearing
    <3>2. One(contextChange[p]) + One(ui) + One(valueChange[p])
            = One(ui) + One(valueChange[p])
      BY <1>2 DEF One
    <3>3. One(ui) \in {0, 1} /\ (One(ui) = 1 <=> ui)
      BY DEF One
    <3>4. Pay(p, One(ui) + One(valueChange[p]))
      BY <3>1, <3>2
    <3>5. /\ count' = Descended(pgroup[p], One(ui) + One(valueChange[p]))
          /\ ~valueChange'[p]
          /\ \A q \in Params \ {p} : valueChange'[q] = valueChange[q]
      BY <1>3, <2>1, <3>3, <3>4 DEF Pending
    <3>6. /\ \A q \in Params \ {p} : pstate'[q] = pstate[q]
          /\ pstate'[p] = IF ui THEN "nothing" ELSE "appear"
      BY <1>2, <1>5, <2>1, <2>3 DEF VisitAppearing, TypeOK, Appeared
    <3>7. QED BY <1>1, <1>4, <2>1, <3>3, <3>5, <3>6, ExactPay DEF Pending
  <2>4. QED BY <2>2, <2>3
<1>6. CASE VisitSettled(p)
  <2>1. 0 + One(valueChange[p]) = One(valueChange[p])
    BY DEF One
  <2>2. pstate' = pstate /\ Pay(p, 0 + One(valueChange[p]))
    BY <1>6, <2>1 DEF VisitSettled
  <2>3. /\ count' = Descended(pgroup[p], 0 + One(valueChange[p]))
        /\ ~valueChange'[p]
        /\ \A q \in Params \ {p} : valueChange'[q] = valueChange[q]
    BY <1>3, <2>2
  <2>4. QED BY <1>1, <1>4, <2>2, <2>3, ExactPay
<1>7. CASE VisitDisappearing(p)
  <2>1. pstate[p] = "disappear"
    BY <1>7 DEF VisitDisappearing
  <2>2. CASE ~contextSet[p] /\ "no_callbacks" \notin Env
    BY <1>1, <1>7, <2>2, ExactUnchanged DEF VisitDisappearing
  <2>3. CASE ~(~contextSet[p] /\ "no_callbacks" \notin Env)
    <3>1. Pay(p, 1 + One(valueChange[p]))
      BY <1>7, <2>3 DEF VisitDisappearing
    <3>2. /\ count' = Descended(pgroup[p], 1 + One(valueChange[p]))
          /\ ~valueChange'[p]
          /\ \A q \in Params \ {p} : valueChange'[q] = valueChange[q]
      BY <1>3, <2>1, <3>1 DEF Pending
    <3>3. /\ \A q \in Params \ {p} : pstate'[q] = pstate[q]
          /\ pstate'[p] \in {"lost", "free"}
      BY <1>2, <1>7, <2>3 DEF VisitDisappearing, TypeOK, Freed
    <3>4. QED BY <1>1, <1>4, <2>1, <3>2, <3>3, ExactPay DEF Pending
  <2>4. QED BY <2>2, <2>3
<1>8. QED BY <1>5, <1>6, <1>7

LEMMA ExactStep ==
  ASSUME IInv, Exact, Contextless, NoContexts, NoContexts', Next PROVE Exact'
<1> USE DEF IInv, treeVars, pendVars
<1>1. CASE Callback
  BY <1>1, ExactGroupAppear, ExactGroupDisappear, ExactParamAppear,
     ExactParamDisappear DEF Callback
<1>2. CASE Realtime
  BY <1>2, ExactChangeRt DEF Realtime, ApplySet, Contextless
<1>3. ASSUME Attach \/ UiRun \/ UiOn \/ Return PROVE Exact'
  <2>1. /\ UNCHANGED <<parent, chain, pgroup>>
        /\ UNCHANGED <<count, pstate, valueChange, contextChange>>
        /\ \A g \in Groups \ {Root} : gstate'[g] = gstate[g]
    BY <1>3, ItemsAssumption DEF Attach, UiRun, UiOn, Return, Fail, TypeOK
  <2>2. QED BY <2>1, ExactUnchanged
<1>4. CASE Walk
  BY <1>3, <1>4, ExactVisitGroup, ExactVisitParam DEF Walk
<1>5. QED BY <1>1, <1>2, <1>3, <1>4 DEF Next, UiOff, Contextless, Steady

LEMMA InitExact == ASSUME Init PROVE Exact
<1> SUFFICES ASSUME NEW x \in Groups PROVE count[x] = Owed(x)
  BY DEF Exact
<1>1. /\ GroupPending(x) = {} /\ ParamPending(x) = {}
      /\ ValuePending(x) = {} /\ ContextPending(x) = {}
  BY DEF Init, GroupPending, ParamPending, ValuePending, ContextPending,
         Pending, InTree
<1>2. QED BY <1>1, FS_EmptySet DEF Owed, Init

\* Without ui_off each counter of host.c is exactly what is pending at and below
\* its group, for any tree and any plugin, so that ui_run can bring the root's to
\* zero.
THEOREM CountsAreExact == ASSUME Contextless PROVE Spec => []CountExact
<1>1. Init => Exact
  BY InitExact
<1>2. IInv /\ IInv' /\ Exact /\ [Next]_vars => Exact'
  <2>1. ASSUME IInv, IInv', Exact, Next PROVE Exact'
    BY <2>1, ExactStep, NoContextsHere DEF Contextless
  <2>2. ASSUME Exact, UNCHANGED vars PROVE Exact'
    BY <2>2, ExactUnchanged DEF vars, treeVars, pendVars
  <2>3. QED BY <2>1, <2>2
<1>3. Exact => CountExact
  BY DEF Exact, CountExact
<1>4. QED BY <1>1, <1>2, <1>3, InvariantHolds, PTL DEF Spec, Contextless, Steady

----------------------------------------------------------------------------
(* A walk leaves nothing behind. *)

\* A climb from g contains the climbs from all groups above it, and never meets
\* the same group twice.
ChainSteps ==
  /\ \A g \in TreeGroups \ {Root} : g \notin chain[parent[g]]
  /\ \A f \in TreeGroups : \A g \in chain[f] : chain[g] \subseteq chain[f]

LEMMA ChainStepsStep ==
  ASSUME IInv, ViewInv, ChainSteps, Next PROVE ChainSteps'
<1> USE DEF IInv, treeVars, pendVars, walkVars, instVars
<1>1. ASSUME NEW par \in Groups, NEW g \in Groups, GroupAppear(par, g)
      PROVE  ChainSteps'
  <2>1. /\ TreeGroups' = TreeGroups \cup {g} /\ g \notin TreeGroups
        /\ par \in TreeGroups
    BY <1>1 DEF GroupAppear, TypeOK, TreeGroups
  <2>2. /\ \A h \in Groups \ {g} : chain'[h] = chain[h] /\ parent'[h] = parent[h]
        /\ chain'[g] = chain[par] \cup {g} /\ parent'[g] = par
    BY <1>1 DEF GroupAppear, TypeOK
  <2>3. \A f \in TreeGroups : f # g /\ f \in Groups /\ g \notin chain[f]
                              /\ chain[f] \subseteq TreeGroups
    BY <2>1 DEF ChainOK, TreeGroups
  <2>4. ASSUME NEW h \in TreeGroups' \ {Root} PROVE h \notin chain'[parent'[h]]
    <3>1. CASE h = g
      BY <2>1, <2>2, <2>3, <3>1
    <3>2. CASE h # g
      <4>1. h \in TreeGroups \ {Root} /\ parent[h] \in TreeGroups
        BY <2>1, <2>4, <3>2 DEF ChainOK
      <4>2. QED BY <2>2, <2>3, <4>1 DEF ChainSteps
    <3>3. QED BY <3>1, <3>2
  <2>5. ASSUME NEW f \in TreeGroups', NEW h \in chain'[f]
        PROVE  chain'[h] \subseteq chain'[f]
    <3>1. CASE f = g
      <4>1. h = g \/ (h \in TreeGroups /\ h \in chain[par])
        BY <2>1, <2>2, <2>3, <2>5, <3>1
      <4>2. h # g => chain'[h] = chain[h] /\ chain[h] \subseteq chain[par]
        BY <2>1, <2>2, <2>3, <4>1 DEF ChainSteps
      <4>3. QED BY <2>2, <3>1, <4>1, <4>2
    <3>2. CASE f # g
      <4>1. f \in TreeGroups /\ h \in TreeGroups /\ h \in chain[f]
        BY <2>1, <2>2, <2>3, <2>5, <3>2
      <4>2. QED BY <2>2, <2>3, <4>1 DEF ChainSteps
    <3>3. QED BY <3>1, <3>2
  <2>6. QED BY <2>4, <2>5 DEF ChainSteps
<1>2. ASSUME UNCHANGED <<chain, parent>>, TreeGroups' = TreeGroups
      PROVE  ChainSteps'
  BY <1>2 DEF ChainSteps
<1>3. ASSUME NEW g \in Groups, GroupDisappear(g) PROVE ChainSteps'
  <2>1. TreeGroups' = TreeGroups
    BY <1>3 DEF GroupDisappear, TypeOK, TreeGroups
  <2>2. QED BY <1>3, <2>1, <1>2 DEF GroupDisappear
<1>4. ASSUME NEW h \in Groups, VisitGroup(h) PROVE ChainSteps'
  <2>1. TreeGroups' = TreeGroups
    BY <1>4 DEF VisitGroup, TypeOK, TreeGroups, GroupsLeft, Children
  <2>2. QED BY <1>4, <2>1, <1>2 DEF VisitGroup
<1>5. CASE UiOn
  <2>1. TreeGroups' = TreeGroups
    BY <1>5, ItemsAssumption DEF UiOn, Fail, TypeOK, TreeGroups
  <2>2. QED BY <1>5, <2>1, <1>2 DEF UiOn, Fail
<1>6. CASE UiOff
  <2>1. TreeGroups' = TreeGroups
    BY <1>6 DEF UiOff, TreeGroups, HiddenGroups
  <2>2. QED BY <1>6, <2>1, <1>2 DEF UiOff
<1>7. ASSUME UNCHANGED <<chain, parent, gstate>> PROVE ChainSteps'
  BY <1>7 DEF ChainSteps, TreeGroups
<1>8. QED
  BY <1>1, <1>3, <1>4, <1>5, <1>6, <1>7
     DEF Next, Callback, Realtime, Walk, ParamAppear, ParamDisappear, ChangeRt,
         ApplySet, Attach, UiRun, Fail, VisitAppearing, VisitSettled,
         VisitDisappearing, Return

\* The walk has to visit p.
Busy(p) == pstate[p] \in Pending \/ (InTree(p) /\ valueChange[p])

\* What a walk with the interface on still has to visit is in a group it has yet
\* to enter, or is in.
WalkRest ==
  Running /\ ui /\ at # NoGroup =>
    /\ Root \notin left
    /\ \A p \in Params : Busy(p) => p \in left /\ pgroup[p] \in left \cup chain[at]
    /\ \A g \in Groups : gstate[g] \in Pending => g \in left
    /\ \A g \in Groups \cap left :
         gstate[g] \in Pending \/ count[g] # 0 => parent[g] \in left \cup chain[at]

\* Below a group with a zero counter nothing is to be visited.
LEMMA NothingBusyBelow ==
  ASSUME IInv, NoContexts, Exact, ChainSteps, NEW g \in TreeGroups, count[g] = 0
  PROVE  /\ \A p \in Params : Busy(p) => pgroup[p] # g
         /\ \A h \in TreeGroups \ {Root} :
              parent[h] = g => gstate[h] \notin Pending /\ count[h] = 0
<1> USE DEF IInv
<1>1. Owed(g) = 0 /\ g \in chain[g]
  BY DEF Exact, ChainOK, TreeGroups
<1>2. /\ Cardinality(GroupPending(g)) = 0 /\ Cardinality(ParamPending(g)) = 0
      /\ Cardinality(ValuePending(g)) = 0
  BY <1>1, PendingCards DEF Owed
<1>3. GroupPending(g) = {} /\ ParamPending(g) = {} /\ ValuePending(g) = {}
  BY <1>2, PendingFinite, CardHas
<1>4. ASSUME NEW p \in Params, Busy(p), pgroup[p] = g PROVE FALSE
  BY <1>1, <1>3, <1>4 DEF Busy, ParamPending, ValuePending
<1>5. ASSUME NEW h \in TreeGroups \ {Root}, parent[h] = g
      PROVE  gstate[h] \notin Pending /\ count[h] = 0
  <2>1. gstate[h] \notin Pending
    BY <1>1, <1>3, <1>5 DEF GroupPending, TreeGroups
  <2>2. g \in chain[h]
    BY <1>1, <1>5 DEF ChainOK
  <2>3. GroupPending(h) \subseteq GroupPending(g)
    <3>1. ASSUME NEW f \in Groups \ {Root}, gstate[f] \in Pending, h \in chain[parent[f]]
          PROVE  g \in chain[parent[f]]
      <4>1. f \in TreeGroups /\ parent[f] \in TreeGroups
        BY <3>1 DEF TreeGroups, Pending, ChainOK
      <4>2. QED BY <2>2, <3>1, <4>1 DEF ChainSteps
    <3>2. QED BY <3>1 DEF GroupPending
  <2>4. /\ ParamPending(h) \subseteq ParamPending(g)
        /\ ValuePending(h) \subseteq ValuePending(g)
    <3>1. ASSUME NEW p \in TreeParams, h \in chain[pgroup[p]]
          PROVE  g \in chain[pgroup[p]]
      <4>1. pgroup[p] \in TreeGroups
        BY DEF ChainOK
      <4>2. QED BY <2>2, <3>1, <4>1 DEF ChainSteps
    <3>2. QED BY <3>1 DEF ParamPending, ValuePending, TreeParams, InTree, Pending
  <2>5. Owed(h) = 0
    <3>1. /\ GroupPending(h) = {} /\ ParamPending(h) = {} /\ ValuePending(h) = {}
          /\ ContextPending(h) = {}
      BY <1>3, <2>3, <2>4, NoContextPending
    <3>2. QED BY <3>1, FS_EmptySet DEF Owed
  <2>6. QED BY <2>1, <2>5 DEF Exact, TreeGroups
<1>6. QED BY <1>4, <1>5

\* A group with a counter or a pending state is in the tree.
LEMMA BusyInTree ==
  ASSUME IInv, Exact, NEW g \in Groups, gstate[g] \in Pending \/ count[g] # 0
  PROVE  g \in TreeGroups
<1>1. CASE gstate[g] \in Pending
  BY <1>1 DEF Pending, TreeGroups
<1>2. CASE count[g] # 0
  <2>1. Owed(g) # 0
    BY <1>2 DEF Exact
  <2>2. SUFFICES ASSUME g \notin TreeGroups PROVE FALSE
    OBVIOUS
  <2>3. Owed(g) = 0
    BY <2>2, NothingBelowFree, FS_EmptySet DEF Owed
  <2>4. QED BY <2>1, <2>3
<1>3. QED BY <1>1, <1>2

\* The visit of a parameter leaves it done and raises no counter.
LEMMA VisitDone ==
  ASSUME IInv, NEW p \in Params, ui, fault' = "none",
         VisitAppearing(p) \/ VisitSettled(p) \/ VisitDisappearing(p)
  PROVE  /\ UNCHANGED <<chain, parent, gstate, pgroup, at, ui>>
         /\ left' = left \ {p} /\ ~Busy(p)'
         /\ \A q \in Params \ {p} : Busy(q)' <=> Busy(q)
         /\ \A g \in Groups : count'[g] # 0 => count[g] # 0
<1> USE DEF IInv, treeVars, instVars
<1>1. /\ UNCHANGED <<chain, parent, gstate, pgroup, at, ui>>
      /\ \E n \in Nat : Pay(p, n)
  <2>1. /\ One(valueChange[p]) \in Nat /\ 1 + One(valueChange[p]) \in Nat
        /\ One(contextChange[p]) + One(ui) + One(valueChange[p]) \in Nat
    BY DEF One
  <2>2. CASE VisitAppearing(p)
    BY <2>1, <2>2 DEF VisitAppearing
  <2>3. CASE VisitSettled(p)
    BY <2>1, <2>3 DEF VisitSettled
  <2>4. CASE VisitDisappearing(p)
    BY <2>1, <2>4 DEF VisitDisappearing
  <2>5. QED BY <2>2, <2>3, <2>4
<1>2. PICK n \in Nat : Pay(p, n)
  BY <1>1
<1>3. /\ CanDescend(at, n) /\ count' = Descended(at, n)
      /\ valueChange' = [valueChange EXCEPT ![p] = FALSE] /\ left' = left \ {p}
  BY <1>2 DEF Pay
<1>4. pstate'[p] \notin Pending
  BY DEF VisitAppearing, VisitSettled, VisitDisappearing, TypeOK, Appeared, Freed, Pending
<1>5. \A q \in Params \ {p} : pstate'[q] = pstate[q]
  BY DEF VisitAppearing, VisitSettled, VisitDisappearing, TypeOK
<1>6. \A g \in Groups : count'[g] # 0 => count[g] # 0
  BY <1>3 DEF TypeOK, CanDescend, Descended
<1>7. QED BY <1>1, <1>3, <1>4, <1>5, <1>6 DEF Busy, InTree, TypeOK

\* A walk starts with the whole tree to visit.
LEMMA StartRest ==
  ASSUME IInv, Exact, Exact', RootInv, UNCHANGED <<chain, parent, pgroup, pstate>>,
         UNCHANGED <<valueChange, count>>, StartWalk, gstate'[Root] = "nothing",
         \A g \in Groups \ {Root} : gstate'[g] = gstate[g]
  PROVE  WalkRest'
<1> USE ItemsAssumption DEF IInv, RootInv
<1>1. left' = (TreeGroups \cup TreeParams) \ {Root} /\ at' = Root /\ Root \notin TreeParams
  BY DEF StartWalk, TreeParams
<1>2. ASSUME NEW p \in Params, Busy(p)'
      PROVE  p \in left' /\ pgroup'[p] \in left' \cup chain'[at']
  <2>1. p \in TreeParams /\ p # Root
    BY <1>2 DEF Busy, Pending, InTree, TreeParams
  <2>2. pgroup[p] \in TreeGroups
    BY <2>1 DEF ChainOK
  <2>3. QED BY <1>1, <2>1, <2>2
<1>3. ASSUME NEW g \in Groups, gstate'[g] \in Pending PROVE g \in left'
  BY <1>1, <1>3 DEF Pending, TreeGroups
<1>4. ASSUME NEW g \in Groups \cap left'
      PROVE  parent'[g] \in left' \cup chain'[at']
  <2>1. g \in TreeGroups \ {Root}
    BY <1>1, <1>4 DEF TreeParams
  <2>2. QED BY <1>1, <2>1 DEF ChainOK
<1>5. QED BY <1>1, <1>2, <1>3, <1>4 DEF WalkRest

LEMMA WalkRestStep ==
  ASSUME IInv, IInv', NoContexts, ViewInv, RootInv, Exact, Exact', ChainSteps,
         WalkRest, Contextless, Next
  PROVE  WalkRest'
<1> USE DEF IInv, treeVars, pendVars, walkVars, instVars
<1> SUFFICES ASSUME fault' = "none", ui', at' # NoGroup PROVE WalkRest'
  BY DEF WalkRest, Running
<1>1. ASSUME Callback \/ Attach PROVE WalkRest'
  BY <1>1
     DEF Callback, GroupAppear, GroupDisappear, ParamAppear, ParamDisappear,
         CallbackTime, Idle, Attach
<1>2. CASE Realtime
  BY <1>2 DEF Realtime, ChangeRt, ApplySet, Idle, Contextless
<1>3. CASE UiRun
  <2>1. ~(ui /\ gstate[Root] # "nothing")
    BY <1>3 DEF UiRun, Fail
  <2>2. /\ UNCHANGED <<chain, parent, pgroup, pstate, gstate, valueChange, count, ui>>
        /\ StartWalk
    BY <1>3, <2>1 DEF UiRun
  <2>3. QED BY <2>1, <2>2, StartRest
<1>4. CASE UiOn
  <2>1. gstate[Root] = "appear"
    BY <1>4 DEF UiOn, Fail
  <2>2. /\ UNCHANGED <<chain, parent, pgroup, pstate, valueChange, count>>
        /\ StartWalk /\ gstate' = [gstate EXCEPT ![Root] = "nothing"]
    BY <1>4, <2>1 DEF UiOn
  <2>3. QED BY <2>2, ItemsAssumption, StartRest DEF TypeOK
<1>5. ASSUME NEW p \in Params,
             VisitAppearing(p) \/ VisitSettled(p) \/ VisitDisappearing(p)
      PROVE  WalkRest'
  <2>1. ui /\ Running /\ at # NoGroup
    BY <1>5
       DEF VisitAppearing, VisitSettled, VisitDisappearing, KeepWalking
  <2>2. p \notin Groups
    BY ItemsAssumption
  <2>3. /\ UNCHANGED <<chain, parent, gstate, pgroup, at, ui>>
        /\ left' = left \ {p} /\ ~Busy(p)'
        /\ \A q \in Params \ {p} : Busy(q)' <=> Busy(q)
        /\ \A g \in Groups : count'[g] # 0 => count[g] # 0
    BY <1>5, <2>1, VisitDone
  <2>4. ASSUME NEW q \in Params, Busy(q)'
        PROVE  q \in left' /\ pgroup'[q] \in left' \cup chain'[at']
    <3>1. q # p /\ Busy(q)
      BY <2>3, <2>4
    <3>2. q \in left /\ pgroup[q] \in left \cup chain[at] /\ pgroup[q] \in Groups
      BY <2>1, <3>1 DEF WalkRest, TypeOK
    <3>3. QED BY <2>2, <2>3, <3>1, <3>2
  <2>5. ASSUME NEW g \in Groups \cap left', gstate'[g] \in Pending \/ count'[g] # 0
        PROVE  parent'[g] \in left' \cup chain'[at']
    <3>1. g \in left /\ (gstate[g] \in Pending \/ count[g] # 0)
      BY <2>3, <2>5
    <3>2. g \in TreeGroups \ {Root} /\ parent[g] \in left \cup chain[at]
      BY <2>1, <3>1, BusyInTree DEF WalkRest
    <3>3. parent[g] \in Groups
      BY <3>2 DEF ChainOK, TreeGroups
    <3>4. QED BY <2>2, <2>3, <3>2, <3>3
  <2>6. QED
    BY <2>1, <2>2, <2>3, <2>4, <2>5 DEF WalkRest
<1>6. ASSUME NEW h \in Groups, VisitGroup(h) PROVE WalkRest'
  <2>1. /\ ui /\ Running /\ at # NoGroup
        /\ h \in TreeGroups \ {Root} /\ parent[h] = at
        /\ UNCHANGED <<chain, parent, pgroup, pstate, valueChange>>
        /\ left' = left \ {h} /\ at' = h
    BY <1>6 DEF VisitGroup, KeepWalking, GroupsLeft, Children, Descend
  <2>2. /\ \A f \in Groups \ {h} : gstate'[f] = gstate[f]
        /\ gstate'[h] \notin Pending
        /\ \A f \in Groups : count'[f] # 0 => count[f] # 0
    BY <1>6, <2>1
       DEF VisitGroup, TypeOK, CanDescend, Descended, Pending, WalkOK
  <2>3. chain[h] = chain[at] \cup {h}
    BY <2>1 DEF ViewInv, ChainView
  <2>4. \A p \in Params : p # h /\ (Busy(p)' <=> Busy(p))
    BY <2>1, ItemsAssumption DEF Busy, InTree
  <2>5. QED BY <2>1, <2>2, <2>3, <2>4 DEF WalkRest
<1>7. CASE Return
  <2>1. /\ ui /\ Running /\ at # NoGroup /\ at \in TreeGroups
        /\ UNCHANGED <<treeVars, pendVars, left>>
        /\ at # Root /\ at' = parent[at] /\ LoopsDone
    BY <1>7 DEF Return, WalkOK
  <2>2. chain[at] = chain[at'] \cup {at}
    BY <2>1 DEF ViewInv, ChainView
  <2>3. ASSUME NEW p \in Params, Busy(p) PROVE pgroup[p] # at
    <3>1. p \in left /\ p \in TreeParams
      BY <2>1, <2>3 DEF WalkRest, Busy, Pending, InTree, TreeParams
    <3>2. CASE count[at] = 0
      BY <2>1, <2>3, <3>2, NothingBusyBelow
    <3>3. CASE ParamsLeft(at) = {}
      BY <3>1, <3>3 DEF ParamsLeft, ParamsOf
    <3>4. QED BY <2>1, <3>2, <3>3 DEF LoopsDone
  <2>4. ASSUME NEW g \in Groups \cap left, gstate[g] \in Pending \/ count[g] # 0
        PROVE  parent[g] # at
    <3>1. g \in TreeGroups \ {Root}
      BY <2>1, <2>4, BusyInTree DEF WalkRest
    <3>2. CASE count[at] = 0
      BY <2>1, <2>4, <3>1, <3>2, NothingBusyBelow
    <3>3. CASE GroupsLeft(at) = {}
      BY <2>4, <3>1, <3>3 DEF GroupsLeft, Children
    <3>4. QED BY <2>1, <3>2, <3>3 DEF LoopsDone
  <2>5. \A p \in Params : Busy(p)' <=> Busy(p)
    BY <2>1 DEF Busy, InTree
  <2>6. QED BY <2>1, <2>2, <2>3, <2>4, <2>5 DEF WalkRest
<1>8. CASE Walk
  BY <1>5, <1>6, <1>7, <1>8 DEF Walk
<1>9. QED
  BY <1>1, <1>2, <1>3, <1>4, <1>8 DEF Next, UiOff, Contextless, Steady

\* Of the groups the walk has to visit, one is nearest to the root.
LEMMA NearestBusy ==
  ASSUME IInv, NEW B \in SUBSET Groups, B # {}
  PROVE  \E g \in B : \A f \in B : Cardinality(chain[g]) <= Cardinality(chain[f])
<1> DEFINE C == {Cardinality(chain[g]) : g \in B}
<1>1. \A g \in Groups : IsFiniteSet(chain[g]) /\ Cardinality(chain[g]) \in Nat
  BY FS_Subset, FS_CardinalityType, ItemsAssumption DEF IInv, TypeOK
<1>2. C \subseteq Nat /\ C # {}
  BY <1>1
<1>3. \E n \in C : \A m \in C : n <= m
  <2>1. PICK n \in C : \A m \in C : n <= m
    BY <1>2, LeastNumber
  <2>2. QED BY <2>1
<1>4. QED BY <1>3

\* When a call of notify for the root returns, its counter is zero.
LEMMA Drained ==
  ASSUME IInv, NoContexts, RootInv, Exact, ChainSteps, ViewInv, WalkRest, Running,
         ui, at = Root, LoopsDone
  PROVE  count[Root] = 0
<1> USE ItemsAssumption DEF IInv, RootInv
<1> SUFFICES ASSUME count[Root] # 0 PROVE FALSE
  OBVIOUS
<1> DEFINE B == {g \in Groups \cap left : gstate[g] \in Pending \/ count[g] # 0}
<1>1. /\ GroupsLeft(Root) = {} /\ ParamsLeft(Root) = {} /\ Root \notin left
      /\ Root \in TreeGroups
  BY DEF LoopsDone, WalkRest, ChainOK
<1>2. \A g \in TreeGroups : count[g] = 0 =>
        /\ \A p \in Params : Busy(p) => pgroup[p] # g
        /\ \A h \in TreeGroups \ {Root} :
              parent[h] = g => gstate[h] \notin Pending /\ count[h] = 0
  BY NothingBusyBelow
<1>3. \A g \in B : g \in TreeGroups \ {Root}
  BY <1>1, BusyInTree
<1>4. ASSUME NEW g \in B PROVE parent[g] \in B
  <2>1. g \in TreeGroups \ {Root} /\ parent[g] \in TreeGroups
    BY <1>3 DEF ChainOK
  <2>2. parent[g] \in left \cup {Root}
    BY DEF WalkRest
  <2>3. parent[g] # Root
    BY <1>1, <1>4, <2>1 DEF GroupsLeft, Children
  <2>4. count[parent[g]] # 0
    BY <1>2, <1>4, <2>1
  <2>5. QED BY <2>1, <2>2, <2>3, <2>4 DEF TreeGroups
<1>5. B # {}
  <2>1. Owed(Root) # 0
    BY DEF Exact
  <2>2. \/ GroupPending(Root) # {} \/ ParamPending(Root) # {}
        \/ ValuePending(Root) # {}
    <3>1. SUFFICES ASSUME GroupPending(Root) = {}, ParamPending(Root) = {},
                          ValuePending(Root) = {}
                   PROVE  FALSE
      OBVIOUS
    <3>2. ContextPending(Root) = {}
      BY NoContextPending
    <3>3. QED BY <2>1, <3>1, <3>2, FS_EmptySet DEF Owed
  <2>3. CASE GroupPending(Root) # {}
    <3>1. PICK g \in Groups : gstate[g] \in Pending
      BY <2>3 DEF GroupPending
    <3>2. QED BY <3>1 DEF WalkRest
  <2>4. CASE ParamPending(Root) # {} \/ ValuePending(Root) # {}
    <3>1. PICK p \in Params : Busy(p)
      BY <2>4 DEF ParamPending, ValuePending, Busy
    <3>2. p \in left /\ pgroup[p] \in left \cup {Root} /\ p \in TreeParams
      BY <3>1 DEF WalkRest, Busy, Pending, TreeParams, InTree
    <3>3. pgroup[p] \in TreeGroups /\ pgroup[p] # Root
      BY <1>1, <3>2 DEF ChainOK, ParamsLeft, ParamsOf
    <3>4. count[pgroup[p]] # 0
      BY <1>2, <3>1, <3>3
    <3>5. QED BY <3>2, <3>3, <3>4 DEF TreeGroups
  <2>5. QED BY <2>2, <2>3, <2>4
<1>6. PICK g \in B : \A f \in B : Cardinality(chain[g]) <= Cardinality(chain[f])
  BY <1>5, NearestBusy
<1>7. /\ chain[g] = chain[parent[g]] \cup {g} /\ g \notin chain[parent[g]]
      /\ IsFiniteSet(chain[parent[g]])
  <2>1. g \in TreeGroups \ {Root} /\ parent[g] \in Groups
    BY <1>3, <1>4
  <2>2. chain[parent[g]] \subseteq Groups
    BY <2>1 DEF TypeOK
  <2>3. QED BY <2>1, <2>2, FS_Subset DEF ViewInv, ChainView, ChainSteps
<1>8. Cardinality(chain[g]) = Cardinality(chain[parent[g]]) + 1
  BY <1>7, CardGain
<1>9. Cardinality(chain[parent[g]]) \in Nat
  BY <1>7, FS_CardinalityType
<1>10. QED BY <1>4, <1>6, <1>8, <1>9

\* For a program that does not turn its interface off and gives no contexts, the
\* asserts of ui_run and ui_on (host.c:1242, 1276) do not fail: for any tree and
\* any plugin a walk leaves nothing pending.
THEOREM WalksDrain == ASSUME Contextless PROVE Spec => []DrainAssert
<1> USE DEF Contextless
<1> DEFINE Inv == Exact /\ ChainSteps /\ WalkRest /\ DrainAssert
<1>1. Init => Exact
  BY InitExact
<1>2. Init => ChainSteps /\ WalkRest /\ DrainAssert
  BY ItemsAssumption DEF Init, ChainSteps, TreeGroups, WalkRest, DrainAssert
<1>3. IInv /\ IInv' /\ ViewInv /\ RootInv /\ Inv /\ [Next]_vars => Inv'
  <2>1. ASSUME IInv, IInv', ViewInv, RootInv, Inv, Next PROVE Inv'
    <3>0. NoContexts /\ NoContexts'
      BY <2>1, NoContextsHere
    <3>1. Exact' /\ ChainSteps'
      BY <2>1, <3>0, ExactStep, ChainStepsStep
    <3>2. WalkRest'
      BY <2>1, <3>0, <3>1, WalkRestStep
    <3>3. DrainAssert'
      <4>1. SUFFICES ASSUME fault' = "not_drained" PROVE FALSE
        BY DEF DrainAssert
      <4>2. Return /\ at = Root /\ ui /\ count[Root] # 0 /\ LoopsDone /\ Running
        BY <2>1, <4>1
           DEF Next, Callback, Realtime, Walk, GroupAppear, GroupDisappear,
               ParamAppear, ParamDisappear, ChangeRt, ApplySet, Attach, UiRun,
               UiOn, UiOff, Fail, VisitGroup, VisitAppearing, VisitSettled,
               VisitDisappearing, Pay, Return, DrainAssert, Running
      <4>3. QED BY <2>1, <3>0, <4>2, Drained
    <3>4. QED BY <3>1, <3>2, <3>3
  <2>2. ASSUME Inv, UNCHANGED vars PROVE Inv'
    <3>1. Exact'
      BY <2>2, ExactUnchanged DEF vars, treeVars, pendVars
    <3>2. QED
      BY <2>2, <3>1
         DEF vars, treeVars, pendVars, walkVars, instVars, ChainSteps, TreeGroups,
             WalkRest, Busy, InTree, DrainAssert, Running
  <2>3. QED BY <2>1, <2>2
<1>4. Inv => DrainAssert
  OBVIOUS
<1>5. QED
  BY <1>1, <1>2, <1>3, <1>4, SteadyInvariant, PTL DEF Spec

\* A group is freed during a walk only when the plugin removes groups.
GroupsStay ==
  "removes_groups" \notin Env =>
    NoUseAfterFree /\ \A g \in Groups : gstate[g] # "disappear"

LEMMA GroupsStayStep == ASSUME IInv, GroupsStay, Next PROVE GroupsStay'
<1> USE DEF IInv, treeVars, pendVars, walkVars, instVars, NoUseAfterFree
<1> SUFFICES ASSUME "removes_groups" \notin Env,
                    fault # "use_after_free",
                    \A g \in Groups : gstate[g] # "disappear"
             PROVE  /\ fault' # "use_after_free"
                    /\ \A g \in Groups : gstate'[g] # "disappear"
  BY DEF GroupsStay
<1>1. CASE Callback
  <2>1. UNCHANGED fault \/ fault' = "count_underflow"
    BY <1>1 DEF Callback, GroupAppear, GroupDisappear, ParamAppear, ParamDisappear
  <2>2. \A g \in Groups : gstate'[g] = gstate[g] \/ gstate'[g] = "appear"
    BY <1>1
       DEF Callback, GroupAppear, GroupDisappear, ParamAppear, ParamDisappear, TypeOK
  <2>3. QED BY <2>1, <2>2
<1>2. ASSUME NEW h \in Groups, VisitGroup(h)
      PROVE  /\ fault' # "use_after_free"
             /\ \A g \in Groups : gstate'[g] # "disappear"
  BY <1>2 DEF VisitGroup, TypeOK
<1>3. ASSUME NEW p \in Params,
             VisitAppearing(p) \/ VisitSettled(p) \/ VisitDisappearing(p)
      PROVE  /\ fault' # "use_after_free"
             /\ UNCHANGED gstate
  BY <1>3 DEF VisitAppearing, VisitSettled, VisitDisappearing, Pay
<1>4. CASE Return
  BY <1>4 DEF Return
<1>5. CASE Realtime \/ Attach \/ UiRun
  BY <1>5 DEF Realtime, ChangeRt, ApplySet, Attach, UiRun, Fail
<1>6. CASE UiOn \/ UiOff
  BY <1>6 DEF UiOn, UiOff, Fail, TypeOK
<1>7. QED BY <1>1, <1>2, <1>3, <1>4, <1>5, <1>6 DEF Next, Walk

LEMMA CallbacksGivenStep ==
  ASSUME NoNullCall, "no_callbacks" \notin Env, Next PROVE NoNullCall'
BY DEF NoNullCall, Next, Callback, Realtime, Walk, GroupAppear, GroupDisappear,
       ParamAppear, ParamDisappear, ChangeRt, ApplySet, Attach, UiRun, UiOn, UiOff,
       Fail, VisitGroup, VisitAppearing, VisitSettled, VisitDisappearing, Pay, Return

\* A plugin that adds and removes parameters and adds groups, with a program that
\* gives its callbacks and leaves the interface on, meets no failing assert and no
\* bad pointer of host.c, whatever the tree.
THEOREM NothingFails ==
  ASSUME Contextless, Env \cap {"removes_groups", "no_callbacks"} = {}
  PROVE  Spec => []Running
<1> DEFINE Inv == GroupsStay /\ NoNullCall
<1>1. Init => Inv
  BY ItemsAssumption DEF Init, GroupsStay, NoUseAfterFree, NoNullCall
<1>2. IInv /\ Inv /\ [Next]_vars => Inv'
  <2>1. ASSUME IInv, Inv, Next PROVE Inv'
    BY <2>1, GroupsStayStep, CallbacksGivenStep
  <2>2. ASSUME Inv, UNCHANGED vars PROVE Inv'
    BY <2>2 DEF vars, pendVars, GroupsStay, NoUseAfterFree, NoNullCall
  <2>3. QED BY <2>1, <2>2
<1>3. IInv /\ Inv /\ AssertsHold /\ DrainAssert => Running
  BY DEF IInv, TypeOK, Faults, GroupsStay, NoUseAfterFree, NoNullCall, AssertsHold,
         DrainAssert, Running
<1> HIDE DEF Inv
<1>4. QED
  BY <1>1, <1>2, <1>3, SteadyInvariant, AssertsNeverFail, WalksDrain, PTL
     DEF Spec, Contextless, Steady
=============================================================================
