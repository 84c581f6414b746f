------------------------------ MODULE HostTree ------------------------------
(***************************************************************************)
(* The host library's tree of groups and parameters and its deferred       *)
(* notification of the user interface (host/host.c, host/host_callbacks.c).*)
(*                                                                         *)
(* The plugin adds and removes items in the realtime thread.  The host     *)
(* library only records each change as a pending state of the item and     *)
(* counts it in the item's group and in every group above.  ui_run and     *)
(* ui_on later walk the tree in the user interface thread, skip every      *)
(* group whose counter is zero, tell the interface and pay the counters    *)
(* back; ui_off takes everything away from the interface again.            *)
(*                                                                         *)
(* The walk is one step per visited item.  Callbacks of the plugin happen  *)
(* between interface operations: the plugin makes them during attach and   *)
(* while it is told of a change, which realtime_run does with the lock     *)
(* held.  change_rt tells it too, and takes no lock; this module is of     *)
(* programs that do not call it during an interface operation, HostValues  *)
(* has, step by step, what it does to the counter when they do.            *)
(***************************************************************************)
EXTENDS Integers, FiniteSets

CONSTANTS
  Groups,     \* chunks of the groups pool
  Params,     \* chunks of the parameters pool
  Root,       \* the group that appears during attach
  NoGroup,    \* the NULL group pointer
  Env,        \* what the plugin and the host program do, a subset of Behaviours
  MaxCount    \* bound on the root's counter in ui_off and set_parameter

Behaviours ==
  { "removes",         \* the plugin removes parameters
    "removes_groups",  \* a plugin calls group_disappear
    "late_groups",     \* the plugin adds groups after attach
    "hides",           \* the host program turns its interface off
    "contexts",        \* set_parameter is given a non-NULL context
    "dirty_chunks",    \* the parameters pool does not clear its chunks
    "no_callbacks" }   \* attach is given no lifecycle callbacks

ASSUME ItemsAssumption ==
  /\ IsFiniteSet(Groups) /\ IsFiniteSet(Params)
  /\ Groups \cap Params = {}
  /\ Root \in Groups /\ NoGroup \notin Groups
ASSUME EnvAssumption == Env \subseteq Behaviours
ASSUME BoundAssumption == MaxCount \in Nat

States == {"free", "nothing", "appear", "disappear"}
ParamStates == States \cup {"lost"}   \* an enum's chunk, never given back
Types == {"plain", "enum"}
Faults == {"none", "count_underflow", "root_not_pending", "root_pending",
           "not_drained", "destroy_unset", "null_call", "use_after_free"}

VARIABLES
  parent,        \* parent_group_ptr of each group
  chain,         \* the groups a climb along parent_group_ptr from g visits
  gstate,        \* pending_state of each group
  count,         \* pending_childern_count of each group
  pgroup,        \* group_ptr of each parameter
  pstate,        \* pending_state of each parameter
  ptype,
  valueChange,   \* pending_value_change
  contextSet,    \* context_set
  contextChange, \* context_pending_value_change is not NULL
  ui,            \* instance_ptr->ui
  attached,      \* lv2dynparam_host_attach has returned
  at,            \* group the walk is in, NoGroup when no walk is running
  left,          \* items the walk has not visited
  live,          \* items the plugin has added and not removed
  told,          \* "appeared" minus "disappeared" calls the interface got
  fault          \* the assert or crash that ended the process

treeVars  == <<parent, chain, pgroup, ptype>>
pendVars  == <<gstate, pstate, count, valueChange, contextSet, contextChange>>
walkVars  == <<at, left>>
instVars  == <<ui, attached>>
vars == <<treeVars, pendVars, walkVars, instVars, live, told, fault>>

----------------------------------------------------------------------------
Items == Groups \cup Params
InTree(p) == pstate[p] \in {"nothing", "appear", "disappear"}
TreeGroups == {g \in Groups : gstate[g] # "free"}
TreeParams == {p \in Params : InTree(p)}
Children(g) == {h \in TreeGroups \ {Root} : parent[h] = g}
ParamsOf(g) == {p \in TreeParams : pgroup[p] = g}
Idle == at = NoGroup
Running == fault = "none"

\* A faulty Climbed: the climb along parent_group_ptr is forgotten.
ClimbedSelfOnly(g) == [count EXCEPT ![g] = @ + 1]
\* lv2dynparam_host_group_pending_children_count_increment, called from g.
Climbed(g) == [h \in Groups |-> IF h \in chain[g] THEN count[h] + 1 ELSE count[h]]

\* ..._decrement, called n times from g; its assert fails at a zero counter.
CanDescend(g, n) == \A h \in chain[g] : count[h] >= n
Descended(g, n) ==
  [h \in Groups |-> IF h \in chain[g] THEN count[h] - n ELSE count[h]]

\* An assert failed or a bad pointer was followed: the process is gone.
Fail(f) == /\ fault' = f
           /\ UNCHANGED <<treeVars, pendVars, walkVars, instVars, live, told>>

\* lv2dynparam_host_notify_group_appeared; faulty when the call is forgotten.
GroupNotAnnounced(h) == told
GroupAnnounced(h) == [told EXCEPT ![h] = @ + 1]

----------------------------------------------------------------------------
(* Callbacks from the plugin (host_callbacks.c), made during attach or when *)
(* it is told of a change (lv2dynparam.h:70).                               *)

CallbackTime == Running /\ Idle

\* lv2dynparam_host_group_appear for a group below par.
GroupAppear(par, g) ==
  /\ CallbackTime
  /\ attached => "late_groups" \in Env
  /\ gstate[g] = "free" /\ par \in TreeGroups \cap live
  /\ parent' = [parent EXCEPT ![g] = par]
  /\ chain' = [chain EXCEPT ![g] = chain[par] \cup {g}]
  /\ gstate' = [gstate EXCEPT ![g] = "appear"]
  /\ count' = [Climbed(par) EXCEPT ![g] = 0]
  /\ live' = live \cup {g}
  /\ UNCHANGED <<pgroup, ptype, pstate, valueChange, contextSet,
                 contextChange, walkVars, instVars, told, fault>>

\* lv2dynparam_host_group_disappear; the plugin has removed what g contained.
GroupDisappear(g) ==
  /\ CallbackTime /\ attached /\ "removes_groups" \in Env
  /\ g \in live \ {Root}
  /\ (Children(g) \cup ParamsOf(g)) \cap live = {}
  /\ \/ /\ gstate[g] = "appear"
        /\ IF CanDescend(parent[g], 1)
             THEN /\ gstate' = [gstate EXCEPT ![g] = "nothing"]
                  /\ count' = Descended(parent[g], 1)
                  /\ live' = live \ {g}
                  /\ UNCHANGED fault
             ELSE /\ fault' = "count_underflow"
                  /\ UNCHANGED <<gstate, count, live>>
     \/ /\ gstate[g] = "nothing"
        /\ gstate' = [gstate EXCEPT ![g] = "disappear"]
        /\ count' = Climbed(parent[g])
        /\ live' = live \ {g}
        /\ UNCHANGED fault
  /\ UNCHANGED <<treeVars, pstate, valueChange, contextSet, contextChange,
                 walkVars, instVars, told>>

\* lv2dynparam_host_parameter_appear: context_pending_value_change of the
\* chunk is not set.
ParamAppear(g, p, t) ==
  /\ CallbackTime
  /\ pstate[p] = "free" /\ g \in TreeGroups \cap live
  /\ pgroup' = [pgroup EXCEPT ![p] = g]
  /\ ptype' = [ptype EXCEPT ![p] = t]
  /\ pstate' = [pstate EXCEPT ![p] = "appear"]
  /\ valueChange' = [valueChange EXCEPT ![p] = FALSE]
  /\ contextSet' = [contextSet EXCEPT ![p] = FALSE]
  /\ count' = Climbed(g)
  /\ live' = live \cup {p}
  /\ UNCHANGED <<parent, chain, gstate, contextChange, walkVars, instVars,
                 told, fault>>

\* The state of a parameter removed before the interface knew of it; faulty
\* when it stays pending.
WithdrawnStillPending(p) == "appear"
Withdrawn(p) == "nothing"

\* lv2dynparam_host_parameter_disappear.
ParamDisappear(p) ==
  /\ CallbackTime /\ "removes" \in Env
  /\ p \in live \cap Params
  /\ \/ /\ pstate[p] = "appear"
        /\ IF CanDescend(pgroup[p], 1)
             THEN /\ pstate' = [pstate EXCEPT ![p] = Withdrawn(p)]
                  /\ count' = Descended(pgroup[p], 1)
                  /\ live' = live \ {p}
                  /\ UNCHANGED fault
             ELSE /\ fault' = "count_underflow"
                  /\ UNCHANGED <<pstate, count, live>>
     \/ /\ pstate[p] = "nothing"
        /\ pstate' = [pstate EXCEPT ![p] = "disappear"]
        /\ count' = Climbed(pgroup[p])
        /\ live' = live \ {p}
        /\ UNCHANGED fault
  /\ UNCHANGED <<treeVars, gstate, valueChange, contextSet, contextChange,
                 walkVars, instVars, told>>

----------------------------------------------------------------------------
(* The realtime thread (host.c). *)

\* lv2dynparam_parameter_change_rt between interface operations, on a handle the
\* created callback gave out.  Its early return is the stutter; what the plugin
\* does when it is told comes before, as actions of its own.
ChangeRt(p) ==
  /\ Running /\ attached /\ Idle
  /\ InTree(p) /\ contextSet[p]
  /\ pstate[p] = "nothing" /\ ~valueChange[p]
  /\ valueChange' = [valueChange EXCEPT ![p] = TRUE]
  /\ count' = Climbed(pgroup[p])
  /\ UNCHANGED <<treeVars, gstate, pstate, contextSet, contextChange,
                 walkVars, instVars, live, told, fault>>

\* lv2dynparam_host_realtime_run, one set_parameter message for a parameter the
\* tree contains; context is whether the message carries one.
ApplySet(p, context) ==
  /\ Running /\ Idle /\ attached /\ "contexts" \in Env
  /\ InTree(p)
  /\ contextChange' = [contextChange EXCEPT ![p] = context]
  /\ context => count[Root] < MaxCount
  /\ count' = IF context THEN Climbed(pgroup[p]) ELSE count
  /\ UNCHANGED <<treeVars, gstate, pstate, valueChange, contextSet,
                 walkVars, instVars, live, told, fault>>

----------------------------------------------------------------------------
(* The user interface thread (host.c). *)

\* The plugin's host_attach has returned, the handle is given to the program.
Attach ==
  /\ CallbackTime /\ ~attached
  /\ attached' = TRUE
  /\ UNCHANGED <<treeVars, pendVars, walkVars, ui, live, told, fault>>

StartWalk == at' = Root /\ left' = (TreeGroups \cup TreeParams) \ {Root}

\* lv2dynparam_host_ui_run up to its call of notify.
UiRun ==
  /\ Running /\ Idle /\ attached
  /\ IF ui /\ gstate[Root] # "nothing"
       THEN Fail("root_pending")
       ELSE /\ count[Root] # 0
            /\ StartWalk
            /\ UNCHANGED <<treeVars, pendVars, instVars, live, told, fault>>

\* lv2dynparam_host_ui_on up to its call of notify, which is unconditional.
UiOn ==
  /\ Running /\ Idle /\ attached /\ ~ui
  /\ IF gstate[Root] = "appear"
       THEN /\ ui' = TRUE
            /\ told' = GroupAnnounced(Root)
            /\ gstate' = [gstate EXCEPT ![Root] = "nothing"]
            /\ StartWalk
            /\ UNCHANGED <<treeVars, pstate, count, valueChange, contextSet,
                           contextChange, attached, live, fault>>
       ELSE Fail("root_not_pending")

\* What lv2dynparam_host_group_hide reaches from the root: it returns at once
\* from a group that is still pending appear.
HiddenGroups == {g \in TreeGroups : \A h \in chain[g] : gstate[h] # "appear"}
HiddenParams ==
  {p \in TreeParams : pgroup[p] \in HiddenGroups /\ pstate[p] # "appear"}
\* Line 692 counts each child group of a hidden group, hidden itself or not.
CountedGroups == {g \in TreeGroups \ {Root} : parent[g] \in HiddenGroups}
\* Faulty forms of HideCount: line 692 missing; decrement for increment.
HideSkipsGroups(h) == Cardinality({p \in HiddenParams : h \in chain[pgroup[p]]})
HidePaysBack(h) == 0 - HideSkipsGroups(h)
HideCount(h) == Cardinality({p \in HiddenParams : h \in chain[pgroup[p]]})
                + Cardinality({g \in CountedGroups : h \in chain[parent[g]]})

\* lv2dynparam_host_ui_off.
UiOff ==
  /\ Running /\ Idle /\ attached /\ "hides" \in Env
  /\ ui' = FALSE
  /\ count[Root] + HideCount(Root) <= MaxCount
  /\ count' = [h \in Groups |-> count[h] + HideCount(h)]
  /\ gstate' = [g \in Groups |-> IF g \in HiddenGroups THEN "appear" ELSE gstate[g]]
  /\ pstate' = [p \in Params |-> IF p \in HiddenParams THEN "appear" ELSE pstate[p]]
  /\ told' = [x \in Items |->
                IF x \in HiddenGroups \cup HiddenParams THEN told[x] - 1 ELSE told[x]]
  /\ UNCHANGED <<treeVars, valueChange, contextSet, contextChange, walkVars,
                 attached, live, fault>>

----------------------------------------------------------------------------
(* lv2dynparam_host_notify, one step per visited item.  A loop is left as soon
   as the group's counter is zero; child groups come before parameters. *)

GroupsLeft(g) == left \cap Children(g)
ParamsLeft(g) == left \cap ParamsOf(g)
KeepWalking == Running /\ at # NoGroup /\ count[at] # 0

Descend(h) == at' = h /\ left' = left \ {h}

\* A child group: told to the interface if it has to be, then walked itself.
VisitGroup(h) ==
  /\ KeepWalking /\ h \in GroupsLeft(at)
  /\ \/ /\ gstate[h] = "appear" /\ ui
        /\ IF CanDescend(at, 1)
             THEN /\ told' = GroupAnnounced(h)
                  /\ gstate' = [gstate EXCEPT ![h] = "nothing"]
                  /\ count' = Descended(at, 1)
                  /\ Descend(h)
                  /\ UNCHANGED fault
             ELSE /\ fault' = "count_underflow"
                  /\ UNCHANGED <<told, gstate, count, walkVars>>
     \/ /\ gstate[h] = "nothing" \/ (gstate[h] = "appear" /\ ~ui)
        /\ Descend(h)
        /\ UNCHANGED <<told, gstate, count, fault>>
     \/ /\ gstate[h] = "disappear"   \* freed, then recursed into and stepped over
        /\ fault' = "use_after_free"
        /\ UNCHANGED <<told, gstate, count, walkVars>>
  /\ UNCHANGED <<treeVars, pstate, valueChange, contextSet, contextChange,
                 instVars, live>>

One(b) == IF b THEN 1 ELSE 0

\* The visit of p pays n counts back and leaves the pending value flag clear.
Pay(p, n) ==
  IF CanDescend(at, n)
    THEN /\ count' = Descended(at, n)
         /\ valueChange' = [valueChange EXCEPT ![p] = FALSE]
         /\ left' = left \ {p}
         /\ UNCHANGED fault
    ELSE /\ fault' = "count_underflow"
         /\ UNCHANGED <<count, valueChange, left>>

\* Faulty: line 583 is missing.
AppearedUnsettled(p) == pstate[p]
Appeared(p) == IF ui THEN "nothing" ELSE pstate[p]

\* case LV2DYNPARAM_PENDING_APPEAR.
VisitAppearing(p) ==
  /\ KeepWalking /\ GroupsLeft(at) = {} /\ p \in ParamsLeft(at)
  /\ pstate[p] = "appear"
  /\ IF ~contextSet[p] /\ "no_callbacks" \in Env
       THEN /\ fault' = "null_call"
            /\ UNCHANGED <<count, valueChange, left, contextSet, contextChange,
                           pstate, told>>
       ELSE /\ Pay(p, One(contextChange[p]) + One(ui) + One(valueChange[p]))
            /\ contextSet' = [contextSet EXCEPT ![p] = TRUE]
            /\ contextChange' = [contextChange EXCEPT ![p] = FALSE]
            /\ pstate' = [pstate EXCEPT ![p] = Appeared(p)]
            /\ told' = [told EXCEPT ![p] = IF ui THEN @ + 1 ELSE @]
  /\ UNCHANGED <<treeVars, gstate, instVars, live, at>>

\* case LV2DYNPARAM_PENDING_NOTHING: only a pending value change is delivered.
VisitSettled(p) ==
  /\ KeepWalking /\ GroupsLeft(at) = {} /\ p \in ParamsLeft(at)
  /\ pstate[p] = "nothing"
  /\ Pay(p, One(valueChange[p]))
  /\ UNCHANGED <<treeVars, gstate, pstate, contextSet, contextChange, instVars,
                 live, at, told>>

\* lv2dynparam_host_parameter_free returns before the deallocation of an enum.
Freed(p) == IF ptype[p] = "enum" THEN "lost" ELSE "free"

\* context_set is cleared with the destroying callback; faulty without line 606.
ContextKept(p) == contextSet[p]
ContextAfterDestroy(p) == contextSet[p] /\ "no_callbacks" \in Env

\* case LV2DYNPARAM_PENDING_DISAPPEAR.  The flag tested afterwards is read from
\* the chunk just freed, where it keeps its value.
VisitDisappearing(p) ==
  /\ KeepWalking /\ GroupsLeft(at) = {} /\ p \in ParamsLeft(at)
  /\ pstate[p] = "disappear"
  /\ IF ~contextSet[p] /\ "no_callbacks" \notin Env
       THEN /\ fault' = "destroy_unset"
            /\ UNCHANGED <<count, valueChange, left, contextSet, pstate, told>>
       ELSE /\ Pay(p, 1 + One(valueChange[p]))
            /\ contextSet' = [contextSet EXCEPT ![p] = ContextAfterDestroy(p)]
            /\ pstate' = [pstate EXCEPT ![p] = Freed(p)]
            /\ told' = [told EXCEPT ![p] = IF ui THEN @ - 1 ELSE @]
  /\ UNCHANGED <<treeVars, gstate, contextChange, instVars, live, at>>

\* A call of notify returns; the root's ends ui_run or ui_on with its assert.
\* Faulty: the loop over the parameters is not waited for.
GroupLoopDone == count[at] = 0 \/ GroupsLeft(at) = {}
LoopsDone == count[at] = 0 \/ (GroupsLeft(at) = {} /\ ParamsLeft(at) = {})
Return ==
  /\ Running /\ at # NoGroup /\ LoopsDone
  /\ IF at # Root
       THEN at' = parent[at] /\ UNCHANGED <<left, fault>>
       ELSE IF ui /\ count[Root] # 0
              THEN fault' = "not_drained" /\ UNCHANGED walkVars
              ELSE at' = NoGroup /\ left' = {} /\ UNCHANGED fault
  /\ UNCHANGED <<treeVars, pendVars, instVars, live, told>>

----------------------------------------------------------------------------
Init ==
  /\ parent = [g \in Groups |-> NoGroup]
  /\ chain = [g \in Groups |-> {g}]
  /\ gstate = [g \in Groups |-> IF g = Root THEN "appear" ELSE "free"]
  /\ count = [g \in Groups |-> 0]
  /\ pgroup = [p \in Params |-> Root]
  /\ pstate = [p \in Params |-> "free"]
  /\ ptype = [p \in Params |-> "plain"]
  /\ valueChange = [p \in Params |-> FALSE]
  /\ contextSet = [p \in Params |-> FALSE]
  /\ contextChange \in [Params -> IF "dirty_chunks" \in Env THEN BOOLEAN ELSE {FALSE}]
  /\ ui = FALSE /\ attached = FALSE
  /\ at = NoGroup /\ left = {}
  /\ live = {Root}
  /\ told = [x \in Items |-> 0]
  /\ fault = "none"

Callback ==
  \/ \E par \in Groups, g \in Groups : GroupAppear(par, g)
  \/ \E g \in Groups : GroupDisappear(g)
  \/ \E g \in Groups, p \in Params, t \in Types : ParamAppear(g, p, t)
  \/ \E p \in Params : ParamDisappear(p)
Realtime ==
  \/ \E p \in Params : ChangeRt(p)
  \/ \E p \in Params, context \in BOOLEAN : ApplySet(p, context)
Walk ==
  \/ \E h \in Groups : VisitGroup(h)
  \/ \E p \in Params : VisitAppearing(p) \/ VisitSettled(p) \/ VisitDisappearing(p)
  \/ Return

Next == Callback \/ Realtime \/ Attach \/ UiRun \/ UiOn \/ UiOff \/ Walk
Spec == Init /\ [][Next]_vars

\* The host program keeps calling ui_run and a call runs to its end.
FairSpec == Spec /\ WF_vars(UiRun) /\ WF_vars(Walk)
----------------------------------------------------------------------------
(* Properties. *)

TypeOK ==
  /\ parent \in [Groups -> Groups \cup {NoGroup}]
  /\ chain \in [Groups -> SUBSET Groups]
  /\ gstate \in [Groups -> States]
  /\ count \in [Groups -> Nat]
  /\ pgroup \in [Params -> Groups]
  /\ pstate \in [Params -> ParamStates]
  /\ ptype \in [Params -> Types]
  /\ valueChange \in [Params -> BOOLEAN]
  /\ contextSet \in [Params -> BOOLEAN]
  /\ contextChange \in [Params -> BOOLEAN]
  /\ ui \in BOOLEAN /\ attached \in BOOLEAN
  /\ at \in Groups \cup {NoGroup}
  /\ left \in SUBSET Items
  /\ live \in SUBSET Items
  /\ told \in [Items -> Int]
  /\ fault \in Faults

Pending == {"appear", "disappear"}

\* What the walk still has to deliver at or below x.
GroupPending(x) ==
  {g \in Groups \ {Root} : gstate[g] \in Pending /\ x \in chain[parent[g]]}
ParamPending(x) ==
  {p \in Params : pstate[p] \in Pending /\ x \in chain[pgroup[p]]}
ValuePending(x) ==
  {p \in Params : InTree(p) /\ valueChange[p] /\ x \in chain[pgroup[p]]}
ContextPending(x) ==
  {p \in Params : InTree(p) /\ contextChange[p] /\ x \in chain[pgroup[p]]}
Owed(x) == Cardinality(GroupPending(x)) + Cardinality(ParamPending(x))
           + Cardinality(ValuePending(x)) + Cardinality(ContextPending(x))

\* notify prunes by pending_childern_count: no group's counter may be smaller
\* than what is pending below it, or the walk skips or stops short of an item.
CountCovers == \A x \in Groups : count[x] >= Owed(x)

\* Without ui_off the counter is exactly what is pending, so that ui_run can
\* bring the root's counter to zero.
CountExact == Running => \A x \in Groups : count[x] = Owed(x)

\* The asserts on the counters (host.c:294), on the root's state (1231, 1265)
\* and on the context of a destroyed parameter (602) do not fail.
AssertsHold == fault \notin {"count_underflow", "root_not_pending",
                             "root_pending", "destroy_unset"}

\* The assert of ui_run and ui_on (host.c:1242, 1276): with the interface on, a
\* walk leaves nothing pending under the root.
DrainAssert == fault # "not_drained"

\* ui_run never follows a group that a walk has freed.
NoUseAfterFree == fault # "use_after_free"

\* The lifecycle callbacks are only called when attach was given them.
NoNullCall == fault # "null_call"

Shown(x) == told[x] = 1

\* The interface is given the ui_context of an item's group: whatever it shows
\* hangs below a group it shows, also in the middle of a walk.
ShownUnderShown ==
  /\ \A g \in TreeGroups \ {Root} : Shown(g) => Shown(parent[g])
  /\ \A p \in TreeParams : Shown(p) => Shown(pgroup[p])

\* Appear and disappear calls alternate for each item, so that a ui_context is
\* never replaced while in use nor passed before it was set.
ToldInTurn == \A x \in Items : told[x] \in {0, 1}

\* Once a walk has brought the root's counter to zero the interface shows
\* everything the plugin owns: the pruned walk has missed nothing.
LiveShown ==
  Running /\ ui /\ Idle /\ count[Root] = 0 => \A x \in live : Shown(x)

\* ... and nothing that the plugin has removed.
ViewIsLive ==
  Running /\ ui /\ Idle /\ count[Root] = 0 => {x \in Items : Shown(x)} = live

\* The program holds a context exactly for parameters of the tree, and has it
\* before the interface is shown the parameter.
ContextLifetime ==
  \A p \in Params : /\ contextSet[p] => InTree(p)
                    /\ Running /\ Shown(p) => contextSet[p]

\* The interface is never told that a parameter appeared that the plugin has
\* already removed.
RemovedStaysRemoved ==
  [][\A p \in Params : told'[p] > told[p] => p \in live]_vars

\* When the program keeps calling ui_run, the interface catches up with what the
\* realtime thread has done to each parameter: one the plugin keeps is shown
\* while the interface is on, one it has removed leaves the tree, and a change
\* made with change_rt is told, whatever comes up in between.
ScreenCatchesUp ==
  \A p \in Params :
    /\ (p \in live /\ ui) ~> (Shown(p) \/ p \notin live \/ ~ui)
    /\ (pstate[p] = "disappear") ~> ~InTree(p)
    /\ valueChange[p] ~> ~valueChange[p]

\* The calls the host library makes keep the contract of host.h with the
\* interface: an item appears below a group that is shown, once, and disappears
\* only when it is shown.
Contract == INSTANCE UiContract WITH
  Things <- Items, Top <- Root,
  holder <- [x \in Items |-> IF x \in Groups THEN parent[x] ELSE pgroup[x]]
KeepsContract == Contract!Spec
=============================================================================
