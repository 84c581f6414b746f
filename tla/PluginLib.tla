------------------------------ MODULE PluginLib ------------------------------
(***************************************************************************)
(* The plugin library's groups and parameters and the calls by which it    *)
(* announces them to a host (plugin/plugin.c, group.c, parameter.c).       *)
(*                                                                         *)
(* Every item carries a pending state that is cleared when a host callback *)
(* succeeds.  Before host_attach nothing is announced; host_attach walks   *)
(* the whole tree; afterwards each call announces its own item.  The host  *)
(* is any program that follows lv2dynparam.h, which may refuse a call.     *)
(* Groups are never removed: the library has no operation for it.          *)
(***************************************************************************)
EXTENDS Integers, Sequences, FiniteSets, Lists

CONSTANTS
  Groups,    \* the root group and the chunks of the groups pool
  Params,    \* chunks of the parameters pool
  Root,
  Names,     \* names the plugin gives to parameters
  Types,     \* parameter types
  Env,       \* what the host does, a subset of Behaviours
  MaxPending \* bound on the instance's counter, at which nothing is removed

Behaviours ==
  { "refuses_appear",     \* group_appear and parameter_appear may return zero
    "refuses_disappear",  \* parameter_disappear may return zero
    "reattaches" }        \* the host attaches again, as a new host instance

ASSUME ItemsAssumption ==
  /\ IsFiniteSet(Groups) /\ IsFiniteSet(Params)
  /\ Root \in Groups /\ Groups \cap Params = {}
ASSUME NamesAssumption == Names # {} /\ Types # {}
ASSUME EnvAssumption == Env \subseteq Behaviours /\ MaxPending \in Nat

VARIABLES
  attached,   \* host_callbacks is not NULL
  chain,      \* the groups from g up to the root
  gpending,   \* pending of each group, "free" for an unused chunk
  parent,     \* group_ptr of each group
  list,       \* child_parameters of each group
  ppending,   \* pending of each parameter
  pname, ptype,
  hinted,     \* items whose hints are not empty
  pending,    \* the instance's counter
  owned,      \* items the plugin has a handle of
  wanted,     \* history: the type the plugin added each parameter with
  asked,      \* history: items the plugin gave hints for
  known,      \* items the attached host has
  fault       \* the assert or the bad pointer that ended the process

groupVars == <<chain, gpending, parent>>
paramVars == <<list, ppending, pname, ptype>>
askVars == <<wanted, asked>>
vars == <<attached, groupVars, paramVars, hinted, pending, owned, askVars, known,
          fault>>

GroupStates == {"free", "appear", "nothing"}
ParamStates == {"free", "appear", "nothing", "disappear", "change"}
Faults == {"none", "assert_duplicate", "assert_change", "bad_context"}

Items == Groups \cup Params
Running == fault = "none"
ParamsOf(g) == Entries(list[g])
GroupOf(p) == CHOOSE g \in Groups : p \in ParamsOf(g)
\* Faulty: list_del is forgotten.
StillLinked(s, gone) == s
Unlinked(s, gone) == Without(s, gone)

Fail(f) == /\ fault' = f
           /\ UNCHANGED <<attached, groupVars, paramVars, hinted, pending,
                          owned, askVars, known>>

\* The answer of the host to a call.
MayAppear(ok) == ok \/ "refuses_appear" \in Env
MayDisappear(ok) == ok \/ "refuses_disappear" \in Env

----------------------------------------------------------------------------
(* Announcing (lv2dynparam_plugin_param_notify, ..._group_notify). *)

\* The pending state after the host's answer; a refused call leaves it.
\* Faulty: the answer is not looked at.
SettledAnyway(s, ok) ==
  IF s = "appear" THEN "nothing" ELSE IF s = "disappear" THEN "free" ELSE s
Settled(s, ok) ==
  IF ~ok THEN s
  ELSE IF s = "appear" THEN "nothing" ELSE IF s = "disappear" THEN "free" ELSE s

\* The groups whose pending appear the walk of host_attach reaches: it turns
\* back at a group that has nothing pending.
Entered == {g \in Groups : \A h \in chain[g] : gpending[h] = "appear"}

\* lv2dynparam_plugin_host_attach.
HostAttach(refused) ==
  LET told == Entered \cup UNION {ParamsOf(g) : g \in Entered}
      nowHas == Entered \ refused   \* a host starts with nothing
      visited == {p \in told \cap Params : ppending[p] # "nothing"}
      gone == {p \in visited \ refused : ppending[p] = "disappear"}
  IN /\ Running /\ (attached => "reattaches" \in Env)
     /\ refused \subseteq Entered \cup visited
     /\ refused # {} => "refuses_appear" \in Env
     /\ IF \E p \in visited : ppending[p] = "change"
          THEN Fail("assert_change")
        ELSE IF \/ \E g \in Entered \ {Root} : parent[g] \notin nowHas
                \/ \E g \in Entered : ParamsOf(g) \cap visited # {} /\ g \notin nowHas
          THEN Fail("bad_context")
        ELSE /\ attached' = TRUE
             /\ gpending' = [g \in Groups |-> IF g \in Entered
                               THEN Settled(gpending[g], g \notin refused)
                               ELSE gpending[g]]
             /\ ppending' = [p \in Params |-> IF p \in visited
                               THEN Settled(ppending[p], p \notin refused)
                               ELSE ppending[p]]
             /\ list' = [g \in Groups |-> Unlinked(list[g], gone)]
             /\ pending' = pending - Cardinality((Entered \cup visited) \ refused)
             /\ known' = nowHas \cup ((visited \ refused) \ gone)
             /\ UNCHANGED <<chain, parent, pname, ptype, hinted, owned, askVars, fault>>

----------------------------------------------------------------------------
(* What the plugin calls. *)

\* lv2dynparam_plugin_group_add; without an attached host nothing is announced.
GroupAdd(par, g, hint, ok) ==
  /\ Running /\ MayAppear(ok)
  /\ gpending[g] = "free" /\ par \in owned \cap Groups
  /\ IF attached /\ par \notin known
       THEN Fail("bad_context")
       ELSE /\ gpending' = [gpending EXCEPT ![g] =
                              IF attached THEN Settled("appear", ok) ELSE "appear"]
            /\ parent' = [parent EXCEPT ![g] = par]
            /\ chain' = [chain EXCEPT ![g] = chain[par] \cup {g}]
            /\ pending' = IF attached /\ ok THEN pending ELSE pending + 1
            /\ hinted' = IF hint THEN hinted \cup {g} ELSE hinted
            /\ asked' = IF hint THEN asked \cup {g} ELSE asked
            /\ owned' = owned \cup {g}
            /\ known' = IF attached /\ ok THEN known \cup {g} ELSE known
            /\ UNCHANGED <<attached, paramVars, wanted, fault>>

\* The search of ..._param_boolean_add and its siblings stops at the first
\* parameter of the name.
SameName(g, n) == {i \in 1..Len(list[g]) : pname[list[g][i]] = n}
First(g, n) == list[g][CHOOSE i \in SameName(g, n) : \A j \in SameName(g, n) : i <= j]

\* The plugin adds a name only when it has no parameter of that name there.
NameIsFree(g, n) == \A p \in ParamsOf(g) \cap owned : pname[p] # n

\* Faulty: a parameter of another type is reused as well.
ReusableAnyType(q, t) == ppending[q] = "disappear"
Reusable(q, t) == ppending[q] = "disappear" /\ ptype[q] = t

\* Faulty: the line that sets LV2DYNPARAM_PENDING_CHANGE is missing.
StillLeaving == "disappear"
Reused == "change"

\* The parameter pending disappear is taken into use again.
ParamReuse(g, n, t, hint) ==
  /\ Running /\ g \in owned \cap Groups /\ NameIsFree(g, n)
  /\ SameName(g, n) # {}
  /\ LET q == First(g, n) IN
       /\ Reusable(q, t)
       /\ ppending' = [ppending EXCEPT ![q] = Reused]
       /\ owned' = owned \cup {q}
       /\ asked' = IF hint THEN asked \cup {q} ELSE asked \ {q}
       /\ wanted' = [wanted EXCEPT ![q] = t]
  /\ UNCHANGED <<attached, groupVars, list, pname, ptype, hinted, pending, known,
                 fault>>

\* What is done with the hints the plugin gives: the argument is not used.
HintsStored(p, hint) == hinted \ {p}

\* A new parameter, announced at once if a host is attached.
ParamAdd(g, n, t, hint, p, ok) ==
  /\ Running /\ MayAppear(ok) /\ g \in owned \cap Groups /\ NameIsFree(g, n)
  /\ ppending[p] = "free"
  /\ SameName(g, n) # {} => ~Reusable(First(g, n), t)
  /\ IF SameName(g, n) # {} /\ ppending[First(g, n)] # "disappear"
       THEN Fail("assert_duplicate")
     ELSE IF attached /\ g \notin known
       THEN Fail("bad_context")
     ELSE /\ ppending' = [ppending EXCEPT ![p] =
                            IF attached THEN Settled("appear", ok) ELSE "appear"]
          /\ pname' = [pname EXCEPT ![p] = n]
          /\ ptype' = [ptype EXCEPT ![p] = t]
          /\ wanted' = [wanted EXCEPT ![p] = t]
          /\ list' = [list EXCEPT ![g] = Append(@, p)]
          /\ pending' = IF attached /\ ok THEN pending ELSE pending + 1
          /\ hinted' = HintsStored(p, hint)
          /\ asked' = IF hint THEN asked \cup {p} ELSE asked \ {p}
          /\ owned' = owned \cup {p}
          /\ known' = IF attached /\ ok THEN known \cup {p} ELSE known
          /\ UNCHANGED <<attached, groupVars, fault>>

\* Faulty: the pending state is not tested.
AlwaysUntold(p) == TRUE
StillUntold(p) == ppending[p] = "appear"

\* lv2dynparam_plugin_param_remove: a parameter the host does not have is freed
\* at once, another when the host has let it go.
ParamRemove(p, ok) ==
  /\ Running /\ p \in owned \cap Params /\ pending < MaxPending
  /\ LET freed == StillUntold(p) \/ (attached /\ ok) IN
       /\ ppending' = [ppending EXCEPT ![p] =
            IF StillUntold(p) THEN "free"
            ELSE IF attached THEN Settled("disappear", ok) ELSE "disappear"]
       /\ list' = IF freed THEN [g \in Groups |-> Unlinked(list[g], {p})] ELSE list
       /\ hinted' = IF freed THEN hinted \ {p} ELSE hinted
       /\ pending' = IF StillUntold(p) THEN pending - 1
                     ELSE IF attached /\ ok THEN pending ELSE pending + 1
       /\ known' = IF freed THEN known \ {p} ELSE known
  /\ MayDisappear(ok)
  /\ owned' = owned \ {p}
  /\ asked' = asked \ {p}
  /\ UNCHANGED <<attached, groupVars, pname, ptype, wanted, fault>>

----------------------------------------------------------------------------
\* After lv2dynparam_plugin_instantiate, which sets the counter to zero after
\* group_init has counted the root group.
Init ==
  /\ attached = FALSE
  /\ chain = [g \in Groups |-> {g}]
  /\ gpending = [g \in Groups |-> IF g = Root THEN "appear" ELSE "free"]
  /\ parent = [g \in Groups |-> Root]
  /\ list = [g \in Groups |-> <<>>]
  /\ ppending = [p \in Params |-> "free"]
  /\ pname \in [Params -> {CHOOSE n \in Names : TRUE}]
  /\ ptype \in [Params -> {CHOOSE t \in Types : TRUE}]
  /\ wanted = ptype
  /\ hinted = {}
  /\ pending = 0
  /\ owned = {Root} /\ asked = {} /\ known = {}
  /\ fault = "none"

Add == \E hint, ok \in BOOLEAN :
  \/ \E par, g \in Groups : GroupAdd(par, g, hint, ok)
  \/ \E g \in Groups, n \in Names, t \in Types :
       ParamReuse(g, n, t, hint) \/ \E p \in Params : ParamAdd(g, n, t, hint, p, ok)
Remove == \E p \in Params, ok \in BOOLEAN : ParamRemove(p, ok)
Attach == \E refused \in SUBSET Items : HostAttach(refused)

Next == Attach \/ Add \/ Remove
Spec == Init /\ [][Next]_vars

\* The host attaches in the end, and the plugin goes on changing its tree.
FairSpec == Spec /\ WF_vars(Attach) /\ WF_vars(Add) /\ WF_vars(Remove)

----------------------------------------------------------------------------
(* Properties. *)

TypeOK ==
  /\ attached \in BOOLEAN
  /\ chain \in [Groups -> SUBSET Groups] /\ gpending \in [Groups -> GroupStates]
  /\ parent \in [Groups -> Groups]
  /\ list \in [Groups -> Seq(Params)]
  /\ ppending \in [Params -> ParamStates]
  /\ pname \in [Params -> Names] /\ ptype \in [Params -> Types]
  /\ hinted \in SUBSET Items /\ pending \in -1..MaxPending + Cardinality(Items)
  /\ wanted \in [Params -> Types]
  /\ owned \in SUBSET Items /\ asked \in SUBSET Items /\ known \in SUBSET Items
  /\ fault \in Faults

Waiting == {g \in Groups : gpending[g] = "appear"}
           \cup {p \in Params : ppending[p] \in {"appear", "disappear"}}

\* What the library believes the host has is what the host has: a refused call
\* is not taken for done, nor is a done call lost.
HostView ==
  attached /\ Running =>
    known = {g \in Groups : gpending[g] = "nothing"}
            \cup {p \in Params : ppending[p] \in {"nothing", "disappear", "change"}}

\* A handle the plugin holds is of a parameter in use of the type it was added
\* with, whatever chunk was taken into use again for it; the parameter is in
\* exactly one list and the library is not about to free it (parameter.c:269-279,
\* 343-348); a chunk that was freed is in no list.
HandlesInUse ==
  \A p \in Params :
    /\ p \in owned =>
         /\ ppending[p] \in {"appear", "nothing", "change"}
         /\ ptype[p] = wanted[p]
         /\ Cardinality({g \in Groups : p \in ParamsOf(g)}) = 1
    /\ ppending[p] = "free" => \A g \in Groups : p \notin ParamsOf(g)

\* A plugin that never adds a name it still has meets no assert (333, 282).
AssertsHold == fault \notin {"assert_duplicate", "assert_change"}

\* Whatever the host refuses, the counter is never more than the one that
\* instantiate drops short of what is waiting to be announced.
CounterAtMostOneShort == Running => pending + 1 >= Cardinality(Waiting)

\* A call carries the host context of a group that the host has appeared.
ContextsGiven == fault # "bad_context"

\* Groups do not contain two parameters with the same name.
NamesDiffer ==
  \A g \in Groups : \A i, j \in 1..Len(list[g]) :
    i # j => pname[list[g][i]] # pname[list[g][j]]

\* The hints the plugin gives are the hints the host is told.
HintsReachHost == \A x \in known \cap asked : x \in hinted

\* A parameter taken into use again is announced with what the plugin gave for it
\* anew, its range or its values (parameter.c:346, 394).
ReuseIsTold == \A p \in known \cap owned \cap Params : ppending[p] # "change"

\* A host that attaches is told of everything the plugin has.
AttachAnnounces == [][HostAttach({}) => owned \subseteq known']_vars

\* A refused call is repeated in the end.
RefusedIsRetried ==
  \A p \in Params : (attached /\ ppending[p] = "appear") ~> (ppending[p] # "appear")
=============================================================================
