------------------------------ MODULE ParamLink ------------------------------
(***************************************************************************)
(* One parameter across both libraries and the interface: the plugin       *)
(* library's chunk, the host library's chunk that holds its handle and the *)
(* pointer to its value, and the handle the interface got.  Parameters     *)
(* come and go while messages for them are queued, and the pools hand the  *)
(* chunks out again (plugin/parameter.c, host/host.c, host_callbacks.c).   *)
(*                                                                         *)
(* PluginLib and HostTree model the two libraries on their own; here both  *)
(* have one group, nothing is refused and the interface is on.  As         *)
(* lv2dynparam.h demands, the plugin adds and removes only in host_attach  *)
(* and in the callback by which it learns of a change.  Calls that take    *)
(* the audiolock are atomic; realtime_run is one step per message, with    *)
(* the plugin's callback in between.                                       *)
(***************************************************************************)
EXTENDS Integers, Sequences, FiniteSets, Lists

CONSTANTS
  Ids,        \* the parameters the plugin ever adds, one after the other
  Names,
  PChunks,    \* chunks of the plugin library's parameters pool
  HChunks,    \* chunks of the host library's parameters pool
  NoId, NoChunk,
  Env,        \* a subset of Behaviours
  MaxQueue    \* bound on the queued messages

Behaviours == { "removes",   \* the plugin removes parameters
                "sets",      \* the program calls set_parameter
                "rt" }       \* the program calls parameter_change_rt

ASSUME LinkAssumption ==
  /\ Ids # {} /\ Names # {} /\ PChunks # {}
  /\ NoId \notin Ids /\ NoChunk \notin HChunks
  /\ Env \subseteq Behaviours /\ MaxQueue \in Nat

VARIABLES
  rt,        \* where the realtime thread is, or that host_attach still runs
  inChunk,   \* the parameter in each chunk of the plugin, NoId when free
  name,      \* of each parameter
  hstate,    \* pending_state of each chunk of the host
  hid,       \* the parameter the host's chunk was initialised for
  handle,    \* param_handle and value_ptr: the plugin's chunk
  tree,      \* child_params of the host's group
  held,      \* the host's handle of each parameter that the interface holds
  queue,     \* ui_to_realtime_queue
  used,      \* the parameters that have been added
  landed     \* where the last change went, by the call that made it

hostVars == <<hstate, hid, handle, tree>>
pluginVars == <<inChunk, name, used>>
vars == <<rt, pluginVars, hostVars, held, queue, landed>>

Calls == {"change", "set", "rt"}
Landings == {"nowhere", "right", "wrong", "freed"}
HostStates == {"free", "appear", "nothing", "disappear"}

\* A change that went to freed memory ends the model.
Running == \A call \in Calls : landed[call] # "freed"
Live == {inChunk[c] : c \in PChunks} \ {NoId}
PluginTime == Running /\ rt \in {"attach", "callback"}

----------------------------------------------------------------------------
(* The plugin. *)

\* The handle and value_ptr that a chunk of the host's pool gets.  Faulty: a
\* chunk that is handed out again keeps what it had.
KeptHandle(hc, pc) == handle[hc]
NewHandle(hc, pc) == pc

\* ..._param_boolean_add and its siblings, with parameter_appear of the host.
ParamAdd(p, n, pc, hc) ==
  /\ PluginTime /\ p \notin used
  /\ \A q \in Live : name[q] # n
  /\ inChunk[pc] = NoId /\ hstate[hc] = "free"
  /\ inChunk' = [inChunk EXCEPT ![pc] = p]
  /\ name' = [name EXCEPT ![p] = n]
  /\ used' = used \cup {p}
  /\ hstate' = [hstate EXCEPT ![hc] = "appear"]
  /\ hid' = [hid EXCEPT ![hc] = p]
  /\ handle' = [handle EXCEPT ![hc] = NewHandle(hc, pc)]
  /\ tree' = Append(tree, hc)
  /\ UNCHANGED <<rt, held, queue, landed>>

\* parameter_disappear of the host.  Faulty: what the interface has not seen is
\* left to appear, or what it has seen is freed at once.
LeftToAppear(s) == IF s = "appear" THEN "appear" ELSE "disappear"
FreedAtOnce(s) == IF s = "appear" THEN "nothing" ELSE "free"
AfterRemoval(s) == IF s = "appear" THEN "nothing" ELSE "disappear"

\* lv2dynparam_plugin_param_remove: the plugin's chunk is freed at once.
ParamRemove(pc, hc) ==
  /\ PluginTime /\ "removes" \in Env
  /\ inChunk[pc] # NoId
  /\ hstate[hc] \in {"appear", "nothing"} /\ hid[hc] = inChunk[pc]
  /\ inChunk' = [inChunk EXCEPT ![pc] = NoId]
  /\ hstate' = [hstate EXCEPT ![hc] = AfterRemoval(@)]
  /\ UNCHANGED <<rt, name, used, hid, handle, tree, held, queue, landed>>

\* host_attach, or the callback for a change, returns.
PluginReturns ==
  /\ PluginTime
  /\ rt' = IF rt = "attach" THEN "idle" ELSE IF queue = <<>> THEN "idle" ELSE "drain"
  /\ UNCHANGED <<pluginVars, hostVars, held, queue, landed>>

----------------------------------------------------------------------------
(* The interface thread, which has the lock when no drain is under way. *)

UiTime == Running /\ rt = "idle"

\* lv2dynparam_host_ui_run: everything pending is told and, when it has
\* disappeared, freed.  Faulty: every new parameter is told with the handle of
\* one of them.
OneHandle(new, p) == CHOOSE c \in new : TRUE
ToldHandle(new, p) == CHOOSE c \in new : hid[c] = p
GoneUnlinked(gone) == Without(tree, gone)
UiRun ==
  LET gone == {c \in HChunks : hstate[c] = "disappear"}
      new == {c \in HChunks : hstate[c] = "appear"}
  IN /\ UiTime /\ gone \cup new # {}
     /\ hstate' = [c \in HChunks |-> IF c \in gone THEN "free"
                                     ELSE IF c \in new THEN "nothing" ELSE hstate[c]]
     /\ held' = [p \in Ids |->
          IF \E c \in new : hid[c] = p THEN ToldHandle(new, p)
          ELSE IF \E c \in gone : hid[c] = p THEN NoChunk ELSE held[p]]
     /\ tree' = GoneUnlinked(gone)
     /\ UNCHANGED <<rt, pluginVars, hid, handle, queue, landed>>

\* lv2dynparam_parameter_change and parameter_change_rt are for a parameter on
\* the screen.  Faulty: they are called for any other too.
ShownOrNot(p) == TRUE
OnScreen(p) == held[p] # NoChunk

Change(p) ==
  /\ UiTime /\ Len(queue) < MaxQueue /\ OnScreen(p)
  /\ queue' = Append(queue, [kind |-> "change", chunk |-> held[p], for |-> p])
  /\ UNCHANGED <<rt, pluginVars, hostVars, held, landed>>

\* lv2dynparam_set_parameter for a name.
Set(n) ==
  /\ UiTime /\ "sets" \in Env /\ Len(queue) < MaxQueue
  /\ queue' = Append(queue, [kind |-> "set", name |-> n])
  /\ UNCHANGED <<rt, pluginVars, hostVars, held, landed>>

----------------------------------------------------------------------------
(* The realtime thread. *)

\* parameter_value_change writes through value_ptr and calls the plugin back
\* with param_handle, both of the host's chunk c.
Target(c) == IF hstate[c] = "free" THEN NoId ELSE inChunk[handle[c]]
Land(call, c, meant) ==
  /\ landed' = [landed EXCEPT ![call] =
                  IF Target(c) = NoId THEN "freed"
                  ELSE IF Target(c) \in meant THEN "right" ELSE "wrong"]
  /\ rt' = "callback"

\* lv2dynparam_host_realtime_run gets the lock.
RealtimeEnter ==
  /\ UiTime /\ queue # <<>>
  /\ rt' = "drain"
  /\ UNCHANGED <<pluginVars, hostVars, held, queue, landed>>

RealtimeChange ==
  /\ Running /\ rt = "drain" /\ queue # <<>> /\ Head(queue).kind = "change"
  /\ Land("change", Head(queue).chunk, {Head(queue).for})
  /\ queue' = Tail(queue)
  /\ UNCHANGED <<pluginVars, hostVars, held>>

\* find_parameter_asciizz: the first parameter of the name, whatever its
\* state.
Named(n) == {i \in DOMAIN tree : name[hid[tree[i]]] = n}
Found(n) == tree[CHOOSE i \in Named(n) : \A j \in Named(n) : i <= j]

\* A set message whose parameter is not found is put aside for good.
RealtimeSet ==
  /\ Running /\ rt = "drain" /\ queue # <<>> /\ Head(queue).kind = "set"
  /\ LET n == Head(queue).name IN
       IF Named(n) # {}
         THEN Land("set", Found(n), {p \in Ids : name[p] = n})
         ELSE /\ rt' = IF Len(queue) = 1 THEN "idle" ELSE "drain"
              /\ UNCHANGED landed
  /\ queue' = Tail(queue)
  /\ UNCHANGED <<pluginVars, hostVars, held>>

\* lv2dynparam_parameter_change_rt, which pushes before it looks at
\* pending_state.
ChangeRt(p) ==
  /\ UiTime /\ "rt" \in Env /\ OnScreen(p)
  /\ Land("rt", held[p], {p})
  /\ UNCHANGED <<pluginVars, hostVars, held, queue>>

----------------------------------------------------------------------------
Init ==
  /\ rt = "attach"
  /\ inChunk = [c \in PChunks |-> NoId]
  /\ name \in [Ids -> {CHOOSE n \in Names : TRUE}]
  /\ hstate = [c \in HChunks |-> "free"]
  /\ hid \in [HChunks -> {CHOOSE p \in Ids : TRUE}]
  /\ handle \in [HChunks -> {CHOOSE c \in PChunks : TRUE}]
  /\ tree = <<>>
  /\ held = [p \in Ids |-> NoChunk]
  /\ queue = <<>>
  /\ used = {}
  /\ landed = [call \in Calls |-> "nowhere"]

Next ==
  \/ \E p \in Ids, n \in Names, pc \in PChunks, hc \in HChunks : ParamAdd(p, n, pc, hc)
  \/ \E pc \in PChunks, hc \in HChunks : ParamRemove(pc, hc)
  \/ PluginReturns \/ UiRun
  \/ \E p \in Ids : Change(p) \/ ChangeRt(p)
  \/ \E n \in Names : Set(n)
  \/ RealtimeEnter \/ RealtimeChange \/ RealtimeSet

Spec == Init /\ [][Next]_vars

----------------------------------------------------------------------------
(* Properties. *)

Messages == [kind : {"change"}, chunk : HChunks, for : Ids]
            \cup [kind : {"set"}, name : Names]

TypeOK ==
  /\ rt \in {"attach", "idle", "drain", "callback"}
  /\ inChunk \in [PChunks -> Ids \cup {NoId}] /\ name \in [Ids -> Names]
  /\ hstate \in [HChunks -> HostStates] /\ hid \in [HChunks -> Ids]
  /\ handle \in [HChunks -> PChunks] /\ tree \in Seq(HChunks)
  /\ held \in [Ids -> HChunks \cup {NoChunk}]
  /\ queue \in Seq(Messages) /\ used \in SUBSET Ids
  /\ landed \in [Calls -> Landings]

\* The host has one parameter for each of the plugin's, with a handle to it.
LinkedOnce ==
  \A p \in Live : \E c \in HChunks :
    /\ hstate[c] \in {"appear", "nothing"} /\ hid[c] = p /\ inChunk[handle[c]] = p
    /\ \A d \in HChunks \ {c} : hstate[d] # "free" => hid[d] # p

\* The handle the interface holds of a parameter is never stale: its chunk is
\* not freed, nor given to another parameter, before the interface is told, and
\* unless it is about to be told the plugin has the parameter.
HeldIsCurrent ==
  \A p \in Ids : held[p] # NoChunk =>
    /\ hstate[held[p]] # "free" /\ hid[held[p]] = p
    /\ hstate[held[p]] = "nothing" => p \in Live

\* The group's list holds each chunk in use once and none that is free.
TreeIsInUse ==
  /\ \A i, j \in DOMAIN tree : tree[i] = tree[j] => i = j
  /\ {tree[i] : i \in DOMAIN tree} = {c \in HChunks : hstate[c] # "free"}

\* As long as the plugin still has the parameter, a change from the screen or by
\* change_rt reaches it, whatever was removed and added since it was queued.
LiveIsReached ==
  [][/\ RealtimeChange /\ Head(queue).for \in Live => landed'["change"] = "right"
     /\ \A p \in Live : ChangeRt(p) => landed'["rt"] = "right"]_vars

\* A change made on the screen goes to the parameter it was made for.
ChangeLands == landed["change"] \in {"nowhere", "right"}

\* A change made with change_rt goes to the parameter it was made for.
RtLands == landed["rt"] \in {"nowhere", "right"}

\* A value set by name goes to the plugin's parameter of that name.
SetLands == landed["set"] \in {"nowhere", "right"}
=============================================================================
