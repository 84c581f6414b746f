----------------------------- MODULE HostValues -----------------------------
(***************************************************************************)
(* How a parameter's value travels between the interface, the host library *)
(* and the plugin (host/host.c, audiolock.c).                              *)
(*                                                                         *)
(* The interface thread writes the value into the host's parameter and     *)
(* queues a message under the audiolock; the realtime thread takes the     *)
(* lock only if it is free, drains the queue and pushes each value to the  *)
(* plugin.  In the other direction change_rt writes and pushes the value,  *)
(* sets pending_value_change and counts it, all without the lock, and      *)
(* ui_run tells the interface.  Each access that the two threads can       *)
(* interleave is a step.  All parameters are shown, in one group.          *)
(***************************************************************************)
EXTENDS Integers, Sequences, FiniteSets

CONSTANTS
  Params,
  Values,
  Initial,    \* the value every parameter has when it appears
  NoParam, NoValue,
  Overlap,    \* change_rt may run while the interface thread has the lock
  Restores,   \* the host program calls set_parameter
  MaxQueue,   \* bound on the messages the interface queues
  MaxCount    \* bound on the counter, at which change_rt is not called

ASSUME ValuesAssumption ==
  /\ Initial \in Values /\ NoValue \notin Values /\ NoParam \notin Params
  /\ Overlap \in BOOLEAN /\ Restores \in BOOLEAN
  /\ MaxQueue \in Nat /\ MaxCount \in Nat

\* "change" carries only the parameter, "set" (UNKNOWN_PARAMETER_CHANGE) the value.
Messages == [kind : {"change"}, param : Params]
            \cup [kind : {"set"}, param : Params, value : Values]

VARIABLES
  value,    \* value of the host's parameter
  plugin,   \* *value_ptr, the plugin's value
  screen,   \* the value the interface shows
  flag,     \* pending_value_change
  count,    \* pending_childern_count of the group
  queue,    \* ui_to_realtime_queue
  lock,     \* the audiolock: "free", "ui" or "audio"
  uiPc, uiParam, uiValue, uiLeft, uiCount,   \* where each thread is, and its
  rtPc, rtParam, rtValue, rtCount,           \* registers
  asked,    \* history: what the program asked for last, unless change_rt came after
  failed    \* an assert on the counter has failed

uiVars == <<uiPc, uiParam, uiValue, uiLeft, uiCount>>
rtVars == <<rtPc, rtParam, rtValue, rtCount>>
dataVars == <<value, plugin, screen, flag, count, queue>>
vars == <<dataVars, lock, uiVars, rtVars, asked, failed>>

UiPcs == {"idle", "write", "enqueue", "visit", "clear", "load", "store"}
RtPcs == {"idle", "drain", "push", "test", "set", "load", "store"}

Queued(p) == \E i \in 1..Len(queue) : queue[i].param = p

----------------------------------------------------------------------------
(* audiolock.c: the interface waits for the lock, the audio thread does not. *)

EnterUi == lock = "free" /\ lock' = "ui"
\* Faulty: the drain goes on when the lock is taken.
EnterAudioAnyway == lock' = "audio"
EnterAudio == lock = "free" /\ lock' = "audio"
Leave == lock' = "free"

\* Without Overlap the program keeps change_rt and interface calls apart.
UiMayStart == uiPc = "idle" /\ ~failed
              /\ (Overlap \/ rtPc \in {"idle", "drain"})
RtMayChange == rtPc = "idle" /\ ~failed /\ (Overlap \/ lock # "ui")

----------------------------------------------------------------------------
(* The interface thread. *)

\* lv2dynparam_parameter_change: the widget already shows v.
ChangeEnter(p, v) ==
  /\ UiMayStart /\ Len(queue) < MaxQueue
  /\ EnterUi
  /\ screen' = [screen EXCEPT ![p] = v]
  /\ uiPc' = "write" /\ uiParam' = p /\ uiValue' = v
  /\ UNCHANGED <<value, plugin, flag, count, queue, uiLeft, uiCount, rtVars,
                 asked, failed>>

ChangeWrite ==
  /\ uiPc = "write" /\ ~failed
  /\ value' = [value EXCEPT ![uiParam] = uiValue]
  /\ asked' = [asked EXCEPT ![uiParam] = uiValue]
  /\ uiPc' = "enqueue" /\ uiValue' = NoValue
  /\ UNCHANGED <<plugin, screen, flag, count, queue, lock, uiParam, uiLeft,
                 uiCount, rtVars, failed>>

\* Faulty: the message's type is left as rtsafe_memory_allocate returned it.
QueueUntyped(m) == Append(queue, [param |-> m.param])
QueueTail(m) == Append(queue, m)

ChangeEnqueue ==
  /\ uiPc = "enqueue" /\ ~failed
  /\ queue' = QueueTail([kind |-> "change", param |-> uiParam])
  /\ uiPc' = "idle"
  /\ Leave
  /\ UNCHANGED <<value, plugin, screen, flag, count, uiParam, uiValue, uiLeft,
                 uiCount, rtVars, asked, failed>>

\* lv2dynparam_set_parameter for a parameter the tree has; it touches nothing
\* but the queue.
SetParameter(p, v) ==
  /\ Restores /\ UiMayStart /\ lock = "free" /\ Len(queue) < MaxQueue
  /\ queue' = QueueTail([kind |-> "set", param |-> p, value |-> v])
  /\ asked' = [asked EXCEPT ![p] = v]
  /\ UNCHANGED <<value, plugin, screen, flag, count, lock, uiVars, rtVars, failed>>

\* lv2dynparam_host_ui_run; a run that finds the counter zero is a stutter.
UiRun ==
  /\ UiMayStart
  /\ count # 0
  /\ EnterUi
  /\ uiPc' = "visit" /\ uiLeft' = Params
  /\ UNCHANGED <<dataVars, uiParam, uiValue, uiCount, rtVars, asked, failed>>

\* lv2dynparam_host_notify, lines 619-638, for one parameter.
NotifyVisit(p) ==
  /\ uiPc = "visit" /\ count # 0 /\ p \in uiLeft /\ ~failed
  /\ IF flag[p]
       THEN /\ screen' = [screen EXCEPT ![p] = value[p]]
            /\ uiPc' = "clear" /\ uiParam' = p
       ELSE UNCHANGED <<screen, uiPc, uiParam>>
  /\ uiLeft' = uiLeft \ {p}
  /\ UNCHANGED <<value, plugin, flag, count, queue, lock, uiValue, uiCount,
                 rtVars, asked, failed>>

\* Faulty: the flag is not cleared.
FlagKept(p) == flag
FlagCleared(p) == [flag EXCEPT ![p] = FALSE]

NotifyClear ==
  /\ uiPc = "clear" /\ ~failed
  /\ flag' = FlagCleared(uiParam)
  /\ uiPc' = "load"
  /\ UNCHANGED <<value, plugin, screen, count, queue, lock, uiParam, uiValue,
                 uiLeft, uiCount, rtVars, asked, failed>>

\* The decrement, whose assert fails at zero: a load and a store.
NotifyLoad ==
  /\ uiPc = "load" /\ ~failed
  /\ IF count = 0
       THEN failed' = TRUE /\ UNCHANGED <<uiPc, uiCount>>
       ELSE uiCount' = count /\ uiPc' = "store" /\ UNCHANGED failed
  /\ UNCHANGED <<dataVars, lock, uiParam, uiValue, uiLeft, rtVars, asked>>

NotifyStore ==
  /\ uiPc = "store" /\ ~failed
  /\ count' = uiCount - 1
  /\ uiPc' = "visit" /\ uiCount' = 0
  /\ UNCHANGED <<value, plugin, screen, flag, queue, lock, uiParam, uiValue,
                 uiLeft, rtVars, asked, failed>>

\* ui_run returns; its assert wants the counter at zero.
NotifyEnd ==
  /\ uiPc = "visit" /\ (count = 0 \/ uiLeft = {}) /\ ~failed
  /\ IF count # 0
       THEN failed' = TRUE /\ UNCHANGED <<uiPc, lock>>
       ELSE Leave /\ uiPc' = "idle" /\ UNCHANGED failed
  /\ UNCHANGED <<dataVars, uiParam, uiValue, uiLeft, uiCount, rtVars, asked>>

----------------------------------------------------------------------------
(* The realtime thread. *)

\* lv2dynparam_host_realtime_run; when the lock is taken it returns at once.
RealtimeEnter ==
  /\ rtPc = "idle" /\ queue # <<>> /\ ~failed
  /\ EnterAudio
  /\ rtPc' = "drain"
  /\ UNCHANGED <<dataVars, uiVars, rtParam, rtValue, rtCount, asked, failed>>

\* parameter_value_change as realtime_run calls it: a change message pushes the
\* host's present value, a set message its own.
ValueAfter(m) == IF m.kind = "set" THEN m.value ELSE value[m.param]
\* Faulty: parameter_value_change returns before push.
PushForgotten(p, v) == plugin
Pushed(p, v) == [plugin EXCEPT ![p] = v]

\* Faulty: the message stays in the list.
NotUnlinked == queue
Unlinked == Tail(queue)

RealtimeMessage ==
  /\ rtPc = "drain" /\ queue # <<>> /\ ~failed
  /\ LET m == Head(queue) IN
       /\ value' = [value EXCEPT ![m.param] = ValueAfter(m)]
       /\ plugin' = Pushed(m.param, ValueAfter(m))
  /\ queue' = Unlinked
  /\ UNCHANGED <<screen, flag, count, lock, uiVars, rtVars, asked, failed>>

RealtimeLeave ==
  /\ rtPc = "drain" /\ queue = <<>> /\ ~failed
  /\ Leave
  /\ rtPc' = "idle"
  /\ UNCHANGED <<dataVars, uiVars, rtParam, rtValue, rtCount, asked, failed>>

\* lv2dynparam_parameter_change_rt, without the lock.
ChangeRt(p, v) ==
  /\ RtMayChange /\ count < MaxCount
  /\ value' = [value EXCEPT ![p] = v]
  /\ asked' = [asked EXCEPT ![p] = NoValue]
  /\ rtPc' = "push" /\ rtParam' = p /\ rtValue' = v
  /\ UNCHANGED <<plugin, screen, flag, count, queue, lock, uiVars, rtCount, failed>>

\* The value is read back for the push; the compiler may use the one it has.
ChangeRtPush ==
  /\ rtPc = "push" /\ ~failed
  /\ \E v \in {value[rtParam], rtValue} : plugin' = Pushed(rtParam, v)
  /\ rtPc' = "test" /\ rtValue' = NoValue
  /\ UNCHANGED <<value, screen, flag, count, queue, lock, uiVars, rtParam,
                 rtCount, asked, failed>>

\* Faulty: the test is forgotten, or inverted.
CountAnyway(p) == "set"
CountIfFlagged(p) == IF flag[p] THEN "set" ELSE "idle"
CountUnlessFlagged(p) == IF flag[p] THEN "idle" ELSE "set"

ChangeRtTest ==
  /\ rtPc = "test" /\ ~failed
  /\ rtPc' = CountUnlessFlagged(rtParam)
  /\ UNCHANGED <<dataVars, lock, uiVars, rtParam, rtValue, rtCount, asked, failed>>

ChangeRtSet ==
  /\ rtPc = "set" /\ ~failed
  /\ flag' = [flag EXCEPT ![rtParam] = TRUE]
  /\ rtPc' = "load"
  /\ UNCHANGED <<value, plugin, screen, count, queue, lock, uiVars, rtParam,
                 rtValue, rtCount, asked, failed>>

ChangeRtLoad ==
  /\ rtPc = "load" /\ ~failed
  /\ rtCount' = count /\ rtPc' = "store"
  /\ UNCHANGED <<dataVars, lock, uiVars, rtParam, rtValue, asked, failed>>

ChangeRtStore ==
  /\ rtPc = "store" /\ ~failed
  /\ count' = rtCount + 1
  /\ rtPc' = "idle" /\ rtCount' = 0
  /\ UNCHANGED <<value, plugin, screen, flag, queue, lock, uiVars, rtParam,
                 rtValue, asked, failed>>

----------------------------------------------------------------------------
Init ==
  /\ value = [p \in Params |-> Initial]
  /\ plugin = [p \in Params |-> Initial]
  /\ screen = [p \in Params |-> Initial]
  /\ flag = [p \in Params |-> FALSE]
  /\ count = 0
  /\ queue = <<>>
  /\ lock = "free"
  /\ uiPc = "idle" /\ uiParam = NoParam /\ uiValue = NoValue
  /\ uiLeft = {} /\ uiCount = 0
  /\ rtPc = "idle" /\ rtParam = NoParam /\ rtValue = NoValue /\ rtCount = 0
  /\ asked = [p \in Params |-> NoValue]
  /\ failed = FALSE

UiStep == \/ ChangeWrite \/ ChangeEnqueue
          \/ \E p \in Params : NotifyVisit(p)
          \/ NotifyClear \/ NotifyLoad \/ NotifyStore \/ NotifyEnd
RtStep == \/ RealtimeMessage \/ RealtimeLeave
          \/ ChangeRtPush \/ ChangeRtTest \/ ChangeRtSet
          \/ ChangeRtLoad \/ ChangeRtStore

Next == \/ \E p \in Params, v \in Values :
             ChangeEnter(p, v) \/ SetParameter(p, v) \/ ChangeRt(p, v)
        \/ UiRun \/ UiStep
        \/ RealtimeEnter \/ RtStep

Spec == Init /\ [][Next]_vars

\* A call once begun ends, and the audio cycle and the program's timer find the
\* lock free again and again.
FairSpec == Spec /\ WF_vars(UiStep) /\ WF_vars(RtStep)
                 /\ SF_vars(RealtimeEnter) /\ SF_vars(UiRun)

----------------------------------------------------------------------------
(* Properties. *)

TypeOK ==
  /\ value \in [Params -> Values] /\ plugin \in [Params -> Values]
  /\ screen \in [Params -> Values]
  /\ flag \in [Params -> BOOLEAN] /\ count \in Int
  /\ queue \in Seq(Messages)
  /\ lock \in {"free", "ui", "audio"}
  /\ uiPc \in UiPcs /\ uiParam \in Params \cup {NoParam}
  /\ uiValue \in Values \cup {NoValue} /\ uiLeft \in SUBSET Params
  /\ uiCount \in Int
  /\ rtPc \in RtPcs /\ rtParam \in Params \cup {NoParam}
  /\ rtValue \in Values \cup {NoValue} /\ rtCount \in Int
  /\ asked \in [Params -> Values \cup {NoValue}]
  /\ failed \in BOOLEAN

\* A change of p is on its way to the plugin.
InFlight(p) ==
  \/ Queued(p)
  \/ uiPc = "enqueue" /\ uiParam = p
  \/ rtPc = "push" /\ rtParam = p

\* The plugin has the host's value of every parameter whose change is not on its
\* way, although change_rt writes and pushes it without the lock.
Agree == \A p \in Params : ~InFlight(p) => plugin[p] = value[p]

\* The two threads are never both inside: a drain excludes every interface step.
LockOwner == /\ lock = "ui" <=> uiPc # "idle"
             /\ lock = "audio" <=> rtPc = "drain"

Quiet == uiPc = "idle" /\ rtPc = "idle" /\ queue = <<>>

\* When all is quiet the plugin has what the program asked for last.
LastRequestWins ==
  Quiet => \A p \in Params : asked[p] \in {NoValue, plugin[p]}

\* The counter is the number of flags, but for the flag the interface has cleared
\* and not yet paid back and the one change_rt has set and not yet counted.
Owing(pc) == IF pc \in {"load", "store"} THEN 1 ELSE 0
CountIsFlags ==
  count + Owing(rtPc) = Cardinality({p \in Params : flag[p]}) + Owing(uiPc)

\* However change_rt and the interface race, only a store that overwrites the
\* other thread's, made since its own load, lets the counter part from the flags
\* (host.c:281, 296): neither the order of flag and counter nor the test does.
CountsLostByOverwriting ==
  [][CountIsFlags => \/ CountIsFlags'
                     \/ NotifyStore /\ uiCount # count
                     \/ ChangeRtStore /\ rtCount # count]_vars

\* What the interface shows of p is the host's value, or will be told or written.
NoticeDue(p) ==
  \/ screen[p] = value[p] \/ flag[p]
  \/ uiPc = "write" /\ uiParam = p
  \/ rtPc \in {"push", "test", "set"} /\ rtParam = p

\* However change_rt and the interface race, a notice is lost in two places only:
\* where notify clears the flag after the value it told has changed (host.c:636),
\* and where realtime_run applies a set message, which schedules none (1182).
NoticesLostByClearing ==
  [][\A p \in Params : NoticeDue(p) =>
       \/ NoticeDue(p)'
       \/ NotifyClear /\ uiParam = p /\ screen[p] # value[p]
       \/ RealtimeMessage /\ Head(queue).kind = "set"]_vars

\* After change_rt a call of dynparam_parameter_value_changed is scheduled
\* (host.h:319): ui_run will find a counter that is not zero.
NoticeScheduled ==
  Quiet /\ ~failed => \A p \in Params : flag[p] => count # 0

\* When all is quiet and nothing is pending the interface shows the host's value.
ScreenIsCurrent ==
  Quiet /\ ~failed => \A p \in Params : ~flag[p] => screen[p] = value[p]

\* No assert on the counter fails (host.c:294, 1242).
CountAsserts == ~failed

\* A queued change reaches the plugin although realtime_run only tries the lock.
ChangeReachesPlugin == \A p \in Params : Queued(p) ~> ~Queued(p)

\* A change the realtime thread makes is told to the interface.
ChangeReachesScreen == \A p \in Params : flag[p] ~> ~flag[p]
=============================================================================
