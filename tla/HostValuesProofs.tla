--------------------------- MODULE HostValuesProofs ---------------------------
(***************************************************************************)
(* Proofs about HostValues, for every set of parameters and values and     *)
(* every interleaving of the two threads.  The inductive invariant adds to *)
(* Agree what each thread knows in the middle of a call; the delicate part *)
(* is PushFresh: the value change_rt pushes may be older than the host's,  *)
(* but then an interface call has a message queued, or about to be, that   *)
(* will push the newer one.                                                *)
(*                                                                         *)
(* The last two parts say what a race may cost.  CountsLostByOverwriting   *)
(* and NoticesLostByClearing are about steps: every step but the ones they *)
(* name keeps the counter the number of flags, and keeps every difference  *)
(* between the screen and the host's value flagged or about to be.         *)
(***************************************************************************)
EXTENDS HostValues, FiniteSets, FiniteSetTheorems, TLAPS

\* A thread in the middle of a call works on a parameter, with a value.
InCall ==
  /\ uiPc \in {"write", "enqueue", "clear", "load", "store"} => uiParam \in Params
  /\ uiPc = "write" => uiValue \in Values
  /\ rtPc \in {"push", "test", "set", "load", "store"} => rtParam \in Params
  /\ rtPc = "push" => rtValue \in Values

Overtaken(p) == Queued(p) \/ (uiPc = "enqueue" /\ uiParam = p)

PushFresh == rtPc = "push" => value[rtParam] = rtValue \/ Overtaken(rtParam)

IInv == TypeOK /\ InCall /\ LockOwner /\ Agree /\ PushFresh

\* Without set_parameter only change messages are queued, and the host's value
\* is what was asked for.
OnlyChanges == \A i \in 1..Len(queue) : queue[i].kind = "change"
AskedIsValue == \A p \in Params : asked[p] \in {NoValue, value[p]}

----------------------------------------------------------------------------
(* What queueing and taking a message does to Queued. *)

\* A parameter is queued after an append if it was, or is the message's.
LEMMA AppendQueued ==
  ASSUME NEW q \in Seq(Messages), NEW m \in Messages, NEW p \in Params
  PROVE  (\E i \in 1..Len(Append(q, m)) : Append(q, m)[i].param = p)
         <=> ((\E i \in 1..Len(q) : q[i].param = p) \/ m.param = p)
<1> DEFINE a == Append(q, m)
<1>1. /\ Len(a) = Len(q) + 1 /\ Len(q) \in Nat
      /\ \A i \in 1..Len(q) : a[i] = q[i]
      /\ a[Len(q) + 1] = m
  OBVIOUS
<1> HIDE DEF a
<1>2. ASSUME NEW i \in 1..Len(a), a[i].param = p
      PROVE  (\E k \in 1..Len(q) : q[k].param = p) \/ m.param = p
  <2>1. CASE i = Len(q) + 1
    BY <1>1, <1>2, <2>1
  <2>2. CASE i \in 1..Len(q)
    BY <1>1, <1>2, <2>2
  <2> QED BY <1>1, <2>1, <2>2
<1>3. ASSUME NEW i \in 1..Len(q), q[i].param = p
      PROVE  \E k \in 1..Len(a) : a[k].param = p
  BY <1>1, <1>3
<1>4. m.param = p => \E k \in 1..Len(a) : a[k].param = p
  <2>1. Len(q) + 1 \in 1..Len(a)
    BY <1>1
  <2> QED BY <1>1, <2>1
<1> QED BY <1>2, <1>3, <1>4 DEF a

\* Taking the head leaves the parameters of the other messages queued.
LEMMA TailQueued ==
  ASSUME NEW q \in Seq(Messages), q # <<>>, NEW p \in Params
  PROVE  /\ Head(q) \in Messages /\ Tail(q) \in Seq(Messages)
         /\ (\E i \in 1..Len(q) : q[i].param = p)
            => \/ Head(q).param = p
               \/ \E i \in 1..Len(Tail(q)) : Tail(q)[i].param = p
<1> DEFINE t == Tail(q)
<1>1. /\ Len(q) \in Nat /\ Len(q) # 0 /\ Len(t) = Len(q) - 1
      /\ \A i \in 1..Len(t) : t[i] = q[i + 1]
      /\ Head(q) = q[1] /\ Head(q) \in Messages /\ t \in Seq(Messages)
  OBVIOUS
<1> HIDE DEF t
<1>2. ASSUME NEW i \in 1..Len(q), q[i].param = p, Head(q).param # p
      PROVE  \E k \in 1..Len(t) : t[k].param = p
  <2>1. i # 1
    BY <1>1, <1>2
  <2>2. i - 1 \in 1..Len(t) /\ t[i - 1] = q[i]
    BY <1>1, <2>1
  <2> QED BY <1>2, <2>2
<1> QED BY <1>1, <1>2 DEF t

----------------------------------------------------------------------------
(* The invariant holds initially and every step keeps it. *)

LEMMA InitInvariant == Init => IInv
<1> SUFFICES ASSUME Init PROVE IInv
  OBVIOUS
<1>1. TypeOK
  <2>1. <<>> \in Seq(Messages) /\ {} \in SUBSET Params
    OBVIOUS
  <2>2. /\ value \in [Params -> Values] /\ plugin \in [Params -> Values]
        /\ screen \in [Params -> Values] /\ flag \in [Params -> BOOLEAN]
        /\ asked \in [Params -> Values \cup {NoValue}]
    BY ValuesAssumption DEF Init
  <2>3. /\ queue \in Seq(Messages) /\ uiLeft \in SUBSET Params
        /\ uiParam \in Params \cup {NoParam} /\ uiValue \in Values \cup {NoValue}
        /\ rtParam \in Params \cup {NoParam} /\ rtValue \in Values \cup {NoValue}
    BY <2>1 DEF Init
  <2>4. /\ count \in Int /\ uiCount \in Int /\ rtCount \in Int
        /\ lock \in {"free", "ui", "audio"} /\ uiPc \in UiPcs /\ rtPc \in RtPcs
    BY DEF Init, UiPcs, RtPcs
  <2>5. failed \in BOOLEAN
    BY Zenon DEF Init
  <2> QED BY <2>2, <2>3, <2>4, <2>5 DEF TypeOK
<1>2. InCall /\ LockOwner /\ PushFresh
  BY DEF Init, InCall, LockOwner, PushFresh
<1>3. Agree
  BY DEF Init, Agree
<1> QED BY <1>1, <1>2, <1>3 DEF IInv

\* Each step keeps the types and what a call works on.
LEMMA StepTypes ==
  ASSUME TypeOK, InCall, [Next]_vars
  PROVE  TypeOK' /\ InCall'
<1> USE DEF TypeOK, InCall, UiPcs, RtPcs
<1>1. ASSUME NEW p \in Params, NEW v \in Values, ChangeEnter(p, v)
      PROVE  TypeOK' /\ InCall'
  BY <1>1 DEF ChangeEnter, UiMayStart, EnterUi, rtVars
<1>2. ASSUME NEW p \in Params, NEW v \in Values, SetParameter(p, v)
      PROVE  TypeOK' /\ InCall'
  <2>1. [kind |-> "set", param |-> p, value |-> v] \in Messages
    BY DEF Messages
  <2> QED BY <1>2, <2>1 DEF SetParameter, UiMayStart, QueueTail, rtVars, uiVars
<1>3. ASSUME NEW p \in Params, NEW v \in Values, ChangeRt(p, v)
      PROVE  TypeOK' /\ InCall'
  BY <1>3 DEF ChangeRt, RtMayChange, uiVars
<1>4. CASE UiRun
  BY <1>4 DEF UiRun, UiMayStart, EnterUi, dataVars, rtVars
<1>5. CASE ChangeWrite
  BY <1>5 DEF ChangeWrite, rtVars
<1>6. CASE ChangeEnqueue
  <2>1. uiParam \in Params
    BY <1>6 DEF ChangeEnqueue
  <2>2. [kind |-> "change", param |-> uiParam] \in Messages
    BY <2>1 DEF Messages
  <2> QED BY <1>6, <2>2 DEF ChangeEnqueue, QueueTail, Leave, rtVars
<1>7. ASSUME NEW p \in Params, NotifyVisit(p)
      PROVE  TypeOK' /\ InCall'
  BY <1>7 DEF NotifyVisit, rtVars
<1>8. CASE NotifyClear
  BY <1>8 DEF NotifyClear, FlagCleared, rtVars
<1>9. CASE NotifyLoad
  BY <1>9 DEF NotifyLoad, dataVars, rtVars
<1>10. CASE NotifyStore
  BY <1>10 DEF NotifyStore, rtVars
<1>11. CASE NotifyEnd
  BY <1>11 DEF NotifyEnd, Leave, dataVars, rtVars
<1>12. CASE RealtimeEnter
  BY <1>12 DEF RealtimeEnter, EnterAudio, dataVars, uiVars
<1>13. CASE RealtimeMessage
  <2> DEFINE m == Head(queue)
  <2>1. m \in Messages /\ Unlinked \in Seq(Messages)
    BY <1>13 DEF RealtimeMessage, Unlinked
  <2> HIDE DEF m
  <2>2. m.param \in Params /\ ValueAfter(m) \in Values
    BY <2>1 DEF Messages, ValueAfter
  <2>3. /\ value' = [value EXCEPT ![m.param] = ValueAfter(m)]
        /\ plugin' = [plugin EXCEPT ![m.param] = ValueAfter(m)]
        /\ queue' = Unlinked
        /\ UNCHANGED <<screen, flag, count, lock, uiVars, rtVars, asked, failed>>
    BY <1>13 DEF RealtimeMessage, Pushed, m
  <2>4. value' \in [Params -> Values] /\ plugin' \in [Params -> Values]
    BY <2>2, <2>3
  <2> QED BY <1>13, <2>1, <2>3, <2>4 DEF RealtimeMessage, uiVars, rtVars
<1>14. CASE RealtimeLeave
  BY <1>14 DEF RealtimeLeave, Leave, dataVars, uiVars
<1>15. CASE ChangeRtPush
  BY <1>15 DEF ChangeRtPush, Pushed, uiVars
<1>16. CASE ChangeRtTest
  BY <1>16 DEF ChangeRtTest, CountUnlessFlagged, dataVars, uiVars
<1>17. CASE ChangeRtSet
  BY <1>17 DEF ChangeRtSet, uiVars
<1>18. CASE ChangeRtLoad
  BY <1>18 DEF ChangeRtLoad, dataVars, uiVars
<1>19. CASE ChangeRtStore
  BY <1>19 DEF ChangeRtStore, uiVars
<1>20. CASE UNCHANGED vars
  BY <1>20 DEF vars, dataVars, uiVars, rtVars
<1> QED
  BY <1>1, <1>2, <1>3, <1>4, <1>5, <1>6, <1>7, <1>8, <1>9, <1>10, <1>11, <1>12,
     <1>13, <1>14, <1>15, <1>16, <1>17, <1>18, <1>19, <1>20
  DEF Next, UiStep, RtStep

\* Each step keeps the lock with the thread that is inside.
LEMMA StepLock ==
  ASSUME TypeOK, LockOwner, [Next]_vars
  PROVE  LockOwner'
<1> USE DEF LockOwner
<1>1. ASSUME NEW p \in Params, NEW v \in Values,
             ChangeEnter(p, v) \/ SetParameter(p, v) \/ ChangeRt(p, v)
      PROVE  LockOwner'
  BY <1>1 DEF ChangeEnter, SetParameter, ChangeRt, UiMayStart, RtMayChange,
              EnterUi, uiVars, rtVars
<1>2. CASE UiRun
  BY <1>2 DEF UiRun, UiMayStart, EnterUi, rtVars
<1>3. CASE ChangeWrite \/ ChangeEnqueue \/ NotifyEnd
  BY <1>3 DEF ChangeWrite, ChangeEnqueue, NotifyEnd, Leave, rtVars
<1>4. ASSUME NEW p \in Params, NotifyVisit(p)
      PROVE  LockOwner'
  BY <1>4 DEF NotifyVisit, rtVars
<1>5. CASE NotifyClear \/ NotifyLoad \/ NotifyStore
  BY <1>5 DEF NotifyClear, NotifyLoad, NotifyStore, rtVars
<1>6. CASE RealtimeEnter \/ RealtimeMessage \/ RealtimeLeave
  BY <1>6 DEF RealtimeEnter, RealtimeMessage, RealtimeLeave, EnterAudio, Leave,
              uiVars, rtVars
<1>7. CASE ChangeRtPush \/ ChangeRtTest \/ ChangeRtSet \/ ChangeRtLoad \/ ChangeRtStore
  BY <1>7 DEF ChangeRtPush, ChangeRtTest, CountUnlessFlagged, ChangeRtSet,
              ChangeRtLoad, ChangeRtStore, uiVars
<1>8. CASE UNCHANGED vars
  BY <1>8 DEF vars, uiVars, rtVars
<1> QED BY <1>1, <1>2, <1>3, <1>4, <1>5, <1>6, <1>7, <1>8 DEF Next, UiStep, RtStep

\* A step that leaves the values, the queue and both threads' places alone.
LEMMA StepApart ==
  ASSUME Agree, PushFresh, UNCHANGED <<value, plugin, queue>>,
         (uiPc = "enqueue") = (uiPc' = "enqueue"),
         uiPc = "enqueue" => uiParam' = uiParam,
         (rtPc = "push") = (rtPc' = "push"),
         rtPc = "push" => rtParam' = rtParam /\ rtValue' = rtValue
  PROVE  Agree' /\ PushFresh'
BY DEF Agree, PushFresh, Overtaken, InFlight, Queued

\* Each step keeps the plugin's values in agreement with the host's, up to the
\* changes in flight.
LEMMA StepAgree ==
  ASSUME TypeOK, InCall, LockOwner, Agree, PushFresh, [Next]_vars
  PROVE  Agree' /\ PushFresh'
<1> USE DEF TypeOK
<1>1. ASSUME NEW p \in Params, NEW v \in Values, ChangeEnter(p, v)
      PROVE  Agree' /\ PushFresh'
  BY <1>1, StepApart DEF ChangeEnter, UiMayStart, rtVars
<1>2. ASSUME NEW p \in Params, NEW v \in Values, SetParameter(p, v)
      PROVE  Agree' /\ PushFresh'
  <2> DEFINE m == [kind |-> "set", param |-> p, value |-> v]
  <2>1. m \in Messages /\ queue' = Append(queue, m)
    BY <1>2 DEF SetParameter, QueueTail, Messages
  <2>2. \A r \in Params : Queued(r) => Queued(r)'
    BY <2>1, AppendQueued DEF Queued
  <2>3. UNCHANGED <<value, plugin, uiPc, uiParam, rtPc, rtParam, rtValue>>
    BY <1>2 DEF SetParameter, uiVars, rtVars
  <2> QED BY <2>2, <2>3 DEF Agree, PushFresh, Overtaken, InFlight, InCall
<1>3. ASSUME NEW p \in Params, NEW v \in Values, ChangeRt(p, v)
      PROVE  Agree' /\ PushFresh'
  <2>1. /\ value' = [value EXCEPT ![p] = v] /\ rtPc' = "push" /\ rtParam' = p
        /\ rtValue' = v /\ rtPc = "idle"
        /\ UNCHANGED <<plugin, queue, uiPc, uiParam>>
    BY <1>3 DEF ChangeRt, RtMayChange, uiVars
  <2>2. PushFresh'
    BY <2>1 DEF PushFresh
  <2>3. \A r \in Params : r # p => value'[r] = value[r] /\ InFlight(r)' = InFlight(r)
    BY <2>1 DEF InFlight, Queued
  <2>4. InFlight(p)'
    BY <2>1 DEF InFlight
  <2> QED BY <2>1, <2>2, <2>3, <2>4 DEF Agree
<1>4. CASE UiRun
  BY <1>4, StepApart DEF UiRun, UiMayStart, dataVars, rtVars
<1>5. CASE ChangeWrite
  <2>1. /\ value' = [value EXCEPT ![uiParam] = uiValue] /\ uiPc = "write"
        /\ uiPc' = "enqueue" /\ UNCHANGED <<plugin, queue, uiParam, rtPc, rtParam, rtValue>>
    BY <1>5 DEF ChangeWrite, rtVars
  <2>2. uiParam \in Params /\ (rtPc = "push" => rtParam \in Params)
    BY <2>1 DEF InCall
  <2>3. \A r \in Params : Queued(r)' = Queued(r)
    BY <2>1 DEF Queued
  <2>4. \A r \in Params : r # uiParam => value'[r] = value[r] /\ (InFlight(r) => InFlight(r)')
    BY <2>1, <2>2, <2>3 DEF InFlight
  <2>5. InFlight(uiParam)' /\ Overtaken(uiParam)'
    BY <2>1 DEF InFlight, Overtaken
  <2>6. Agree'
    BY <2>1, <2>4, <2>5 DEF Agree
  <2>7. PushFresh'
    <3> SUFFICES ASSUME rtPc = "push", rtParam # uiParam
                 PROVE  PushFresh'
      BY <2>1, <2>5 DEF PushFresh, Overtaken, Queued
    <3>1. Overtaken(rtParam) => Overtaken(rtParam)'
      BY <2>1, <2>2, <2>3 DEF Overtaken
    <3> QED BY <2>1, <2>2, <2>4, <3>1 DEF PushFresh, Overtaken, Queued
  <2> QED BY <2>6, <2>7
<1>6. CASE ChangeEnqueue
  <2> DEFINE m == [kind |-> "change", param |-> uiParam]
  <2>1. uiPc = "enqueue" /\ uiParam \in Params
    BY <1>6 DEF ChangeEnqueue, InCall
  <2>2. m \in Messages /\ queue' = Append(queue, m)
    BY <1>6, <2>1 DEF ChangeEnqueue, QueueTail, Messages
  <2>3. \A r \in Params : Queued(r) \/ r = uiParam => Queued(r)'
    BY <2>2, AppendQueued DEF Queued
  <2>4. UNCHANGED <<value, plugin, uiParam, rtPc, rtParam, rtValue>>
    BY <1>6 DEF ChangeEnqueue, rtVars
  <2> QED BY <2>1, <2>3, <2>4 DEF Agree, PushFresh, Overtaken, InFlight, InCall
<1>7. ASSUME NEW p \in Params, NotifyVisit(p)
      PROVE  Agree' /\ PushFresh'
  BY <1>7, StepApart DEF NotifyVisit, rtVars
<1>8. CASE NotifyClear
  BY <1>8, StepApart DEF NotifyClear, rtVars
<1>9. CASE NotifyLoad
  BY <1>9, StepApart DEF NotifyLoad, dataVars, rtVars
<1>10. CASE NotifyStore
  BY <1>10, StepApart DEF NotifyStore, rtVars
<1>11. CASE NotifyEnd
  BY <1>11, StepApart DEF NotifyEnd, dataVars, rtVars
<1>12. CASE RealtimeEnter
  BY <1>12, StepApart DEF RealtimeEnter, dataVars, uiVars
<1>13. CASE RealtimeMessage
  <2> DEFINE m == Head(queue)
  <2>1. m \in Messages /\ queue \in Seq(Messages) /\ queue # <<>>
    BY <1>13 DEF RealtimeMessage
  <2>2. /\ value' = [value EXCEPT ![m.param] = ValueAfter(m)]
        /\ plugin' = [plugin EXCEPT ![m.param] = ValueAfter(m)]
        /\ queue' = Tail(queue) /\ rtPc = "drain"
        /\ UNCHANGED <<uiPc, uiParam, rtPc, rtParam>>
    BY <1>13 DEF RealtimeMessage, Pushed, Unlinked, uiVars, rtVars
  <2>3. \A r \in Params : Queued(r) => m.param = r \/ Queued(r)'
    BY <2>1, <2>2, TailQueued DEF Queued
  <2> HIDE DEF m
  <2>4. \A r \in Params : r # m.param => /\ value'[r] = value[r] /\ plugin'[r] = plugin[r]
                                         /\ InFlight(r) => InFlight(r)'
    BY <2>2, <2>3 DEF InFlight
  <2>5. m.param \in Params => value'[m.param] = plugin'[m.param]
    BY <2>2
  <2> QED BY <2>2, <2>4, <2>5 DEF Agree, PushFresh
<1>14. CASE RealtimeLeave
  BY <1>14, StepApart DEF RealtimeLeave, dataVars, uiVars
<1>15. CASE ChangeRtPush
  <2>1. rtPc = "push" /\ rtParam \in Params
    BY <1>15 DEF ChangeRtPush, InCall
  <2>2. PICK v \in {value[rtParam], rtValue} : plugin' = [plugin EXCEPT ![rtParam] = v]
    BY <1>15 DEF ChangeRtPush, Pushed
  <2>3. UNCHANGED <<value, queue, uiPc, uiParam, rtParam>> /\ rtPc' = "test"
    BY <1>15 DEF ChangeRtPush, uiVars
  <2>4. \A r \in Params : Queued(r)' = Queued(r)
    BY <2>3 DEF Queued
  <2>5. ASSUME NEW r \in Params, r # rtParam
        PROVE  plugin'[r] = plugin[r] /\ (InFlight(r) => InFlight(r)')
    BY <2>1, <2>2, <2>3, <2>4, <2>5 DEF InFlight
  <2>6. plugin'[rtParam] = value[rtParam] \/ Overtaken(rtParam)
    BY <2>1, <2>2 DEF PushFresh
  <2>7. Overtaken(rtParam) => InFlight(rtParam)'
    BY <2>1, <2>3, <2>4 DEF Overtaken, InFlight
  <2> QED BY <2>1, <2>3, <2>5, <2>6, <2>7 DEF Agree, PushFresh
<1>16. CASE ChangeRtTest
  BY <1>16, StepApart DEF ChangeRtTest, CountUnlessFlagged, dataVars, uiVars
<1>17. CASE ChangeRtSet
  BY <1>17, StepApart DEF ChangeRtSet, uiVars
<1>18. CASE ChangeRtLoad
  BY <1>18, StepApart DEF ChangeRtLoad, dataVars, uiVars
<1>19. CASE ChangeRtStore
  BY <1>19, StepApart DEF ChangeRtStore, uiVars
<1>20. CASE UNCHANGED vars
  BY <1>20, StepApart DEF vars, dataVars, uiVars, rtVars
<1> QED
  BY <1>1, <1>2, <1>3, <1>4, <1>5, <1>6, <1>7, <1>8, <1>9, <1>10, <1>11, <1>12,
     <1>13, <1>14, <1>15, <1>16, <1>17, <1>18, <1>19, <1>20
  DEF Next, UiStep, RtStep

\* The inductive invariant holds in every state (host.c:1124-1215, 1316-1357).
THEOREM ValuesInvariant == Spec => []IInv
<1>1. IInv /\ [Next]_vars => IInv'
  BY StepTypes, StepLock, StepAgree DEF IInv
<1> QED BY InitInvariant, <1>1, PTL DEF Spec

\* Every variable keeps its type.
THEOREM ValuesTypeCorrect == Spec => []TypeOK
<1>1. IInv => TypeOK
  BY DEF IInv
<1> QED BY ValuesInvariant, <1>1, PTL

\* The interface thread and the drain of realtime_run are never both inside the
\* lock (audiolock.c:63-91), whatever change_rt does meanwhile.
THEOREM LockExcludes == Spec => []LockOwner
<1>1. IInv => LockOwner
  BY DEF IInv
<1> QED BY ValuesInvariant, <1>1, PTL

\* The plugin has the host's value of every parameter that has no change in
\* flight, although change_rt takes no lock (host.c:1134-1142).
THEOREM PluginAgrees == Spec => []Agree
<1>1. IInv => Agree
  BY DEF IInv
<1> QED BY ValuesInvariant, <1>1, PTL

----------------------------------------------------------------------------
(* Without set_parameter the last request wins. *)

\* One step keeps the queue free of set messages, and the host's value what was
\* asked for.
LEMMA StepAsked ==
  ASSUME Restores = FALSE, TypeOK, InCall, OnlyChanges, AskedIsValue, [Next]_vars
  PROVE  OnlyChanges' /\ AskedIsValue'
<1> USE DEF TypeOK
<1>1. ASSUME NEW p \in Params, NEW v \in Values, SetParameter(p, v)
      PROVE  OnlyChanges' /\ AskedIsValue'
  BY <1>1 DEF SetParameter
<1>2. ASSUME NEW p \in Params, NEW v \in Values, ChangeRt(p, v)
      PROVE  OnlyChanges' /\ AskedIsValue'
  BY <1>2 DEF ChangeRt, OnlyChanges, AskedIsValue
<1>3. CASE ChangeWrite
  BY <1>3 DEF ChangeWrite, OnlyChanges, AskedIsValue, InCall
<1>4. CASE ChangeEnqueue
  <2> DEFINE m == [kind |-> "change", param |-> uiParam]
  <2>1. m \in Messages
    BY <1>4 DEF ChangeEnqueue, InCall, Messages
  <2>2. queue' = Append(queue, m) /\ UNCHANGED <<value, asked>>
    BY <1>4 DEF ChangeEnqueue, QueueTail
  <2>3. \A i \in 1..Len(queue') : queue'[i] = m \/ (i \in 1..Len(queue) /\ queue'[i] = queue[i])
    BY <2>1, <2>2
  <2>4. OnlyChanges'
    BY <2>3 DEF OnlyChanges
  <2> QED BY <2>2, <2>4 DEF AskedIsValue
<1>5. CASE RealtimeMessage
  <2> DEFINE m == Head(queue)
  <2>1. m \in Messages /\ m.kind = "change"
    BY <1>5 DEF RealtimeMessage, OnlyChanges
  <2>2. value' = [value EXCEPT ![m.param] = ValueAfter(m)] /\ queue' = Tail(queue)
        /\ asked' = asked
    BY <1>5 DEF RealtimeMessage, Unlinked
  <2>3. \A i \in 1..Len(queue') : i + 1 \in 1..Len(queue) /\ queue'[i] = queue[i + 1]
    BY <1>5, <2>2 DEF RealtimeMessage
  <2>4. OnlyChanges'
    BY <2>3 DEF OnlyChanges
  <2> HIDE DEF m
  <2>5. value' = value
    BY <2>1, <2>2 DEF ValueAfter
  <2> QED BY <2>2, <2>4, <2>5 DEF AskedIsValue
<1>6. ASSUME UNCHANGED <<value, queue, asked>>
      PROVE  OnlyChanges' /\ AskedIsValue'
  BY <1>6 DEF OnlyChanges, AskedIsValue
<1>7. ASSUME NEW p \in Params, NEW v \in Values, ChangeEnter(p, v)
      PROVE  UNCHANGED <<value, queue, asked>>
  BY <1>7 DEF ChangeEnter
<1>8. ASSUME NEW p \in Params, NotifyVisit(p)
      PROVE  UNCHANGED <<value, queue, asked>>
  BY <1>8 DEF NotifyVisit
<1>9. CASE UiRun \/ NotifyClear \/ NotifyLoad \/ NotifyStore \/ NotifyEnd
  BY <1>6, <1>9 DEF UiRun, NotifyClear, NotifyLoad, NotifyStore, NotifyEnd, dataVars
<1>10. CASE RealtimeEnter \/ RealtimeLeave \/ ChangeRtPush \/ ChangeRtTest
            \/ ChangeRtSet \/ ChangeRtLoad \/ ChangeRtStore
  BY <1>6, <1>10 DEF RealtimeEnter, RealtimeLeave, ChangeRtPush, ChangeRtTest,
                     ChangeRtSet, ChangeRtLoad, ChangeRtStore, dataVars
<1>11. CASE UNCHANGED vars
  BY <1>6, <1>11 DEF vars, dataVars
<1> QED
  BY <1>1, <1>2, <1>3, <1>4, <1>5, <1>6, <1>7, <1>8, <1>9, <1>10, <1>11
  DEF Next, UiStep, RtStep

\* If set_parameter is not called, then whenever all is quiet the plugin has the
\* value the program asked for last (host.c:1316-1357): every message pushes the
\* host's present value, so neither their number nor their order matters.
THEOREM LastRequestReaches ==
  ASSUME Restores = FALSE
  PROVE  Spec => []LastRequestWins
<1> DEFINE J == OnlyChanges /\ AskedIsValue
<1>1. Init => J
  BY ValuesAssumption DEF Init, OnlyChanges, AskedIsValue
<1>2. IInv /\ J /\ [Next]_vars => J'
  BY StepAsked DEF IInv
<1>3. IInv /\ J => LastRequestWins
  <2> SUFFICES ASSUME IInv, J, Quiet, NEW p \in Params
               PROVE  asked[p] \in {NoValue, plugin[p]}
    BY DEF LastRequestWins
  <2>1. ~Queued(p)
    BY DEF Quiet, Queued
  <2>2. plugin[p] = value[p]
    BY <2>1 DEF IInv, Agree, InFlight, Quiet
  <2> QED BY <2>2 DEF AskedIsValue
<1> HIDE DEF J
<1> QED BY ValuesInvariant, <1>1, <1>2, <1>3, PTL DEF Spec

----------------------------------------------------------------------------
(* The counter, however the two threads race.                              *)

Flagged == {p \in Params : flag[p]}

\* A flag is cleared when it is set, and set when it is not.
FlagInv == /\ uiPc = "clear" => flag[uiParam]
           /\ rtPc = "set" => ~flag[rtParam]

LEMMA StepFlag ==
  ASSUME TypeOK, InCall, FlagInv, [Next]_vars PROVE FlagInv'
<1> USE DEF TypeOK, InCall, FlagInv
<1>1. ASSUME NEW p \in Params, NEW v \in Values,
             ChangeEnter(p, v) \/ SetParameter(p, v) \/ ChangeRt(p, v)
      PROVE  FlagInv'
  BY <1>1 DEF ChangeEnter, SetParameter, ChangeRt, uiVars, rtVars
<1>2. ASSUME NEW p \in Params, NotifyVisit(p) PROVE FlagInv'
  BY <1>2 DEF NotifyVisit, rtVars
<1>3. CASE UiRun \/ ChangeWrite \/ ChangeEnqueue
  BY <1>3 DEF UiRun, ChangeWrite, ChangeEnqueue, dataVars, rtVars
<1>4. CASE NotifyClear
  BY <1>4 DEF NotifyClear, FlagCleared, rtVars
<1>5. CASE NotifyLoad \/ NotifyStore \/ NotifyEnd
  BY <1>5 DEF NotifyLoad, NotifyStore, NotifyEnd, dataVars, rtVars
<1>6. CASE RealtimeEnter \/ RealtimeMessage \/ RealtimeLeave
  BY <1>6 DEF RealtimeEnter, RealtimeMessage, RealtimeLeave, dataVars, uiVars, rtVars
<1>7. CASE ChangeRtPush
  BY <1>7 DEF ChangeRtPush, uiVars
<1>8. CASE ChangeRtTest
  BY <1>8 DEF ChangeRtTest, CountUnlessFlagged, dataVars, uiVars
<1>9. CASE ChangeRtSet
  BY <1>9 DEF ChangeRtSet, uiVars
<1>10. CASE ChangeRtLoad \/ ChangeRtStore
  BY <1>10 DEF ChangeRtLoad, ChangeRtStore, dataVars, uiVars
<1>11. CASE UNCHANGED vars
  BY <1>11 DEF vars, dataVars, uiVars, rtVars
<1> QED
  BY <1>1, <1>2, <1>3, <1>4, <1>5, <1>6, <1>7, <1>8, <1>9, <1>10, <1>11
  DEF Next, UiStep, RtStep

\* Setting a flag adds one to the flagged, clearing one takes one away.
LEMMA FlagWritten ==
  ASSUME IsFiniteSet(Params), flag \in [Params -> BOOLEAN], NEW p \in Params
  PROVE  /\ Cardinality(Flagged) \in Nat
         /\ Cardinality(Flagged) = 0 <=> Flagged = {}
         /\ flag' = [flag EXCEPT ![p] = TRUE] /\ ~flag[p]
            => Cardinality(Flagged)' = Cardinality(Flagged) + 1
         /\ flag' = [flag EXCEPT ![p] = FALSE]
            => /\ Flagged' = Flagged \ {p}
               /\ flag[p] => Cardinality(Flagged)' = Cardinality(Flagged) - 1
<1>1. IsFiniteSet(Flagged)
  BY FS_Subset DEF Flagged
<1>2. Cardinality(Flagged) \in Nat /\ (Cardinality(Flagged) = 0 <=> Flagged = {})
  BY <1>1, FS_CardinalityType, FS_EmptySet
<1>3. ASSUME flag' = [flag EXCEPT ![p] = TRUE], ~flag[p]
      PROVE  Cardinality(Flagged') = Cardinality(Flagged) + 1
  <2>1. Flagged' = Flagged \cup {p} /\ p \notin Flagged
    BY <1>3 DEF Flagged
  <2> QED BY <1>1, <2>1, FS_AddElement
<1>4. ASSUME flag' = [flag EXCEPT ![p] = FALSE]
      PROVE  Flagged' = Flagged \ {p}
  BY <1>4 DEF Flagged
<1>5. ASSUME flag' = [flag EXCEPT ![p] = FALSE], flag[p]
      PROVE  Cardinality(Flagged') = Cardinality(Flagged) - 1
  <2>1. p \in Flagged
    BY <1>5 DEF Flagged
  <2> QED BY <1>1, <1>4, <1>5, <2>1, FS_RemoveElement
<1> QED BY <1>2, <1>3, <1>4, <1>5

\* A step that writes no flag leaves the flagged and their number.
LEMMA FlagsAlone ==
  ASSUME IsFiniteSet(Params), flag \in [Params -> BOOLEAN]
  PROVE  /\ Cardinality(Flagged) \in Nat
         /\ Cardinality(Flagged) = 0 <=> Flagged = {}
         /\ UNCHANGED flag => /\ Flagged' = Flagged
                              /\ Cardinality(Flagged)' = Cardinality(Flagged)
<1>1. IsFiniteSet(Flagged)
  BY FS_Subset DEF Flagged
<1>2. Cardinality(Flagged) \in Nat /\ (Cardinality(Flagged) = 0 <=> Flagged = {})
  BY <1>1, FS_CardinalityType, FS_EmptySet
<1>3. UNCHANGED flag => Flagged' = Flagged
  BY DEF Flagged
<1> QED BY <1>2, <1>3

\* Only a store after another thread's store changes how far the counter is from
\* the number of flags.
LEMMA StepBalance ==
  ASSUME IsFiniteSet(Params), TypeOK, InCall, FlagInv, CountIsFlags, Next
  PROVE  \/ CountIsFlags'
         \/ NotifyStore /\ uiCount # count
         \/ ChangeRtStore /\ rtCount # count
<1> USE DEF Owing
<1>0. /\ flag \in [Params -> BOOLEAN] /\ count \in Int /\ uiCount \in Int
      /\ rtCount \in Int
      /\ Cardinality(Flagged) \in Nat
      /\ UNCHANGED flag => Cardinality(Flagged)' = Cardinality(Flagged)
  BY FlagsAlone DEF TypeOK
<1>1. CountIsFlags <=> count + Owing(rtPc) = Cardinality(Flagged) + Owing(uiPc)
  BY DEF CountIsFlags, Flagged
<1>2. CountIsFlags' <=> count' + Owing(rtPc') = Cardinality(Flagged)' + Owing(uiPc')
  BY DEF CountIsFlags, Flagged
<1>3. UNCHANGED <<flag, count>> /\ Owing(uiPc') = Owing(uiPc)
        /\ Owing(rtPc') = Owing(rtPc) => CountIsFlags'
  BY <1>0, <1>1, <1>2
<1>4. ASSUME NEW p \in Params, NEW v \in Values,
             ChangeEnter(p, v) \/ SetParameter(p, v) \/ ChangeRt(p, v)
      PROVE  CountIsFlags'
  BY <1>3, <1>4 DEF ChangeEnter, SetParameter, ChangeRt, UiMayStart, RtMayChange,
                    uiVars, rtVars
<1>5. ASSUME NEW p \in Params, NotifyVisit(p) PROVE CountIsFlags'
  BY <1>3, <1>5 DEF NotifyVisit, rtVars
<1>6. CASE UiRun \/ ChangeWrite \/ ChangeEnqueue
  BY <1>3, <1>6 DEF UiRun, UiMayStart, ChangeWrite, ChangeEnqueue, dataVars, rtVars
<1>7. CASE NotifyClear
  <2>1. /\ uiPc = "clear" /\ uiPc' = "load" /\ uiParam \in Params /\ flag[uiParam]
        /\ flag' = [flag EXCEPT ![uiParam] = FALSE]
        /\ UNCHANGED <<count, rtPc>>
    BY <1>7 DEF NotifyClear, FlagCleared, InCall, FlagInv, rtVars
  <2>2. Cardinality(Flagged)' = Cardinality(Flagged) - 1
    BY <1>0, <2>1, FlagWritten
  <2> QED BY <1>0, <1>1, <1>2, <2>1, <2>2
<1>8. CASE NotifyLoad \/ NotifyEnd
  BY <1>3, <1>8 DEF NotifyLoad, NotifyEnd, dataVars, rtVars
<1>9. ASSUME NotifyStore, uiCount = count PROVE CountIsFlags'
  BY <1>0, <1>1, <1>2, <1>9 DEF NotifyStore, rtVars
<1>10. CASE RealtimeEnter \/ RealtimeMessage \/ RealtimeLeave
  BY <1>3, <1>10 DEF RealtimeEnter, RealtimeMessage, RealtimeLeave, dataVars,
                     uiVars, rtVars
<1>11. CASE ChangeRtPush \/ ChangeRtTest \/ ChangeRtLoad
  BY <1>3, <1>11 DEF ChangeRtPush, ChangeRtTest, ChangeRtLoad, CountUnlessFlagged,
                     dataVars, uiVars
<1>12. CASE ChangeRtSet
  <2>1. /\ rtPc = "set" /\ rtPc' = "load" /\ rtParam \in Params /\ ~flag[rtParam]
        /\ flag' = [flag EXCEPT ![rtParam] = TRUE]
        /\ UNCHANGED <<count, uiPc>>
    BY <1>12 DEF ChangeRtSet, InCall, FlagInv, uiVars
  <2>2. Cardinality(Flagged)' = Cardinality(Flagged) + 1
    BY <1>0, <2>1, FlagWritten
  <2> QED BY <1>0, <1>1, <1>2, <2>1, <2>2
<1>13. ASSUME ChangeRtStore, rtCount = count PROVE CountIsFlags'
  BY <1>0, <1>1, <1>2, <1>13 DEF ChangeRtStore, uiVars
<1> QED
  BY <1>4, <1>5, <1>6, <1>7, <1>8, <1>9, <1>10, <1>11, <1>12, <1>13
  DEF Next, UiStep, RtStep

\* For any number of parameters, with change_rt called at any time: only a store
\* that overwrites the other thread's lets the counter part from the number of
\* flags (host.c:281, 296).
THEOREM CounterOnlyOverwritten ==
  ASSUME IsFiniteSet(Params) PROVE Spec => CountsLostByOverwriting
<1>1. Init => FlagInv
  BY DEF Init, FlagInv
<1>2. IInv /\ FlagInv /\ [Next]_vars => FlagInv'
  BY StepFlag DEF IInv
<1>3. IInv /\ FlagInv /\ [Next]_vars =>
        [CountIsFlags => \/ CountIsFlags'
                         \/ NotifyStore /\ uiCount # count
                         \/ ChangeRtStore /\ rtCount # count]_vars
  BY StepBalance DEF IInv
<1> QED BY ValuesInvariant, <1>1, <1>2, <1>3, PTL DEF Spec, CountsLostByOverwriting

----------------------------------------------------------------------------
(* The screen, however the two threads race.                               *)

\* The widget shows what is about to be written.
WidgetFirst == uiPc = "write" => screen[uiParam] = uiValue

LEMMA StepWidget ==
  ASSUME TypeOK, InCall, WidgetFirst, [Next]_vars PROVE WidgetFirst'
<1> USE DEF TypeOK, WidgetFirst
<1>1. ASSUME NEW p \in Params, NEW v \in Values,
             ChangeEnter(p, v) \/ SetParameter(p, v) \/ ChangeRt(p, v)
      PROVE  WidgetFirst'
  BY <1>1 DEF ChangeEnter, SetParameter, ChangeRt, uiVars
<1>2. ASSUME NEW p \in Params, NotifyVisit(p) PROVE WidgetFirst'
  BY <1>2 DEF NotifyVisit
<1>3. CASE UiRun \/ ChangeWrite \/ ChangeEnqueue \/ NotifyClear \/ NotifyLoad
           \/ NotifyStore \/ NotifyEnd
  BY <1>3 DEF UiRun, ChangeWrite, ChangeEnqueue, NotifyClear, NotifyLoad,
              NotifyStore, NotifyEnd, dataVars
<1>4. CASE RealtimeEnter \/ RealtimeMessage \/ RealtimeLeave
  BY <1>4 DEF RealtimeEnter, RealtimeMessage, RealtimeLeave, dataVars, uiVars
<1>5. CASE ChangeRtPush \/ ChangeRtTest \/ ChangeRtSet \/ ChangeRtLoad \/ ChangeRtStore
  BY <1>5 DEF ChangeRtPush, ChangeRtTest, ChangeRtSet, ChangeRtLoad, ChangeRtStore,
              dataVars, uiVars
<1>6. CASE UNCHANGED vars
  BY <1>6 DEF vars, dataVars, uiVars
<1> QED BY <1>1, <1>2, <1>3, <1>4, <1>5, <1>6 DEF Next, UiStep, RtStep

\* Every step but two keeps a notice that is due.
LEMMA StepNotice ==
  ASSUME TypeOK, InCall, LockOwner, WidgetFirst, Next, NEW p \in Params, NoticeDue(p)
  PROVE  \/ NoticeDue(p)'
         \/ NotifyClear /\ uiParam = p /\ screen[p] # value[p]
         \/ RealtimeMessage /\ Head(queue).kind = "set"
<1> USE DEF TypeOK, NoticeDue
<1>1. ASSUME NEW q \in Params, NEW v \in Values, ChangeEnter(q, v)
      PROVE  NoticeDue(p)'
  BY <1>1 DEF ChangeEnter, UiMayStart, rtVars
<1>2. ASSUME NEW q \in Params, NEW v \in Values, SetParameter(q, v)
      PROVE  NoticeDue(p)'
  BY <1>2 DEF SetParameter, uiVars, rtVars
<1>3. ASSUME NEW q \in Params, NEW v \in Values, ChangeRt(q, v)
      PROVE  NoticeDue(p)'
  BY <1>3 DEF ChangeRt, RtMayChange, uiVars
<1>4. CASE UiRun
  BY <1>4 DEF UiRun, UiMayStart, dataVars, rtVars
<1>5. CASE ChangeWrite
  BY <1>5 DEF ChangeWrite, InCall, WidgetFirst, rtVars
<1>6. CASE ChangeEnqueue
  BY <1>6 DEF ChangeEnqueue, rtVars
<1>7. ASSUME NEW q \in Params, NotifyVisit(q) PROVE NoticeDue(p)'
  BY <1>7 DEF NotifyVisit, rtVars
<1>8. ASSUME NotifyClear, ~(uiParam = p /\ screen[p] # value[p])
      PROVE  NoticeDue(p)'
  BY <1>8 DEF NotifyClear, FlagCleared, InCall, rtVars
<1>9. CASE NotifyLoad \/ NotifyStore \/ NotifyEnd
  BY <1>9 DEF NotifyLoad, NotifyStore, NotifyEnd, dataVars, rtVars
<1>10. CASE RealtimeEnter
  BY <1>10 DEF RealtimeEnter, dataVars, uiVars
<1>11. ASSUME RealtimeMessage, Head(queue).kind # "set" PROVE NoticeDue(p)'
  <2> DEFINE m == Head(queue)
  <2>1. /\ m \in Messages /\ m.kind # "set"
        /\ value' = [value EXCEPT ![m.param] = ValueAfter(m)]
    BY <1>11 DEF RealtimeMessage
  <2> HIDE DEF m
  <2>2. value' = value
    BY <2>1 DEF ValueAfter, Messages
  <2> QED BY <1>11, <2>2 DEF RealtimeMessage, uiVars, rtVars
<1>12. CASE RealtimeLeave
  BY <1>12 DEF RealtimeLeave, dataVars, uiVars
<1>13. CASE ChangeRtPush
  BY <1>13 DEF ChangeRtPush, uiVars
<1>14. CASE ChangeRtTest
  BY <1>14 DEF ChangeRtTest, CountUnlessFlagged, InCall, dataVars, uiVars
<1>15. CASE ChangeRtSet
  BY <1>15 DEF ChangeRtSet, InCall, uiVars
<1>16. CASE ChangeRtLoad \/ ChangeRtStore
  BY <1>16 DEF ChangeRtLoad, ChangeRtStore, dataVars, uiVars
<1> QED
  BY <1>1, <1>2, <1>3, <1>4, <1>5, <1>6, <1>7, <1>8, <1>9, <1>10, <1>11, <1>12,
     <1>13, <1>14, <1>15, <1>16
  DEF Next, UiStep, RtStep

\* For any parameters and values, with change_rt and set_parameter called at any
\* time, a notice of the host's value is lost in two places only: where notify
\* clears the flag after the value has changed (host.c:636) and where a set
\* message is applied (1182).
THEOREM NoticesOnlyCleared == Spec => NoticesLostByClearing
<1> DEFINE Kept == \A p \in Params : NoticeDue(p) =>
             \/ NoticeDue(p)'
             \/ NotifyClear /\ uiParam = p /\ screen[p] # value[p]
             \/ RealtimeMessage /\ Head(queue).kind = "set"
<1>1. Init => WidgetFirst
  BY DEF Init, WidgetFirst
<1>2. IInv /\ WidgetFirst /\ [Next]_vars => WidgetFirst'
  BY StepWidget DEF IInv
<1>3. IInv /\ WidgetFirst /\ [Next]_vars => [Kept]_vars
  BY StepNotice DEF IInv
<1> HIDE DEF Kept
<1>4. Spec => [][Kept]_vars
  BY ValuesInvariant, <1>1, <1>2, <1>3, PTL DEF Spec
<1> QED BY <1>4 DEF Kept, NoticesLostByClearing
=============================================================================
