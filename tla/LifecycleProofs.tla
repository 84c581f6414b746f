--------------------------- MODULE LifecycleProofs ---------------------------
EXTENDS Lifecycle, ListsProofs, TLAPS, FiniteSetTheorems
(***************************************************************************)
(* What Lifecycle promises, for every pool size, every set of plugins and   *)
(* every finite set of chunks.                                              *)
(*                                                                         *)
(* 1. The two sequences of steps, of lv2dynparam_host_attach and of        *)
(*    lv2dynparam_plugin_instantiate: their length and what stands at each  *)
(*    place, the last of them as many as the sized pools of memory_atomic.c.*)
(* 2. AttachUnwinds: whichever step of host_attach fails, the labels from   *)
(*    the one jumped to give back exactly what the steps before it obtained.*)
(* 3. CoreInv: between calls an instance has all or nothing, within a call  *)
(*    it has what the steps so far have obtained; the lists and callbacks   *)
(*    lead to instances that are complete.  One lemma for each action.      *)
(* 4. ChunkInv: a chunk that is out is owned by an instance of a pool that  *)
(*    is there, and the counts of a pool are the chunks that are out.  One  *)
(*    lemma for each action again.                                          *)
(* 5. The two together are inductive, and imply the theorems.               *)
(* 6. The pool a request is served from, which needs only the types.        *)
(***************************************************************************)

\* The loop of rtsafe_memory_init that counts its pools ends with at least one.
LEMMA PoolCountType == PoolCount \in Nat \ {0}
<1> DEFINE S == {n \in 1..WordBits : Enough(n, MaxSize)}
<1>1. S \in SUBSET Nat /\ S # {}
  BY LifecycleAssumption, MemoryAssumption
<1>2. PICK n \in S : \A m \in S : n <= m
  BY <1>1, LeastNumber
<1>3. n \in 1..WordBits /\ Enough(n, MaxSize) /\ \A m \in 1..(n - 1) : ~Enough(m, MaxSize)
  BY <1>2, MemoryAssumption
<1>4. PoolsCount(MaxSize) \in 1..WordBits
  BY <1>3 DEF PoolsCount
<1> QED BY <1>4, MemoryAssumption DEF PoolCount

\* A pool that rtsafe_memory_allocate finds is one of those the memory has.
LEMMA PoolForInRange ==
  ASSUME NEW size, PoolFor(PoolCount, size) # NoPool
  PROVE  Sized(PoolFor(PoolCount, size)) \in SizedPools
<1> DEFINE S == {i \in 0..(PoolCount - 1) : Holds(i, size)}
<1>1. S # {} /\ S \in SUBSET Nat
  BY PoolCountType DEF PoolFor
<1>2. PICK i \in S : \A j \in S : i <= j
  BY <1>1, LeastNumber
<1>3. i \in 0..(PoolCount - 1) /\ Holds(i, size) /\ \A j \in 0..(i - 1) : ~Holds(j, size)
  BY <1>2, PoolCountType
<1>4. PoolFor(PoolCount, size) \in 0..(PoolCount - 1)
  BY <1>3 DEF PoolFor
<1> QED BY <1>4 DEF SizedPools

\* The things an instance may obtain.
Things ==
  {Pool("instance"), Pool("lock"), Pool("groups"), Pool("params"),
   Pool("messages"), Pool("changes"), Pool("memory"), Pool("table")}
  \cup SizedPools

\* The elements of two sequences one after the other.
LEMMA Joined ==
  ASSUME NEW a \in Seq(Things), NEW b \in Seq(Things)
  PROVE  /\ a \o b \in Seq(Things) /\ Len(a \o b) = Len(a) + Len(b)
         /\ \A k \in 1..Len(a) : (a \o b)[k] = a[k]
         /\ \A k \in 1..Len(b) : (a \o b)[Len(a) + k] = b[k]
OBVIOUS

\* Each thing a step obtains, pool of any size included, is one of Things.
LEMMA ThingTypes ==
  /\ Pool("instance") \in Things /\ Pool("lock") \in Things
  /\ Pool("groups") \in Things /\ Pool("params") \in Things
  /\ Pool("messages") \in Things /\ Pool("changes") \in Things
  /\ Pool("memory") \in Things /\ Pool("table") \in Things
  /\ \A i \in 1..PoolCount : Sized(i - 1) \in SizedPools /\ Sized(i - 1) \in Things
<1>1. ASSUME NEW i \in 1..PoolCount
      PROVE  Sized(i - 1) \in SizedPools /\ Sized(i - 1) \in Things
  <2>1. i - 1 \in 0..(PoolCount - 1)
    BY PoolCountType
  <2> QED BY <2>1 DEF SizedPools, Things
<1> QED BY <1>1 DEF Things

\* The steps of rtsafe_memory_init: the memory, its table, the pools in order of size.
LEMMA MemoryShape ==
  /\ Len(MemorySteps) = PoolCount + 2 /\ MemorySteps \in Seq(Things)
  /\ MemorySteps[1] = Pool("memory") /\ MemorySteps[2] = Pool("table")
  /\ \A i \in 1..PoolCount : MemorySteps[2 + i] = Sized(i - 1)
<1> DEFINE a == <<Pool("memory"), Pool("table")>>
           s == [i \in 1..PoolCount |-> Sized(i - 1)]
<1>1. a \in Seq(Things) /\ Len(a) = 2 /\ a[1] = Pool("memory") /\ a[2] = Pool("table")
  <2>1. Pool("memory") \in Things /\ Pool("table") \in Things
    BY ThingTypes
  <2> QED BY <2>1
<1>2. s \in Seq(Things) /\ Len(s) = PoolCount /\ \A i \in 1..PoolCount : s[i] = Sized(i - 1)
  <2>1. \A i \in 1..PoolCount : Sized(i - 1) \in Things
    BY ThingTypes
  <2> QED BY <2>1, PoolCountType
<1>3. MemorySteps = a \o s
  BY DEF MemorySteps
<1> HIDE DEF a, s
<1>4. /\ MemorySteps \in Seq(Things) /\ Len(MemorySteps) = 2 + PoolCount
      /\ \A k \in 1..2 : MemorySteps[k] = a[k]
      /\ \A k \in 1..PoolCount : MemorySteps[2 + k] = s[k]
  <2>1. a \in Seq(Things) /\ s \in Seq(Things)
    BY <1>1, <1>2
  <2>2. /\ a \o s \in Seq(Things) /\ Len(a \o s) = Len(a) + Len(s)
        /\ \A k \in 1..Len(a) : (a \o s)[k] = a[k]
        /\ \A k \in 1..Len(s) : (a \o s)[Len(a) + k] = s[k]
    BY <2>1, Joined
  <2> QED BY <1>1, <1>2, <1>3, <2>2
<1>5. MemorySteps[1] = Pool("memory") /\ MemorySteps[2] = Pool("table")
  <2>1. 1 \in 1..2 /\ 2 \in 1..2
    OBVIOUS
  <2>2. MemorySteps[1] = a[1] /\ MemorySteps[2] = a[2]
    BY <1>4, <2>1
  <2> QED BY <1>1, <2>2
<1>6. \A i \in 1..PoolCount : MemorySteps[2 + i] = Sized(i - 1)
  <2> TAKE i \in 1..PoolCount
  <2>1. MemorySteps[2 + i] = s[i]
    BY <1>4
  <2>2. s[i] = Sized(i - 1)
    BY <1>2
  <2> QED BY <2>1, <2>2
<1>7. Len(MemorySteps) = PoolCount + 2
  BY <1>4, PoolCountType
<1> QED BY <1>4, <1>5, <1>6, <1>7

\* The steps of lv2dynparam_host_attach up to the call of the plugin.
LEMMA AttachShape ==
  /\ Len(AttachSteps) = PoolCount + 8 /\ AttachSteps \in Seq(Things)
  /\ AttachSteps[1] = Pool("instance") /\ AttachSteps[2] = Pool("lock")
  /\ AttachSteps[3] = Pool("groups") /\ AttachSteps[4] = Pool("params")
  /\ AttachSteps[5] = Pool("messages") /\ AttachSteps[6] = Pool("changes")
  /\ AttachSteps[7] = Pool("memory") /\ AttachSteps[8] = Pool("table")
  /\ \A i \in 1..PoolCount : AttachSteps[8 + i] = Sized(i - 1)
<1> DEFINE a == <<Pool("instance"), Pool("lock"), Pool("groups"), Pool("params"),
                  Pool("messages"), Pool("changes")>>
<1>1. /\ a \in Seq(Things) /\ Len(a) = 6
      /\ a[1] = Pool("instance") /\ a[2] = Pool("lock") /\ a[3] = Pool("groups")
      /\ a[4] = Pool("params") /\ a[5] = Pool("messages") /\ a[6] = Pool("changes")
  <2>1. /\ Pool("instance") \in Things /\ Pool("lock") \in Things
        /\ Pool("groups") \in Things /\ Pool("params") \in Things
        /\ Pool("messages") \in Things /\ Pool("changes") \in Things
    BY ThingTypes
  <2> QED BY <2>1
<1>2. AttachSteps = a \o MemorySteps
  BY DEF AttachSteps
<1> HIDE DEF a
<1>3. /\ AttachSteps \in Seq(Things) /\ Len(AttachSteps) = 6 + Len(MemorySteps)
      /\ \A k \in 1..6 : AttachSteps[k] = a[k]
      /\ \A k \in 1..Len(MemorySteps) : AttachSteps[6 + k] = MemorySteps[k]
  <2>1. a \in Seq(Things) /\ MemorySteps \in Seq(Things)
    BY <1>1, MemoryShape
  <2>2. /\ a \o MemorySteps \in Seq(Things)
        /\ Len(a \o MemorySteps) = Len(a) + Len(MemorySteps)
        /\ \A k \in 1..Len(a) : (a \o MemorySteps)[k] = a[k]
        /\ \A k \in 1..Len(MemorySteps) : (a \o MemorySteps)[Len(a) + k] = MemorySteps[k]
    BY <2>1, Joined
  <2> QED BY <1>1, <1>2, <2>2
<1>4. /\ AttachSteps[7] = MemorySteps[1] /\ AttachSteps[8] = MemorySteps[2]
      /\ \A i \in 1..PoolCount : AttachSteps[8 + i] = MemorySteps[2 + i]
  <2>1. AttachSteps[6 + 1] = MemorySteps[1] /\ AttachSteps[6 + 2] = MemorySteps[2]
    BY <1>3, MemoryShape, PoolCountType
  <2>2. ASSUME NEW i \in 1..PoolCount PROVE AttachSteps[8 + i] = MemorySteps[2 + i]
    <3>1. 2 + i \in 1..Len(MemorySteps) /\ 6 + (2 + i) = 8 + i
      BY MemoryShape, PoolCountType
    <3> QED BY <1>3, <3>1
  <2> QED BY <2>1, <2>2
<1> QED BY <1>1, <1>3, <1>4, MemoryShape, PoolCountType

\* The steps of lv2dynparam_plugin_instantiate.
LEMMA InstantiateShape ==
  /\ InstantiateSteps \in Seq(Things) /\ Len(InstantiateSteps) = PoolCount + 5
  /\ InstantiateSteps[1] = Pool("instance")
  /\ \A i \in 1..PoolCount : InstantiateSteps[3 + i] = Sized(i - 1)
  /\ InstantiateSteps[PoolCount + 4] = Pool("groups")
  /\ InstantiateSteps[PoolCount + 5] = Pool("params")
<1> DEFINE a == <<Pool("instance")>>
           b == <<Pool("groups"), Pool("params")>>
           c == a \o MemorySteps
<1>1. /\ a \in Seq(Things) /\ Len(a) = 1 /\ a[1] = Pool("instance")
      /\ b \in Seq(Things) /\ Len(b) = 2 /\ b[1] = Pool("groups") /\ b[2] = Pool("params")
  <2>1. /\ Pool("instance") \in Things
        /\ Pool("groups") \in Things /\ Pool("params") \in Things
    BY ThingTypes
  <2> QED BY <2>1
<1>2. InstantiateSteps = c \o b
  BY DEF InstantiateSteps
<1> HIDE DEF a, b
<1>3. /\ c \in Seq(Things) /\ Len(c) = 1 + Len(MemorySteps)
      /\ c[1] = Pool("instance")
      /\ \A k \in 1..Len(MemorySteps) : c[1 + k] = MemorySteps[k]
  <2>1. a \in Seq(Things) /\ MemorySteps \in Seq(Things)
    BY <1>1, MemoryShape
  <2>2. /\ a \o MemorySteps \in Seq(Things)
        /\ Len(a \o MemorySteps) = Len(a) + Len(MemorySteps)
        /\ \A k \in 1..Len(a) : (a \o MemorySteps)[k] = a[k]
        /\ \A k \in 1..Len(MemorySteps) : (a \o MemorySteps)[Len(a) + k] = MemorySteps[k]
    BY <2>1, Joined
  <2> QED BY <1>1, <2>2
<1> HIDE DEF c
<1>4. /\ c \o b \in Seq(Things) /\ Len(c \o b) = Len(c) + Len(b)
      /\ \A k \in 1..Len(c) : (c \o b)[k] = c[k]
      /\ \A k \in 1..Len(b) : (c \o b)[Len(c) + k] = b[k]
  BY <1>1, <1>3, Joined
<1>5. Len(MemorySteps) = PoolCount + 2 /\ PoolCount \in Nat
  BY MemoryShape, PoolCountType
<1>6. InstantiateSteps[PoolCount + 4] = b[1] /\ InstantiateSteps[PoolCount + 5] = b[2]
  <2>1. InstantiateSteps[Len(c) + 1] = b[1] /\ InstantiateSteps[Len(c) + 2] = b[2]
    BY <1>1, <1>2, <1>4
  <2>2. Len(c) + 1 = PoolCount + 4 /\ Len(c) + 2 = PoolCount + 5
    BY <1>3, <1>5
  <2> QED BY <2>1, <2>2
<1>7. ASSUME NEW i \in 1..PoolCount
      PROVE  InstantiateSteps[3 + i] = Sized(i - 1)
  <2>1. 3 + i \in 1..Len(c) /\ 2 + i \in 1..Len(MemorySteps) /\ 1 + (2 + i) = 3 + i
    BY <1>3, <1>5
  <2>2. InstantiateSteps[3 + i] = c[1 + (2 + i)]
    BY <1>2, <1>4, <2>1
  <2> QED BY <1>3, <2>1, <2>2, MemoryShape
<1> QED BY <1>1, <1>2, <1>3, <1>4, <1>5, <1>6, <1>7

----------------------------------------------------------------------------
(* What the labels give back. *)

\* What each label of lv2dynparam_host_attach gives back.
LEMMA LabelSets ==
  /\ LabelGiven("memory") = SizedPools \cup {Pool("table"), Pool("memory")}
  /\ LabelGiven("changes") = {Pool("changes")} /\ LabelGiven("messages") = {Pool("messages")}
  /\ LabelGiven("params") = {Pool("params")} /\ LabelGiven("groups") = {Pool("groups")}
  /\ LabelGiven("lock") = {Pool("lock")} /\ LabelGiven("instance") = {Pool("instance")}
BY DEF LabelGiven

\* The labels from the one that is jumped to down to the last.
LEMMA UnwoundFrom ==
  ASSUME NEW name, Jump(name) \in 1..8
  PROVE  /\ Jump(name) <= 7 => Pool("instance") \in Unwound(name)
         /\ Jump(name) <= 6 => Pool("lock") \in Unwound(name)
         /\ Jump(name) <= 5 => Pool("groups") \in Unwound(name)
         /\ Jump(name) <= 4 => Pool("params") \in Unwound(name)
         /\ Jump(name) <= 3 => Pool("messages") \in Unwound(name)
         /\ Jump(name) <= 2 => Pool("changes") \in Unwound(name)
         /\ Jump(name) <= 1 => Things \subseteq Unwound(name)
<1>1. \A k \in 1..7 : Jump(name) <= k => LabelGiven(Labels[k]) \subseteq Unwound(name)
  BY DEF Unwound
<1>2. /\ Labels[1] = "memory" /\ Labels[2] = "changes" /\ Labels[3] = "messages"
      /\ Labels[4] = "params" /\ Labels[5] = "groups" /\ Labels[6] = "lock"
      /\ Labels[7] = "instance"
  BY DEF Labels
<1>3. /\ Jump(name) <= 7 => Pool("instance") \in Unwound(name)
      /\ Jump(name) <= 6 => Pool("lock") \in Unwound(name)
      /\ Jump(name) <= 5 => Pool("groups") \in Unwound(name)
      /\ Jump(name) <= 4 => Pool("params") \in Unwound(name)
      /\ Jump(name) <= 3 => Pool("messages") \in Unwound(name)
      /\ Jump(name) <= 2 => Pool("changes") \in Unwound(name)
  BY <1>1, <1>2, LabelSets
<1>4. Jump(name) <= 1 => SizedPools \cup {Pool("table"), Pool("memory")} \subseteq Unwound(name)
  BY <1>1, <1>2, LabelSets
<1> QED BY <1>3, <1>4 DEF Things

\* Whichever step of host_attach fails, all that the steps before it have obtained
\* is given back.
LEMMA AttachUnwinds ==
  ASSUME NEW s \in 1..Len(AttachSteps), NEW k \in 1..(s - 1)
  PROVE  AttachSteps[k] \in InitGiven(AttachSteps[s]) \cup Unwound(AttachSteps[s][1])
<1> USE PoolCountType
<1>1. CASE s <= 6
  <2>1. CASE s = 1
    BY <2>1
  <2>2. CASE s = 2
    <3>1. AttachSteps[s][1] = "lock"
      BY <2>2, AttachShape DEF Pool
    <3>2. Jump("lock") = 7
      BY DEF Jump
    <3> QED BY <2>2, <3>1, <3>2, UnwoundFrom, AttachShape
  <2>3. CASE s = 3
    <3>1. AttachSteps[s][1] = "groups"
      BY <2>3, AttachShape DEF Pool
    <3>2. Jump("groups") = 6
      BY DEF Jump
    <3>3. k \in {1, 2}
      BY <2>3
    <3> QED BY <3>1, <3>2, <3>3, UnwoundFrom, AttachShape
  <2>4. CASE s = 4
    <3>1. AttachSteps[s][1] = "params"
      BY <2>4, AttachShape DEF Pool
    <3>2. Jump("params") = 5
      BY DEF Jump
    <3>3. k \in {1, 2, 3}
      BY <2>4
    <3> QED BY <3>1, <3>2, <3>3, UnwoundFrom, AttachShape
  <2>5. CASE s = 5
    <3>1. AttachSteps[s][1] = "messages"
      BY <2>5, AttachShape DEF Pool
    <3>2. Jump("messages") = 4
      BY DEF Jump
    <3>3. k \in {1, 2, 3, 4}
      BY <2>5
    <3> QED BY <3>1, <3>2, <3>3, UnwoundFrom, AttachShape
  <2>6. CASE s = 6
    <3>1. AttachSteps[s][1] = "changes"
      BY <2>6, AttachShape DEF Pool
    <3>2. Jump("changes") = 3
      BY DEF Jump
    <3>3. k \in {1, 2, 3, 4, 5}
      BY <2>6
    <3> QED BY <3>1, <3>2, <3>3, UnwoundFrom, AttachShape
  <2> QED BY <1>1, <2>1, <2>2, <2>3, <2>4, <2>5, <2>6, AttachShape
<1>2. /\ Jump("memory") = 2 /\ Jump("table") = 2 /\ Jump("sized") = 2
  BY DEF Jump
<1>3. \A name \in {"memory", "table", "sized"} : \A j \in 1..6 :
        AttachSteps[j] \in Unwound(name)
  <2> TAKE name \in {"memory", "table", "sized"}
  <2>1. Jump(name) = 2
    BY <1>2
  <2> QED BY <2>1, UnwoundFrom, AttachShape
<1>4. CASE s = 7
  <2>1. AttachSteps[s][1] = "memory"
    BY <1>4, AttachShape DEF Pool
  <2> QED BY <1>3, <1>4, <2>1
<1>5. CASE s = 8
  <2>1. AttachSteps[s][1] = "table"
    BY <1>5, AttachShape DEF Pool
  <2>2. InitGiven(AttachSteps[s]) = {Pool("memory")}
    BY <2>1 DEF InitGiven
  <2>3. k \in 1..6 \/ k = 7
    BY <1>5
  <2> QED BY <1>3, <2>1, <2>2, <2>3, AttachShape
<1>6. CASE s > 8
  <2>1. PICK i \in 1..PoolCount : s = 8 + i
    <3>1. s - 8 \in 1..PoolCount /\ s = 8 + (s - 8)
      BY <1>6, AttachShape
    <3> QED BY <3>1
  <2>2. AttachSteps[s] = Sized(i - 1)
    BY <2>1, AttachShape
  <2>3. AttachSteps[s][1] = "sized" /\ AttachSteps[s][2] = i - 1
    BY <2>2 DEF Sized
  <2>4. InitGiven(AttachSteps[s]) = PoolsBelow(i - 1) \cup {Pool("table"), Pool("memory")}
    BY <2>3 DEF InitGiven
  <2>5. CASE k \in 1..6
    BY <1>3, <2>3, <2>5
  <2>6. CASE k \in {7, 8}
    BY <2>4, <2>6, AttachShape
  <2>7. CASE k > 8
    <3>1. k - 8 \in 1..PoolCount /\ k = 8 + (k - 8)
      BY <2>1, <2>7
    <3>2. AttachSteps[k] = Sized((k - 8) - 1)
      BY <3>1, AttachShape
    <3>3. (k - 8) - 1 \in 0..((i - 1) - 1)
      BY <2>1, <2>7, <3>1
    <3> QED BY <2>4, <3>2, <3>3 DEF PoolsBelow
  <2> QED BY <2>5, <2>6, <2>7
<1> QED BY <1>1, <1>4, <1>5, <1>6, AttachShape

\* And when the plugin's part fails, all of it.
LEMMA AttachUnwindsAll ==
  \A k \in 1..Len(AttachSteps) : AttachSteps[k] \in Unwound("plugin")
<1>1. Jump("plugin") = 1
  BY DEF Jump
<1>2. Things \subseteq Unwound("plugin")
  BY <1>1, UnwoundFrom
<1> QED BY <1>2, AttachShape

----------------------------------------------------------------------------
(* The inductive invariant. *)

\* Who is in a call, and how far it can have got.
CallOK ==
  \/ call = Idle
  \/ /\ call.side = "plugin" /\ call.who \in Plugins \ listed
     /\ call.step \in 1..(Len(InstantiateSteps) + 1)
  \/ /\ call.side = "host" /\ call.who \in listed \ attached
     /\ call.step \in 1..(Len(AttachSteps) + 2)
     /\ call.who \in hosted <=> call.step = Len(AttachSteps) + 2

\* Callbacks are those of an attached host, or of one about to be.
Reached ==
  /\ attached \subseteq hosted /\ hosted \subseteq listed
  /\ \A l \in hosted : l \in attached \/ Calling("host", l)

\* Attached instances have switched every pool the audio thread takes from.
Switched ==
  \A l \in attached :
    atomic["plugin"][l] = PluginAtomic /\ atomic["host"][l] = HostAtomic

\* What the first n - 1 steps have obtained.
Got(side, n) == {Steps(side)[k] : k \in (1..Len(Steps(side))) \cap (1..(n - 1))}

\* The steps of either side: a sequence of things whose set is All(side).
LEMMA StepsShape ==
  /\ Steps("plugin") = InstantiateSteps /\ Steps("host") = AttachSteps
  /\ Len(InstantiateSteps) = PoolCount + 5 /\ Len(AttachSteps) = PoolCount + 8
  /\ PoolCount \in Nat /\ PoolCount > 0
  /\ Pool("instance") \in All("plugin") /\ Pool("instance") \in All("host")
<1>1. Steps("plugin") = InstantiateSteps /\ Steps("host") = AttachSteps
  BY DEF Steps
<1>2. 1 \in 1..Len(InstantiateSteps) /\ 1 \in 1..Len(AttachSteps)
  BY InstantiateShape, AttachShape, PoolCountType
<1> QED BY <1>1, <1>2, InstantiateShape, AttachShape, PoolCountType DEF All

\* A step adds what it obtains to what has been obtained, and nothing else.
LEMMA GotGrows ==
  ASSUME NEW side \in Sides, NEW n \in Nat \ {0}
  PROVE  /\ Got(side, 1) = {} /\ Got(side, n) \subseteq All(side)
         /\ n <= Len(Steps(side)) =>
              /\ Got(side, n + 1) = Got(side, n) \cup {Steps(side)[n]}
              /\ Steps(side)[n] \in All(side)
         /\ n > Len(Steps(side)) => Got(side, n) = All(side)
<1> DEFINE N == Len(Steps(side))
<1>1. N \in Nat
  BY StepsShape DEF Sides
<1> HIDE DEF N
<1>2. (1..N) \cap (1..(1 - 1)) = {}
  BY <1>1
<1>3. n <= N => /\ (1..N) \cap (1..((n + 1) - 1)) = ((1..N) \cap (1..(n - 1))) \cup {n}
               /\ n \in 1..N
  BY <1>1
<1>4. n > N => (1..N) \cap (1..(n - 1)) = 1..N
  BY <1>1
<1>5. Got(side, 1) = {}
  BY <1>2 DEF Got, N
<1>6. Got(side, n) \subseteq All(side)
  BY DEF Got, All
<1>7. n <= N => /\ Got(side, n + 1) = Got(side, n) \cup {Steps(side)[n]}
               /\ Steps(side)[n] \in All(side)
  BY <1>3 DEF Got, All, N
<1>8. n > N => Got(side, n) = All(side)
  BY <1>4 DEF Got, All, N
<1> QED BY <1>5, <1>6, <1>7, <1>8 DEF N

\* NothingLeftBehind in these words.
LEMMA HeldIs ==
  ASSUME NothingLeftBehind, NEW side \in Sides, NEW l \in Plugins
  PROVE  held[side][l] = IF Calling(side, l) THEN Got(side, call.step)
                         ELSE IF l \in (IF side = "plugin" THEN listed ELSE attached)
                           THEN All(side) ELSE {}
BY DEF NothingLeftBehind, Got

\* After the last step an instance has all there is to have, before the first nothing.
LEMMA HeldAfter ==
  ASSUME \A side \in Sides, l \in Plugins :
           held'[side][l] = IF Calling(side, l)' THEN Got(side, call'.step)
                            ELSE IF l \in (IF side = "plugin" THEN listed' ELSE attached')
                              THEN All(side) ELSE {}
  PROVE  NothingLeftBehind'
BY DEF NothingLeftBehind, Got, Calling, All, Steps, Sides, AttachSteps, InstantiateSteps,
       MemorySteps

----------------------------------------------------------------------------
(* Everything but the chunks: CallOK, Reached, NothingLeftBehind, Switched. *)

CoreInv == CallOK /\ Reached /\ NothingLeftBehind /\ Switched

CoreTypes ==
  /\ call \in CallSet
  /\ held \in [Sides -> [Plugins -> SUBSET Thing]]
  /\ atomic \in [Sides -> [Plugins -> SUBSET ChunkPools("host")]]
  /\ leaked \in [Sides -> SUBSET Thing]
  /\ listed \subseteq Plugins /\ hosted \subseteq Plugins /\ attached \subseteq Plugins

\* A call that has been moved on is a call again.
LEMMA CallIsRecord ==
  ASSUME CoreTypes
  PROVE  call = Idle \/ (call \in [side : Sides, who : Plugins, step : Nat]
                          /\ call.step > 0 /\ call # Idle)
<1>1. Len(AttachSteps) + 2 \in Nat
  BY StepsShape
<1>2. CASE call \in [side : Sides, who : Plugins, step : 1..Len(AttachSteps) + 2]
  <2>1. call.side # Idle.side
    BY <1>2 DEF Idle, Sides
  <2> QED BY <1>1, <1>2, <2>1
<1> QED BY <1>2 DEF CoreTypes, CallSet

\* At first nothing is held, listed or called.
LEMMA InitCore == Init => CoreTypes /\ CoreInv
<1> SUFFICES ASSUME Init PROVE CoreTypes /\ CoreInv
  OBVIOUS
<1>1. CoreTypes
  BY DEF Init, CoreTypes, CallSet, PerInstance
<1>2. CallOK /\ Reached /\ Switched
  BY DEF Init, CallOK, Reached, Switched
<1>3. NothingLeftBehind
  BY DEF Init, NothingLeftBehind, PerInstance, Calling, Idle, Sides
<1> QED BY <1>1, <1>2, <1>3 DEF CoreInv

\* The entry of host_attach or plugin_instantiate.
LEMMA StartCore ==
  ASSUME CoreTypes, CoreInv, NEW side \in Sides, NEW l \in Plugins, Start(side, l)
  PROVE  CoreTypes' /\ CoreInv'
<1> USE DEF CoreTypes, CoreInv
<1>1. /\ call = Idle /\ held[side][l] = {} /\ (side = "host" => held["plugin"][l] # {})
      /\ call' = [side |-> side, who |-> l, step |-> 1]
      /\ held' = held /\ leaked' = leaked /\ listed' = listed /\ hosted' = hosted
      /\ attached' = attached /\ atomic' = atomic
  BY DEF Start
<1>2. \A s \in Sides, k \in Plugins : ~Calling(s, k)
  BY <1>1 DEF Calling, Idle, Sides
<1>3. All("plugin") # {} /\ All("host") # {} /\ 1 \in 1..(Len(InstantiateSteps) + 1)
      /\ 1 \in 1..(Len(AttachSteps) + 2) /\ 1 # Len(AttachSteps) + 2
  BY StepsShape
<1>4. /\ side = "plugin" => l \notin listed
      /\ side = "host" => l \in listed /\ l \notin attached
  BY <1>1, <1>2, <1>3, HeldIs DEF Sides
<1>5. l \notin hosted \/ l \in attached
  BY <1>2 DEF Reached, Sides
<1>6. CallOK'
  BY <1>1, <1>3, <1>4, <1>5, StepsShape DEF CallOK, Sides
<1>7. Reached' /\ Switched'
  BY <1>1, <1>2 DEF Reached, Switched, Sides
<1>8. NothingLeftBehind'
  <2>1. ASSUME NEW s \in Sides, NEW k \in Plugins
        PROVE  held'[s][k] = IF Calling(s, k)' THEN Got(s, call'.step)
                             ELSE IF k \in (IF s = "plugin" THEN listed' ELSE attached')
                               THEN All(s) ELSE {}
    <3>1. Calling(s, k)' <=> (s = side /\ k = l)
      BY <1>1 DEF Calling
    <3>2. held[s][k] = IF k \in (IF s = "plugin" THEN listed ELSE attached) THEN All(s) ELSE {}
      BY <1>2, HeldIs
    <3>3. Got(s, call'.step) = {}
      BY <1>1, GotGrows
    <3> QED BY <1>1, <3>1, <3>2, <3>3
  <2> QED BY <2>1, HeldAfter
<1>9. CoreTypes'
  BY <1>1, <1>3 DEF CallSet
<1> QED BY <1>6, <1>7, <1>8, <1>9

\* What a caller knows in the middle of a call.
LEMMA InCall ==
  ASSUME CoreTypes, CoreInv, call # Idle
  PROVE  /\ call.side \in Sides /\ call.who \in Plugins /\ call.step \in Nat \ {0}
         /\ call = [side |-> call.side, who |-> call.who, step |-> call.step]
         /\ Calling(call.side, call.who)
         /\ held[call.side][call.who] = Got(call.side, call.step)
         /\ call.side = "plugin" => call.who \notin listed
         /\ call.side = "host" => call.who \in listed /\ call.who \notin attached
<1>1. /\ call \in [side : Sides, who : Plugins, step : Nat] /\ call.step > 0
  BY CallIsRecord
<1>2. Calling(call.side, call.who)
  BY DEF Calling
<1>3. held[call.side][call.who] = Got(call.side, call.step)
  BY <1>1, <1>2, HeldIs DEF CoreInv
<1>4. /\ call.side = "plugin" => call.who \notin listed
      /\ call.side = "host" => call.who \in listed /\ call.who \notin attached
  BY DEF CoreInv, CallOK
<1> QED BY <1>1, <1>2, <1>3, <1>4

\* A step that succeeds.
LEMMA ObtainCore ==
  ASSUME CoreTypes, CoreInv, Obtain
  PROVE  CoreTypes' /\ CoreInv'
<1> USE DEF CoreTypes, CoreInv
<1> DEFINE d == call.side
           w == call.who
           n == call.step
<1>1. /\ n \in 1..Len(Steps(d))
      /\ held' = [held EXCEPT ![d][w] = @ \cup {Steps(d)[n]}]
      /\ call' = [call EXCEPT !.step = n + 1]
      /\ leaked' = leaked /\ listed' = listed /\ hosted' = hosted
      /\ attached' = attached /\ atomic' = atomic
  BY DEF Obtain
<1>2. call # Idle
  <2>1. Idle.step = 0
    BY DEF Idle
  <2> QED BY <1>1, <2>1
<1>3. /\ d \in Sides /\ w \in Plugins /\ n \in Nat \ {0}
      /\ call = [side |-> d, who |-> w, step |-> n]
      /\ held[d][w] = Got(d, n)
      /\ d = "plugin" => w \notin listed
      /\ d = "host" => w \in listed /\ w \notin attached
  BY <1>2, InCall
<1>4. call' = [side |-> d, who |-> w, step |-> n + 1]
  BY <1>1, <1>3
<1>5. Len(Steps(d)) <= Len(AttachSteps) /\ Len(Steps(d)) \in Nat /\ Len(AttachSteps) \in Nat
  BY <1>3, StepsShape DEF Sides
<1>6. Steps(d)[n] \in All(d) /\ Got(d, n + 1) = Got(d, n) \cup {Steps(d)[n]}
  BY <1>1, <1>3, <1>5, GotGrows
<1> HIDE DEF d, w, n
<1>7. CallOK'
  <2>1. CASE d = "plugin"
    BY <1>1, <1>3, <1>4, <1>5, <2>1, StepsShape DEF CallOK
  <2>2. CASE d = "host"
    <3>1. w \notin hosted
      <4>1. n <= Len(AttachSteps) /\ n # Len(AttachSteps) + 2
        BY <1>1, <1>5, <2>2, StepsShape
      <4>2. w \in hosted <=> n = Len(AttachSteps) + 2
        BY <1>2, <2>2 DEF CallOK, d, w, n
      <4> QED BY <4>1, <4>2
    <3> QED BY <1>1, <1>3, <1>4, <1>5, <2>2, <3>1, StepsShape DEF CallOK
  <2> QED BY <1>3, <2>1, <2>2 DEF Sides
<1>8. Reached' /\ Switched'
  BY <1>1, <1>3, <1>4 DEF Reached, Switched, Calling
<1>9. NothingLeftBehind'
  <2>1. ASSUME NEW s \in Sides, NEW k \in Plugins
        PROVE  held'[s][k] = IF Calling(s, k)' THEN Got(s, call'.step)
                             ELSE IF k \in (IF s = "plugin" THEN listed' ELSE attached')
                               THEN All(s) ELSE {}
    <3>1. (Calling(s, k)' <=> (s = d /\ k = w)) /\ (Calling(s, k) <=> (s = d /\ k = w))
      BY <1>3, <1>4 DEF Calling
    <3>2. CASE s = d /\ k = w
      <4>1. held'[d][w] = held[d][w] \cup {Steps(d)[n]}
        BY <1>1, <1>3
      <4> QED BY <1>3, <1>4, <1>6, <3>1, <3>2, <4>1
    <3>3. CASE ~(s = d /\ k = w)
      <4>1. held'[s][k] = held[s][k]
        BY <1>1, <1>3, <3>3
      <4> QED BY <1>1, <3>1, <3>3, <4>1, HeldIs
    <3> QED BY <3>2, <3>3
  <2> QED BY <2>1, HeldAfter
<1>10. CoreTypes'
  <2>1. call' \in CallSet
    BY <1>1, <1>3, <1>4, <1>5 DEF CallSet
  <2>2. All(d) \subseteq Thing
    BY <1>3 DEF Thing, Sides
  <2>3. held' \in [Sides -> [Plugins -> SUBSET Thing]]
    BY <1>1, <1>3, <1>6, <2>2
  <2> QED BY <1>1, <2>1, <2>3
<1> QED BY <1>7, <1>8, <1>9, <1>10

\* The failing step of host_attach, or the plugin's part of it: nothing is left.
LEMMA AttachFailsCore ==
  ASSUME CoreTypes, CoreInv, call.side = "host", NEW name, NEW given,
         call.who \notin hosted,
         Got("host", call.step) \subseteq given \cup Unwound(name),
         AttachFails(name, given)
  PROVE  CoreTypes' /\ CoreInv'
<1> USE DEF CoreTypes, CoreInv
<1> DEFINE w == call.who
           gone == given \cup Unwound(name)
<1>1. call # Idle
  BY DEF Idle
<1>2. /\ w \in Plugins /\ held["host"][w] = Got("host", call.step)
      /\ w \in listed /\ w \notin attached /\ "host" \in Sides
  BY <1>1, InCall
<1>3. /\ held' = [held EXCEPT !["host"][w] = @ \ gone]
      /\ call' = Idle /\ leaked' = leaked /\ listed' = listed /\ hosted' = hosted
      /\ attached' = attached /\ atomic' = atomic
  BY DEF AttachFails
<1>4. held["host"][w] \ gone = {}
  BY <1>2
<1>5. CallOK' /\ Switched'
  BY <1>3 DEF CallOK, Switched
<1>6. Reached'
  BY <1>3 DEF Reached, Calling
<1> HIDE DEF w, gone
<1>7. NothingLeftBehind'
  <2>1. ASSUME NEW s \in Sides, NEW k \in Plugins
        PROVE  held'[s][k] = IF Calling(s, k)' THEN Got(s, call'.step)
                             ELSE IF k \in (IF s = "plugin" THEN listed' ELSE attached')
                               THEN All(s) ELSE {}
    <3>1. ~Calling(s, k)' /\ (Calling(s, k) <=> (s = "host" /\ k = w))
      BY <1>3 DEF Calling, Idle, Sides, w
    <3>2. CASE s = "host" /\ k = w
      <4>1. held'["host"][w] = {}
        BY <1>2, <1>3, <1>4
      <4> QED BY <1>2, <1>3, <3>1, <3>2, <4>1
    <3>3. CASE ~(s = "host" /\ k = w)
      <4>1. held'[s][k] = held[s][k]
        BY <1>2, <1>3, <3>3
      <4> QED BY <1>3, <3>1, <3>3, <4>1, HeldIs
    <3> QED BY <3>2, <3>3
  <2> QED BY <2>1, HeldAfter
<1>8. CoreTypes'
  <2>1. call' \in CallSet
    BY <1>3 DEF CallSet
  <2>2. held["host"][w] \ gone \in SUBSET Thing
    BY <1>2
  <2>3. held' \in [Sides -> [Plugins -> SUBSET Thing]]
    BY <1>2, <1>3, <2>2
  <2> QED BY <1>3, <2>1, <2>3
<1> QED BY <1>5, <1>6, <1>7, <1>8

\* A failing step of plugin_instantiate: what it gives back is what it has.
LEMMA InstantiateFailsCore ==
  ASSUME CoreTypes, CoreInv, call.side = "plugin", NEW given, InstantiateFails(given)
  PROVE  CoreTypes' /\ CoreInv'
<1> USE DEF CoreTypes, CoreInv
<1> DEFINE w == call.who
           left == held["plugin"][w] \ (given \cup {Pool("instance")})
<1>1. call # Idle
  BY DEF Idle
<1>2. w \in Plugins /\ w \notin listed /\ "plugin" \in Sides
  BY <1>1, InCall DEF Sides
<1>3. /\ held' = [held EXCEPT !["plugin"][w] = {}]
      /\ leaked' = [leaked EXCEPT !["plugin"] = @ \cup left]
      /\ call' = Idle /\ listed' = listed /\ hosted' = hosted
      /\ attached' = attached /\ atomic' = atomic
  BY DEF InstantiateFails
<1>4. CallOK' /\ Switched'
  BY <1>3 DEF CallOK, Switched
<1>5. Reached'
  BY <1>3 DEF Reached, Calling
<1> HIDE DEF w
<1>6. NothingLeftBehind'
  <2>1. ASSUME NEW s \in Sides, NEW k \in Plugins
        PROVE  held'[s][k] = IF Calling(s, k)' THEN Got(s, call'.step)
                             ELSE IF k \in (IF s = "plugin" THEN listed' ELSE attached')
                               THEN All(s) ELSE {}
    <3>1. ~Calling(s, k)' /\ (Calling(s, k) <=> (s = "plugin" /\ k = w))
      BY <1>3 DEF Calling, Idle, Sides, w
    <3>2. CASE s = "plugin" /\ k = w
      <4>1. held'["plugin"][w] = {}
        BY <1>2, <1>3
      <4> QED BY <1>2, <1>3, <3>1, <3>2, <4>1
    <3>3. CASE ~(s = "plugin" /\ k = w)
      <4>1. held'[s][k] = held[s][k]
        BY <1>2, <1>3, <3>3
      <4> QED BY <1>3, <3>1, <3>3, <4>1, HeldIs
    <3> QED BY <3>2, <3>3
  <2> QED BY <2>1, HeldAfter
<1>7. CoreTypes'
  <2>1. call' \in CallSet
    BY <1>3 DEF CallSet
  <2>2. left \in SUBSET Thing
    BY <1>2
  <2> HIDE DEF left
  <2>3. held' \in [Sides -> [Plugins -> SUBSET Thing]]
    BY <1>2, <1>3
  <2>4. leaked' \in [Sides -> SUBSET Thing]
    BY <1>2, <1>3, <2>2
  <2> QED BY <1>3, <2>1, <2>3, <2>4
<1> QED BY <1>4, <1>5, <1>6, <1>7

\* A step that fails, on either side.
LEMMA FailCore ==
  ASSUME CoreTypes, CoreInv, Fail
  PROVE  CoreTypes' /\ CoreInv'
<1>1. call # Idle /\ call.step \in 1..Len(Steps(call.side))
  <2>1. call.step \in 1..Len(Steps(call.side)) /\ Idle.step = 0
    BY DEF Fail, Idle
  <2> QED BY <2>1
<1>2. call.side \in Sides
  BY <1>1, InCall
<1>3. CASE call.side = "host"
  <2> DEFINE n == call.step
             r == AttachSteps[n]
  <2>1. AttachFails(r[1], InitGiven(r))
    BY <1>3, StepsShape DEF Fail
  <2>2. n \in 1..Len(AttachSteps) /\ Len(AttachSteps) \in Nat
    BY <1>1, <1>3, StepsShape
  <2>3. call.who \notin hosted
    BY <1>1, <1>3, <2>2 DEF CoreInv, CallOK
  <2>4. Got("host", n) \subseteq InitGiven(r) \cup Unwound(r[1])
    <3>1. ASSUME NEW k \in (1..Len(AttachSteps)) \cap (1..(n - 1))
          PROVE  AttachSteps[k] \in InitGiven(r) \cup Unwound(r[1])
      BY <2>2, AttachUnwinds
    <3> QED BY <3>1, StepsShape DEF Got
  <2> HIDE DEF r
  <2> QED BY <1>3, <2>1, <2>3, <2>4, AttachFailsCore
<1>4. CASE call.side = "plugin"
  <2>1. \E given : InstantiateFails(given)
    BY <1>4 DEF Fail
  <2> QED BY <1>4, <2>1, InstantiateFailsCore
<1> QED BY <1>2, <1>3, <1>4 DEF Sides

\* Where everything has been obtained.
LEMMA AtEnd ==
  ASSUME CoreTypes, CoreInv, Obtained
  PROVE  /\ call # Idle /\ call.side \in Sides
         /\ Got(call.side, call.step) = All(call.side)
         /\ call.side = "host" =>
              call.who \notin hosted /\ call.step = Len(AttachSteps) + 1
<1>1. call # Idle /\ call.step = Len(Steps(call.side)) + 1
  BY DEF Obtained
<1>2. call.side \in Sides /\ call.step \in Nat \ {0}
  BY <1>1, InCall
<1>3. Len(Steps(call.side)) \in Nat /\ Len(AttachSteps) \in Nat
  BY <1>2, StepsShape DEF Sides
<1>4. Got(call.side, call.step) = All(call.side)
  <2>1. call.step > Len(Steps(call.side))
    BY <1>1, <1>3
  <2> QED BY <1>2, <2>1, GotGrows
<1>5. ASSUME call.side = "host"
      PROVE  call.who \notin hosted /\ call.step = Len(AttachSteps) + 1
  <2>1. call.step = Len(AttachSteps) + 1
    BY <1>1, <1>5, StepsShape
  <2> QED BY <1>1, <1>3, <1>5, <2>1 DEF CoreInv, CallOK
<1> QED BY <1>1, <1>2, <1>4, <1>5

\* The end of plugin_instantiate: the instance joins g_instances.
LEMMA InstantiatedCore ==
  ASSUME CoreTypes, CoreInv, Instantiated
  PROVE  CoreTypes' /\ CoreInv'
<1> USE DEF CoreTypes, CoreInv
<1> DEFINE w == call.who
<1>1. /\ Obtained /\ call.side = "plugin"
      /\ listed' = listed \cup {w} /\ call' = Idle
      /\ held' = held /\ leaked' = leaked /\ hosted' = hosted
      /\ attached' = attached /\ atomic' = atomic
  BY DEF Instantiated
<1>2. call # Idle /\ Got("plugin", call.step) = All("plugin")
  BY <1>1, AtEnd
<1>3. w \in Plugins /\ w \notin listed /\ held["plugin"][w] = All("plugin")
  BY <1>1, <1>2, InCall
<1>4. CallOK' /\ Switched'
  BY <1>1 DEF CallOK, Switched
<1>5. Reached'
  BY <1>1 DEF Reached, Calling
<1> HIDE DEF w
<1>6. NothingLeftBehind'
  <2>1. ASSUME NEW s \in Sides, NEW k \in Plugins
        PROVE  held'[s][k] = IF Calling(s, k)' THEN Got(s, call'.step)
                             ELSE IF k \in (IF s = "plugin" THEN listed' ELSE attached')
                               THEN All(s) ELSE {}
    <3>1. ~Calling(s, k)' /\ (Calling(s, k) <=> (s = "plugin" /\ k = w))
      BY <1>1 DEF Calling, Idle, Sides, w
    <3>2. CASE s = "plugin" /\ k = w
      BY <1>1, <1>3, <3>1, <3>2
    <3>3. CASE ~(s = "plugin" /\ k = w)
      BY <1>1, <3>1, <3>3, HeldIs
    <3> QED BY <3>2, <3>3
  <2> QED BY <2>1, HeldAfter
<1>7. CoreTypes'
  BY <1>1, <1>3 DEF CallSet
<1> QED BY <1>4, <1>5, <1>6, <1>7

\* The call from host_attach to the plugin's host_attach, both answers.
LEMMA PluginAttachCore ==
  ASSUME CoreTypes, CoreInv, PluginAttach
  PROVE  CoreTypes' /\ CoreInv'
<1> USE DEF CoreTypes, CoreInv
<1>1. /\ call # Idle /\ call.side = "host" /\ Got("host", call.step) = All("host")
      /\ call.who \notin hosted /\ call.step = Len(AttachSteps) + 1
  BY AtEnd DEF PluginAttach
<1>2. CASE AttachFails("plugin", {})
  <2>1. Got("host", call.step) \subseteq {} \cup Unwound("plugin")
    BY <1>1, AttachUnwindsAll, StepsShape DEF All
  <2> QED BY <1>1, <1>2, <2>1, AttachFailsCore
<1>3. ASSUME /\ call.who \in listed
             /\ hosted' = hosted \cup {call.who}
             /\ call' = [call EXCEPT !.step = @ + 1]
             /\ UNCHANGED <<held, leaked, listed, attached, atomic, chunkVars>>
      PROVE  CoreTypes' /\ CoreInv'
  <2> DEFINE w == call.who
             n == call.step
  <2>1. /\ w \in Plugins /\ n \in Nat \ {0} /\ Len(AttachSteps) \in Nat
        /\ w \in listed /\ w \notin attached
        /\ call = [side |-> "host", who |-> w, step |-> n]
        /\ held["host"][w] = Got("host", n)
    BY <1>1, InCall, StepsShape
  <2>2. call' = [side |-> "host", who |-> w, step |-> n + 1]
    BY <1>3, <2>1
  <2>3. Got("host", n + 1) = All("host")
    <3>1. n + 1 > Len(Steps("host")) /\ n + 1 \in Nat \ {0} /\ "host" \in Sides
      BY <1>1, <2>1, StepsShape DEF Sides
    <3> QED BY <3>1, GotGrows
  <2>4. n = Len(AttachSteps) + 1
    BY <1>1
  <2>5. hosted' = hosted \cup {w}
    BY <1>3
  <2>6. Got("host", n) = All("host")
    BY <1>1
  <2> HIDE DEF w, n
  <2>7. CallOK' /\ Switched'
    BY <1>3, <2>1, <2>2, <2>4, <2>5 DEF CallOK, Switched
  <2>8. Reached'
    BY <1>3, <2>1, <2>2, <2>5 DEF Reached, Calling
  <2>9. NothingLeftBehind'
    <3>1. ASSUME NEW s \in Sides, NEW k \in Plugins
          PROVE  held'[s][k] = IF Calling(s, k)' THEN Got(s, call'.step)
                               ELSE IF k \in (IF s = "plugin" THEN listed' ELSE attached')
                                 THEN All(s) ELSE {}
      <4>1. /\ Calling(s, k)' <=> (s = "host" /\ k = w)
            /\ Calling(s, k) <=> (s = "host" /\ k = w)
        BY <2>1, <2>2 DEF Calling
      <4>2. CASE s = "host" /\ k = w
        BY <1>3, <2>1, <2>2, <2>3, <2>6, <4>1, <4>2
      <4>3. CASE ~(s = "host" /\ k = w)
        BY <1>3, <4>1, <4>3, HeldIs
      <4> QED BY <4>2, <4>3
    <3> QED BY <3>1, HeldAfter
  <2>10. CoreTypes'
    <3>1. n + 1 \in 1..Len(AttachSteps) + 2 /\ "host" \in Sides
      BY <2>1, <2>4 DEF Sides
    <3> QED BY <1>3, <2>1, <2>2, <2>5, <3>1 DEF CallSet
  <2> QED BY <2>7, <2>8, <2>9, <2>10
<1> QED BY <1>2, <1>3 DEF PluginAttach

\* The pools whose chunks go to an audio thread are pools of chunks.
LEMMA AtomicTypes ==
  PluginAtomic \in SUBSET ChunkPools("host") /\ HostAtomic \in SUBSET ChunkPools("host")
BY DEF PluginAtomic, HostAtomic, ChunkPools

\* The end of host_attach, where the pools are switched to their atomic mode.
LEMMA AttachedCore ==
  ASSUME CoreTypes, CoreInv, Attached
  PROVE  CoreTypes' /\ CoreInv'
<1> USE DEF CoreTypes, CoreInv
<1> DEFINE w == call.who
<1>1. /\ call.side = "host" /\ call.step = Len(AttachSteps) + 2
      /\ atomic' = [atomic EXCEPT !["plugin"][w] = PluginAtomic,
                                  !["host"][w] = HostAtomic]
      /\ attached' = attached \cup {w} /\ call' = Idle
      /\ held' = held /\ leaked' = leaked /\ hosted' = hosted /\ listed' = listed
  BY DEF Attached
<1>2. call # Idle
  BY <1>1 DEF Idle
<1>3. /\ w \in Plugins /\ w \in listed /\ w \notin attached
      /\ held["host"][w] = Got("host", call.step)
  BY <1>1, <1>2, InCall
<1>4. w \in hosted
  BY <1>1, <1>2 DEF CallOK
<1>5. Got("host", call.step) = All("host")
  <2>1. call.step > Len(Steps("host")) /\ call.step \in Nat \ {0} /\ "host" \in Sides
    BY <1>1, StepsShape DEF Sides
  <2> QED BY <2>1, GotGrows
<1>6. \A k \in hosted : k \in attached \/ k = w
  BY DEF Reached, Calling
<1> HIDE DEF w
<1>7. CallOK'
  BY <1>1 DEF CallOK
<1>8. Reached'
  BY <1>1, <1>4, <1>6 DEF Reached
<1>9. Switched'
  <2>1. ASSUME NEW k \in attached'
        PROVE  atomic'["plugin"][k] = PluginAtomic /\ atomic'["host"][k] = HostAtomic
    <3>1. CASE k = w
      BY <1>1, <1>3, <3>1 DEF Sides
    <3>2. CASE k # w
      BY <1>1, <1>3, <3>2 DEF Sides, Switched
    <3> QED BY <3>1, <3>2
  <2> QED BY <2>1 DEF Switched, PluginAtomic, HostAtomic
<1>10. NothingLeftBehind'
  <2>1. ASSUME NEW s \in Sides, NEW k \in Plugins
        PROVE  held'[s][k] = IF Calling(s, k)' THEN Got(s, call'.step)
                             ELSE IF k \in (IF s = "plugin" THEN listed' ELSE attached')
                               THEN All(s) ELSE {}
    <3>1. ~Calling(s, k)' /\ (Calling(s, k) <=> (s = "host" /\ k = w))
      BY <1>1 DEF Calling, Idle, Sides, w
    <3>2. CASE s = "host" /\ k = w
      BY <1>1, <1>3, <1>5, <3>1, <3>2
    <3>3. CASE ~(s = "host" /\ k = w)
      <4>1. held[s][k] = IF k \in (IF s = "plugin" THEN listed ELSE attached) THEN All(s) ELSE {}
        BY <3>1, <3>3, HeldIs
      <4> QED BY <1>1, <3>1, <3>3, <4>1 DEF Sides
    <3> QED BY <3>2, <3>3
  <2> QED BY <2>1, HeldAfter
<1>11. CoreTypes'
  <2>1. atomic' \in [Sides -> [Plugins -> SUBSET ChunkPools("host")]]
    BY <1>1, <1>3, AtomicTypes DEF Sides
  <2> QED BY <1>1, <1>3, <2>1 DEF CallSet
<1> QED BY <1>7, <1>8, <1>9, <1>10, <1>11

\* plugin_cleanup frees an instance that is out of every list.
LEMMA CleanupCore ==
  ASSUME CoreTypes, CoreInv, NEW l \in Plugins, Cleanup(l)
  PROVE  CoreTypes' /\ CoreInv'
<1> USE DEF CoreTypes, CoreInv
<1>1. /\ call = Idle /\ call' = call /\ l \in listed
      /\ listed' = listed \ {l} /\ hosted' = hosted \ {l} /\ attached' = attached \ {l}
      /\ atomic' = [atomic EXCEPT !["plugin"][l] = {}, !["host"][l] = {}]
      /\ held' = [held EXCEPT !["plugin"][l] = {}, !["host"][l] = {}]
      /\ leaked' = [leaked EXCEPT !["host"] = @ \cup held["host"][l]]
  BY DEF Cleanup, Unlisted
<1>2. CallOK'
  BY <1>1 DEF CallOK
<1>3. Reached'
  BY <1>1 DEF Reached, Calling, Idle
<1>4. Switched'
  <2>1. ASSUME NEW k \in attached'
        PROVE  atomic'["plugin"][k] = PluginAtomic /\ atomic'["host"][k] = HostAtomic
    BY <1>1 DEF Sides, Switched
  <2> QED BY <2>1 DEF Switched, PluginAtomic, HostAtomic
<1>5. NothingLeftBehind'
  <2>1. ASSUME NEW s \in Sides, NEW k \in Plugins
        PROVE  held'[s][k] = IF Calling(s, k)' THEN Got(s, call'.step)
                             ELSE IF k \in (IF s = "plugin" THEN listed' ELSE attached')
                               THEN All(s) ELSE {}
    <3>1. ~Calling(s, k)' /\ ~Calling(s, k)
      BY <1>1 DEF Calling, Idle, Sides
    <3>2. CASE k = l
      <4>1. held'[s][k] = {}
        BY <1>1, <3>2 DEF Sides
      <4> QED BY <1>1, <3>1, <3>2, <4>1
    <3>3. CASE k # l
      <4>1. held'[s][k] = held[s][k]
        BY <1>1, <3>3 DEF Sides
      <4> QED BY <1>1, <3>1, <3>3, <4>1, HeldIs
    <3> QED BY <3>2, <3>3
  <2> QED BY <2>1, HeldAfter
<1>6. CoreTypes'
  <2>1. /\ atomic' \in [Sides -> [Plugins -> SUBSET ChunkPools("host")]]
        /\ held' \in [Sides -> [Plugins -> SUBSET Thing]]
        /\ leaked' \in [Sides -> SUBSET Thing]
    BY <1>1 DEF Sides
  <2> QED BY <1>1, <2>1
<1> QED BY <1>2, <1>3, <1>4, <1>5, <1>6

\* The steps that take and give back chunks leave all that alone.
LEMMA StutterCore ==
  ASSUME CoreTypes, CoreInv, UNCHANGED <<call, held, leaked, listed, hosted, attached, atomic>>
  PROVE  CoreTypes' /\ CoreInv'
<1>1. CoreTypes'
  BY DEF CoreTypes, CallSet, Thing, ChunkPools
<1>2. CallOK' /\ Reached' /\ Switched'
  BY DEF CoreInv, CallOK, Reached, Switched, Calling
<1>3. NothingLeftBehind'
  BY DEF CoreInv, NothingLeftBehind, Calling
<1> QED BY <1>1, <1>2, <1>3 DEF CoreInv

----------------------------------------------------------------------------
(* Chunks. *)

ChunkTypes ==
  /\ chunk \in [Chunks -> ChunkSet]
  /\ inUse \in [Sides -> [Plugins -> [ChunkPools("host") -> Int]]]
  /\ refused \subseteq Sizes /\ slept \in BOOLEAN

\* A chunk in use has an owner that exists and knows its pool.
ChunkOwned ==
  \A c \in Chunks : chunk[c] # Nothing =>
    /\ chunk[c].side \in Sides /\ chunk[c].who \in Plugins
    /\ chunk[c].home = chunk[c].pool /\ chunk[c].pool \in ChunkPools(chunk[c].side)
    /\ chunk[c].who \in (IF chunk[c].side = "plugin" THEN listed ELSE hosted)

Out(side, l, p) ==
  {c \in Chunks : chunk[c].who = l /\ chunk[c].side = side /\ chunk[c].pool = p}

Counted ==
  \A side \in Sides, l \in Plugins : \A p \in ChunkPools("host") :
    inUse[side][l][p] = Cardinality(Out(side, l, p))

ChunkInv == ChunkTypes /\ ChunkOwned /\ Counted /\ RealtimeNeverSleeps

\* Each pool of chunks is one of the things its library obtains.
LEMMA PoolNames ==
  /\ \A side \in Sides : ChunkPools(side) \subseteq ChunkPools("host")
  /\ \A side \in Sides : ChunkPools(side) \subseteq All(side)
  /\ \A side \in Sides, name \in {"groups", "params"} : Pool(name) \in ChunkPools(side)
  /\ \A side \in Sides : SizedPools \subseteq ChunkPools(side)
  /\ \A name \in {"messages", "changes"} : Pool(name) \in ChunkPools("host")
<1> USE PoolCountType
<1>1. /\ \A side \in Sides : ChunkPools(side) \subseteq ChunkPools("host")
      /\ \A side \in Sides, name \in {"groups", "params"} : Pool(name) \in ChunkPools(side)
      /\ \A side \in Sides : SizedPools \subseteq ChunkPools(side)
      /\ \A name \in {"messages", "changes"} : Pool(name) \in ChunkPools("host")
  BY DEF ChunkPools
<1>2. ChunkPools("plugin") \subseteq All("plugin")
  <2>1. \A k \in 1..(PoolCount + 5) : InstantiateSteps[k] \in All("plugin")
    BY StepsShape DEF All
  <2>2. Pool("groups") \in All("plugin") /\ Pool("params") \in All("plugin")
    <3>1. PoolCount + 4 \in 1..(PoolCount + 5) /\ PoolCount + 5 \in 1..(PoolCount + 5)
      OBVIOUS
    <3> QED BY <2>1, <3>1, InstantiateShape
  <2>3. ASSUME NEW i \in 0..(PoolCount - 1)
        PROVE  Sized(i) \in All("plugin")
    <3>1. i + 1 \in 1..PoolCount /\ 3 + (i + 1) \in 1..(PoolCount + 5) /\ (i + 1) - 1 = i
      OBVIOUS
    <3>2. InstantiateSteps[3 + (i + 1)] = Sized((i + 1) - 1)
      BY <3>1, InstantiateShape
    <3> QED BY <2>1, <3>1, <3>2
  <2> QED BY <2>2, <2>3 DEF ChunkPools, SizedPools
<1>3. ChunkPools("host") \subseteq All("host")
  <2>1. \A k \in 1..(PoolCount + 8) : AttachSteps[k] \in All("host")
    BY StepsShape DEF All
  <2>2. /\ Pool("groups") \in All("host") /\ Pool("params") \in All("host")
        /\ Pool("messages") \in All("host") /\ Pool("changes") \in All("host")
    <3>1. \A k \in 3..6 : k \in 1..(PoolCount + 8)
      OBVIOUS
    <3> QED BY <2>1, <3>1, AttachShape
  <2>3. ASSUME NEW i \in 0..(PoolCount - 1)
        PROVE  Sized(i) \in All("host")
    <3>1. i + 1 \in 1..PoolCount /\ 8 + (i + 1) \in 1..(PoolCount + 8) /\ (i + 1) - 1 = i
      OBVIOUS
    <3>2. AttachSteps[8 + (i + 1)] = Sized((i + 1) - 1)
      BY <3>1, AttachShape
    <3> QED BY <2>1, <3>1, <3>2
  <2> QED BY <2>2, <2>3 DEF ChunkPools, SizedPools
<1> QED BY <1>1, <1>2, <1>3 DEF Sides

\* The chunks out of a pool are finitely many.
LEMMA OutFinite ==
  ASSUME NEW side, NEW l, NEW p
  PROVE  IsFiniteSet(Out(side, l, p)) /\ Cardinality(Out(side, l, p)) \in Nat
<1>1. Out(side, l, p) \subseteq Chunks
  BY DEF Out
<1> QED BY <1>1, LifecycleAssumption, FS_Subset, FS_CardinalityType

\* At first every chunk is at home.
LEMMA InitChunks == Init => ChunkInv
<1> SUFFICES ASSUME Init PROVE ChunkInv
  OBVIOUS
<1>1. ChunkTypes
  <2>1. NoneInUse \in [ChunkPools("host") -> Int]
    BY DEF NoneInUse
  <2> QED BY <2>1 DEF Init, ChunkTypes, ChunkSet, PerInstance
<1>2. ChunkOwned /\ RealtimeNeverSleeps
  BY DEF Init, ChunkOwned, RealtimeNeverSleeps
<1>3. ASSUME NEW side \in Sides, NEW l \in Plugins, NEW p \in ChunkPools("host")
      PROVE  inUse[side][l][p] = Cardinality(Out(side, l, p))
  <2>1. Out(side, l, p) = {}
    BY LifecycleAssumption DEF Init, Out, Nothing
  <2>2. inUse[side][l][p] = 0
    BY DEF Init, PerInstance, NoneInUse
  <2> QED BY <2>1, <2>2, FS_EmptySet
<1> QED BY <1>1, <1>2, <1>3 DEF ChunkInv, Counted

\* Taking a chunk from a pool of an instance that exists.
LEMMA TakeChunks ==
  ASSUME ChunkInv, NEW c \in Chunks, chunk[c] = Nothing,
         NEW l \in Plugins, NEW side \in Sides, NEW pool \in ChunkPools(side),
         NEW size \in Sizes \cup {0},
         l \in (IF side = "plugin" THEN listed ELSE hosted),
         Take(c, l, side, pool, pool, size),
         listed' = listed, hosted' = hosted,
         refused' = refused, slept' = FALSE
  PROVE  ChunkInv'
<1> USE DEF ChunkInv
<1> DEFINE b == [who |-> l, side |-> side, pool |-> pool, home |-> pool, size |-> size]
<1>1. /\ chunk' = [chunk EXCEPT ![c] = b]
      /\ inUse' = [inUse EXCEPT ![side][l][pool] = @ + 1]
  BY DEF Take
<1>2. pool \in ChunkPools("host")
  BY PoolNames
<1>3. b \in ChunkSet /\ b.who = l /\ b.side = side /\ b.pool = pool /\ b.home = pool
  BY <1>2 DEF ChunkSet
<1> HIDE DEF b
<1>4. ChunkTypes'
  <2>1. chunk' \in [Chunks -> ChunkSet]
    BY <1>1, <1>3 DEF ChunkTypes
  <2>2. inUse' \in [Sides -> [Plugins -> [ChunkPools("host") -> Int]]]
    BY <1>1, <1>2 DEF ChunkTypes
  <2> QED BY <2>1, <2>2 DEF ChunkTypes, ChunkSet, ChunkPools
<1>5. ChunkOwned'
  <2>1. ASSUME NEW d \in Chunks, chunk'[d] # Nothing
        PROVE  /\ chunk'[d].side \in Sides /\ chunk'[d].who \in Plugins
               /\ chunk'[d].home = chunk'[d].pool
               /\ chunk'[d].pool \in ChunkPools(chunk'[d].side)
               /\ chunk'[d].who \in (IF chunk'[d].side = "plugin" THEN listed' ELSE hosted')
    <3>1. CASE d = c
      <4>1. chunk'[d] = b
        BY <1>1, <3>1 DEF ChunkTypes
      <4> QED BY <1>3, <4>1
    <3>2. CASE d # c
      <4>1. chunk'[d] = chunk[d]
        BY <1>1, <3>2 DEF ChunkTypes
      <4> QED BY <2>1, <4>1 DEF ChunkOwned
    <3> QED BY <3>1, <3>2
  <2> QED BY <2>1 DEF ChunkOwned, Nothing, ChunkPools
<1>6. Counted'
  <2>1. ASSUME NEW s \in Sides, NEW k \in Plugins, NEW p \in ChunkPools("host")
        PROVE  inUse'[s][k][p] = Cardinality(Out(s, k, p)')
    <3>1. chunk[c].who \notin Plugins
      BY LifecycleAssumption DEF Nothing
    <3>2. /\ chunk'[c] = b /\ \A d \in Chunks : d # c => chunk'[d] = chunk[d]
      BY <1>1 DEF ChunkTypes
    <3>3. CASE s = side /\ k = l /\ p = pool
      <4>1. Out(s, k, p)' = Out(s, k, p) \cup {c} /\ c \notin Out(s, k, p)
        BY <1>3, <3>1, <3>2, <3>3 DEF Out
      <4>2. inUse'[s][k][p] = inUse[s][k][p] + 1
        BY <1>1, <1>2, <3>3 DEF ChunkTypes
      <4>3. inUse[s][k][p] = Cardinality(Out(s, k, p))
        BY DEF Counted
      <4>4. IsFiniteSet(Out(s, k, p))
        BY OutFinite
      <4>5. Cardinality(Out(s, k, p) \cup {c}) = Cardinality(Out(s, k, p)) + 1
        BY <4>1, <4>4, FS_AddElement
      <4> QED BY <4>1, <4>2, <4>3, <4>5
    <3>4. CASE ~(s = side /\ k = l /\ p = pool)
      <4>1. Out(s, k, p)' = Out(s, k, p)
        BY <1>3, <3>1, <3>2, <3>4 DEF Out
      <4>2. inUse'[s][k][p] = inUse[s][k][p]
        BY <1>1, <1>2, <3>4 DEF ChunkTypes
      <4> QED BY <4>1, <4>2 DEF Counted
    <3> QED BY <3>3, <3>4
  <2> QED BY <2>1 DEF Counted, ChunkPools
<1> QED BY <1>4, <1>5, <1>6 DEF RealtimeNeverSleeps

\* Who adds items is an instance that exists.
LEMMA AddingExists ==
  ASSUME NEW side \in Sides, NEW l \in Plugins, Adding(side, l)
  PROVE  l \in (IF side = "plugin" THEN listed ELSE hosted)
BY DEF Adding

\* An audio thread only takes from pools that have been switched.
LEMMA NeverSleeps ==
  ASSUME Switched, RealtimeNeverSleeps, NEW side \in Sides, NEW l, NEW pool,
         pool \in PluginAtomic, pool \in HostAtomic, Mark(side, l, pool)
  PROVE  slept' = FALSE
BY DEF Switched, RealtimeNeverSleeps, Mark, InAudio, MaySleep, Sides

\* Steps that leave the chunks alone and free no instance.
LEMMA OtherChunks ==
  ASSUME ChunkInv, chunk' = chunk, inUse' = inUse, slept' = slept,
         refused' \subseteq Sizes, listed \subseteq listed', hosted \subseteq hosted'
  PROVE  ChunkInv'
<1> USE DEF ChunkInv
<1>1. ChunkTypes'
  BY DEF ChunkTypes, ChunkSet, ChunkPools
<1>2. ChunkOwned'
  <2>1. ASSUME NEW d \in Chunks, chunk[d] # Nothing
        PROVE  /\ chunk[d].side \in Sides /\ chunk[d].who \in Plugins
               /\ chunk[d].home = chunk[d].pool
               /\ chunk[d].pool \in ChunkPools(chunk[d].side)
               /\ chunk[d].who \in (IF chunk[d].side = "plugin" THEN listed' ELSE hosted')
    BY <2>1 DEF ChunkOwned
  <2> QED BY <2>1 DEF ChunkOwned, Nothing, ChunkPools
<1>3. Counted'
  <2>1. \A side \in Sides, l \in Plugins : \A p \in ChunkPools("host") :
          inUse'[side][l][p] = Cardinality(Out(side, l, p)')
    BY DEF Counted, Out
  <2> QED BY <2>1 DEF Counted, ChunkPools
<1> QED BY <1>1, <1>2, <1>3 DEF RealtimeNeverSleeps

\* A chunk of the sized pool that fits, or none.
LEMMA FromSizedChunks ==
  ASSUME ChunkInv,
         NEW c \in Chunks, NEW l \in Plugins, NEW side \in Sides, NEW size \in Sizes,
         l \in (IF side = "plugin" THEN listed ELSE hosted),
         FromSized(c, l, side, size), chunk[c] = Nothing,
         listed' = listed, hosted' = hosted, slept' = FALSE
  PROVE  ChunkInv'
<1> DEFINE i == PoolFor(PoolCount, size)
<1>1. CASE i = NoPool
  <2>1. chunk' = chunk /\ inUse' = inUse /\ refused' = refused \cup {size}
    BY <1>1 DEF FromSized
  <2>2. refused' \subseteq Sizes /\ slept' = slept
    BY <2>1 DEF ChunkInv, ChunkTypes, RealtimeNeverSleeps
  <2> QED BY <2>1, <2>2, OtherChunks
<1>2. CASE i # NoPool
  <2>1. Sized(i) \in SizedPools
    BY <1>2, PoolForInRange
  <2> HIDE DEF i
  <2>2. Take(c, l, side, Sized(i), Sized(i), size) /\ refused' = refused
    BY <1>2 DEF FromSized, HomeOf, i
  <2>3. Sized(i) \in ChunkPools(side) /\ size \in Sizes \cup {0}
    BY <2>1, PoolNames
  <2> QED BY <2>2, <2>3, TakeChunks
<1> QED BY <1>1, <1>2

\* An allocation: from the pool of its kind, or from the sized pool that fits.
LEMMA AllocateChunks ==
  ASSUME CoreTypes, CoreInv, ChunkInv,
         \/ \E c \in Chunks, l \in Plugins, side \in Sides, name \in {"groups", "params"} :
              AllocateChunk(c, l, side, name)
         \/ \E c \in Chunks, l \in Plugins, name \in {"messages", "changes"} :
              AllocateForUi(c, l, name)
         \/ \E c \in Chunks, l \in Plugins, side \in Sides, size \in Sizes :
              AllocateData(c, l, side, size)
         \/ \E c \in Chunks, l \in Plugins, size \in Sizes :
              AllocateTextForUi(c, l, size)
  PROVE  CoreTypes' /\ CoreInv' /\ ChunkInv'
<1> USE DEF CoreInv
<1>1. ASSUME NEW c \in Chunks, NEW l \in Plugins, NEW side \in Sides,
             NEW name \in {"groups", "params"}, AllocateChunk(c, l, side, name)
      PROVE  CoreTypes' /\ CoreInv' /\ ChunkInv'
  <2>1. CoreTypes' /\ CoreInv'
    BY <1>1, StutterCore DEF AllocateChunk
  <2>2. slept' = FALSE
    <3>1. Pool(name) \in PluginAtomic /\ Pool(name) \in HostAtomic
      BY DEF PluginAtomic, HostAtomic
    <3> QED BY <1>1, <3>1, NeverSleeps DEF AllocateChunk, ChunkInv
  <2>3. Pool(name) \in ChunkPools(side) /\ 0 \in Sizes \cup {0}
    BY PoolNames
  <2>4. l \in (IF side = "plugin" THEN listed ELSE hosted)
    BY <1>1, AddingExists DEF AllocateChunk
  <2>5. /\ Take(c, l, side, Pool(name), Pool(name), 0) /\ chunk[c] = Nothing
        /\ listed' = listed /\ hosted' = hosted /\ refused' = refused
    BY <1>1 DEF AllocateChunk
  <2>6. ChunkInv'
    BY <2>2, <2>3, <2>4, <2>5, TakeChunks
  <2> QED BY <2>1, <2>6
<1>2. ASSUME NEW c \in Chunks, NEW l \in Plugins,
             NEW name \in {"messages", "changes"}, AllocateForUi(c, l, name)
      PROVE  CoreTypes' /\ CoreInv' /\ ChunkInv'
  <2>1. CoreTypes' /\ CoreInv'
    BY <1>2, StutterCore DEF AllocateForUi
  <2>2. slept' = FALSE
    BY <1>2 DEF AllocateForUi, ChunkInv, RealtimeNeverSleeps
  <2>3. Pool(name) \in ChunkPools("host") /\ 0 \in Sizes \cup {0} /\ "host" \in Sides
    BY PoolNames DEF Sides
  <2>4. l \in hosted
    BY <1>2 DEF AllocateForUi, Reached
  <2>5. /\ Take(c, l, "host", Pool(name), Pool(name), 0) /\ chunk[c] = Nothing
        /\ listed' = listed /\ hosted' = hosted /\ refused' = refused
    BY <1>2 DEF AllocateForUi
  <2>6. ChunkInv'
    BY <2>2, <2>3, <2>4, <2>5, TakeChunks
  <2> QED BY <2>1, <2>6
<1>3. ASSUME NEW c \in Chunks, NEW l \in Plugins, NEW side \in Sides,
             NEW size \in Sizes, AllocateData(c, l, side, size)
      PROVE  CoreTypes' /\ CoreInv' /\ ChunkInv'
  <2> DEFINE i == PoolFor(PoolCount, size)
  <2>1. CoreTypes' /\ CoreInv'
    BY <1>3, StutterCore DEF AllocateData
  <2>2. l \in (IF side = "plugin" THEN listed ELSE hosted)
    BY <1>3, AddingExists DEF AllocateData
  <2>3. slept' = FALSE
    <3>1. CASE i = NoPool
      BY <1>3, <3>1 DEF AllocateData, ChunkInv, RealtimeNeverSleeps
    <3>2. CASE i # NoPool
      <4>1. Sized(i) \in SizedPools
        BY <3>2, PoolForInRange
      <4>2. Mark(side, l, Sized(i))
        BY <1>3, <3>2 DEF AllocateData
      <4> HIDE DEF i
      <4>3. Sized(i) \in PluginAtomic /\ Sized(i) \in HostAtomic
        BY <4>1 DEF PluginAtomic, HostAtomic
      <4> QED BY <4>2, <4>3, NeverSleeps DEF ChunkInv
    <3> QED BY <3>1, <3>2
  <2>4. /\ FromSized(c, l, side, size) /\ chunk[c] = Nothing
        /\ listed' = listed /\ hosted' = hosted
    BY <1>3 DEF AllocateData
  <2>5. ChunkInv'
    BY <2>2, <2>3, <2>4, FromSizedChunks
  <2> QED BY <2>1, <2>5
<1>4. ASSUME NEW c \in Chunks, NEW l \in Plugins, NEW size \in Sizes,
             AllocateTextForUi(c, l, size)
      PROVE  CoreTypes' /\ CoreInv' /\ ChunkInv'
  <2>1. CoreTypes' /\ CoreInv'
    BY <1>4, StutterCore DEF AllocateTextForUi
  <2>2. l \in hosted /\ "host" \in Sides
    BY <1>4 DEF AllocateTextForUi, Reached, Sides
  <2>3. slept' = FALSE
    BY <1>4 DEF AllocateTextForUi, ChunkInv, RealtimeNeverSleeps
  <2>4. /\ FromSized(c, l, "host", size) /\ chunk[c] = Nothing
        /\ listed' = listed /\ hosted' = hosted
    BY <1>4 DEF AllocateTextForUi
  <2>5. ChunkInv'
    BY <2>2, <2>3, <2>4, FromSizedChunks
  <2> QED BY <2>1, <2>5
<1> QED BY <1>1, <1>2, <1>3, <1>4

\* Giving a chunk back: to the pool in its header, which is still there.
LEMMA DeallocateChunks ==
  ASSUME CoreTypes, CoreInv, ChunkInv, NEW c \in Chunks, Deallocate(c)
  PROVE  CoreTypes' /\ CoreInv' /\ ChunkInv'
<1> USE DEF ChunkInv
<1> DEFINE b == chunk[c]
<1>1. /\ chunk[c] # Nothing
      /\ inUse' = [inUse EXCEPT ![b.side][b.who][b.home] = @ - 1]
      /\ chunk' = [chunk EXCEPT ![c] = Nothing]
      /\ listed' = listed /\ hosted' = hosted /\ refused' = refused /\ slept' = slept
  BY DEF Deallocate
<1>2. CoreTypes' /\ CoreInv'
  BY StutterCore DEF Deallocate
<1>3. /\ b.side \in Sides /\ b.who \in Plugins /\ b.home = b.pool
      /\ b.pool \in ChunkPools("host")
  BY <1>1, PoolNames DEF ChunkOwned
<1>4. Nothing \in ChunkSet /\ Nothing.who \notin Plugins
  BY LifecycleAssumption DEF ChunkSet, Nothing
<1>5. chunk'[c] = Nothing /\ \A d \in Chunks : d # c => chunk'[d] = chunk[d]
  BY <1>1 DEF ChunkTypes
<1>6. ChunkTypes'
  <2>1. chunk' \in [Chunks -> ChunkSet]
    BY <1>1, <1>4 DEF ChunkTypes
  <2>2. inUse' \in [Sides -> [Plugins -> [ChunkPools("host") -> Int]]]
    BY <1>1, <1>3 DEF ChunkTypes
  <2> QED BY <1>1, <2>1, <2>2 DEF ChunkTypes, ChunkSet, ChunkPools
<1>7. ChunkOwned'
  <2>1. ASSUME NEW d \in Chunks, chunk'[d] # Nothing
        PROVE  /\ chunk'[d].side \in Sides /\ chunk'[d].who \in Plugins
               /\ chunk'[d].home = chunk'[d].pool
               /\ chunk'[d].pool \in ChunkPools(chunk'[d].side)
               /\ chunk'[d].who \in (IF chunk'[d].side = "plugin" THEN listed' ELSE hosted')
    <3>1. chunk'[d] = chunk[d]
      BY <1>5, <2>1
    <3> QED BY <1>1, <2>1, <3>1 DEF ChunkOwned
  <2> QED BY <2>1 DEF ChunkOwned, Nothing, ChunkPools
<1>8. Counted'
  <2>1. ASSUME NEW s \in Sides, NEW k \in Plugins, NEW p \in ChunkPools("host")
        PROVE  inUse'[s][k][p] = Cardinality(Out(s, k, p)')
    <3>1. CASE s = b.side /\ k = b.who /\ p = b.pool
      <4>1. Out(s, k, p)' = Out(s, k, p) \ {c} /\ c \in Out(s, k, p)
        BY <1>4, <1>5, <3>1 DEF Out
      <4>2. inUse'[s][k][p] = inUse[s][k][p] - 1
        BY <1>1, <1>3, <3>1 DEF ChunkTypes
      <4>3. inUse[s][k][p] = Cardinality(Out(s, k, p))
        BY DEF Counted
      <4>4. IsFiniteSet(Out(s, k, p))
        BY OutFinite
      <4>5. Cardinality(Out(s, k, p) \ {c}) = Cardinality(Out(s, k, p)) - 1
        BY <4>1, <4>4, FS_RemoveElement
      <4> QED BY <4>1, <4>2, <4>3, <4>5
    <3>2. CASE ~(s = b.side /\ k = b.who /\ p = b.pool)
      <4>1. Out(s, k, p)' = Out(s, k, p)
        BY <1>4, <1>5, <3>2 DEF Out
      <4>2. inUse'[s][k][p] = inUse[s][k][p]
        BY <1>1, <1>3, <3>2 DEF ChunkTypes
      <4> QED BY <4>1, <4>2 DEF Counted
    <3> QED BY <3>1, <3>2
  <2> QED BY <2>1 DEF Counted, ChunkPools
<1> QED BY <1>1, <1>2, <1>6, <1>7, <1>8 DEF RealtimeNeverSleeps

\* Cleanup takes every chunk of the plugin's instance back to its pool.
LEMMA CleanupChunks ==
  ASSUME CoreTypes, CoreInv, ChunkInv, NEW l \in Plugins, Cleanup(l)
  PROVE  ChunkInv'
<1> USE DEF ChunkInv
<1> DEFINE hostLeft == {c \in Chunks : chunk[c] # Nothing /\ chunk[c].who = l
                                        /\ chunk[c].side = "host"}
           gone == Cleaned(l) \cup hostLeft
           back == [p \in ChunkPools("host") |->
                      inUse["plugin"][l][p] - GivenBack(Cleaned(l), "plugin", l, p)]
<1>1. /\ chunk' = [c \in Chunks |-> IF c \in gone THEN Nothing ELSE chunk[c]]
      /\ inUse' = [inUse EXCEPT !["plugin"][l] = back, !["host"][l] = NoneInUse]
      /\ listed' = listed \ {l} /\ hosted' = hosted \ {l}
      /\ refused' = refused /\ slept' = slept
  BY DEF Cleanup, Unlisted
<1>2. \A c \in Chunks : c \in gone <=> (chunk[c] # Nothing /\ chunk[c].who = l)
  BY DEF Cleaned, ChunkOwned, Sides
<1>3. \A p \in ChunkPools("host") : back[p] = 0
  <2>1. ASSUME NEW p \in ChunkPools("host") PROVE back[p] = 0
    <3>1. {c \in Cleaned(l) : chunk[c].home = p} = Out("plugin", l, p)
      BY LifecycleAssumption DEF Cleaned, Out, ChunkOwned, Nothing
    <3>2. GivenBack(Cleaned(l), "plugin", l, p) = Cardinality(Out("plugin", l, p))
      BY <3>1 DEF GivenBack
    <3>3. inUse["plugin"][l][p] = Cardinality(Out("plugin", l, p))
      BY DEF Counted, Sides
    <3>4. Cardinality(Out("plugin", l, p)) \in Nat
      BY OutFinite
    <3> QED BY <3>2, <3>3, <3>4
  <2> QED BY <2>1
<1>4. back \in [ChunkPools("host") -> Int]
  <2>1. back = [p \in ChunkPools("host") |-> back[p]]
    OBVIOUS
  <2> QED BY <1>3
<1> HIDE DEF back, gone
<1>5. Nothing \in ChunkSet /\ Nothing.who \notin Plugins
  BY LifecycleAssumption DEF ChunkSet, Nothing
<1>6. ChunkTypes'
  <2>1. chunk' \in [Chunks -> ChunkSet]
    BY <1>1, <1>5 DEF ChunkTypes
  <2>2. NoneInUse \in [ChunkPools("host") -> Int]
    BY DEF NoneInUse
  <2>3. inUse' \in [Sides -> [Plugins -> [ChunkPools("host") -> Int]]]
    BY <1>1, <1>4, <2>2 DEF ChunkTypes, Sides
  <2> QED BY <1>1, <2>1, <2>3 DEF ChunkTypes, ChunkSet, ChunkPools
<1>7. ChunkOwned'
  <2>1. ASSUME NEW d \in Chunks, chunk'[d] # Nothing
        PROVE  /\ chunk'[d].side \in Sides /\ chunk'[d].who \in Plugins
               /\ chunk'[d].home = chunk'[d].pool
               /\ chunk'[d].pool \in ChunkPools(chunk'[d].side)
               /\ chunk'[d].who \in (IF chunk'[d].side = "plugin" THEN listed' ELSE hosted')
    <3>1. chunk'[d] = chunk[d] /\ d \notin gone
      BY <1>1, <2>1
    <3>2. chunk[d].who # l
      BY <1>2, <2>1, <3>1
    <3> QED BY <1>1, <2>1, <3>1, <3>2 DEF ChunkOwned
  <2> QED BY <2>1 DEF ChunkOwned, Nothing, ChunkPools
<1>8. Counted'
  <2>1. ASSUME NEW s \in Sides, NEW k \in Plugins, NEW p \in ChunkPools("host")
        PROVE  inUse'[s][k][p] = Cardinality(Out(s, k, p)')
    <3>1. CASE k = l
      <4>1. inUse'[s][k][p] = 0
        BY <1>1, <1>3, <3>1 DEF ChunkTypes, NoneInUse, Sides
      <4>2. Out(s, k, p)' = {}
        <5>1. ASSUME NEW d \in Chunks PROVE chunk'[d].who # l
          BY <1>1, <1>2, <1>5
        <5> QED BY <3>1, <5>1 DEF Out
      <4> QED BY <4>1, <4>2, FS_EmptySet
    <3>2. CASE k # l
      <4>1. inUse'[s][k][p] = inUse[s][k][p]
        BY <1>1, <3>2 DEF ChunkTypes, Sides
      <4>2. Out(s, k, p)' = Out(s, k, p)
        <5>1. ASSUME NEW d \in Chunks
              PROVE  chunk'[d] = chunk[d] \/ (chunk'[d].who # k /\ chunk[d].who # k)
          BY <1>1, <1>2, <1>5, <3>2
        <5> QED BY <5>1 DEF Out
      <4> QED BY <4>1, <4>2 DEF Counted
    <3> QED BY <3>1, <3>2
  <2> QED BY <2>1 DEF Counted, ChunkPools
<1> QED BY <1>1, <1>6, <1>7, <1>8 DEF RealtimeNeverSleeps

----------------------------------------------------------------------------
(* The invariant, and what follows from it. *)

IInv == CoreTypes /\ CoreInv /\ ChunkInv

\* An instance that is listed, or has callbacks, has everything.
LEMMA OwnerHasAll ==
  ASSUME CoreTypes, CoreInv, NEW side \in Sides, NEW l \in Plugins,
         l \in (IF side = "plugin" THEN listed ELSE hosted)
  PROVE  held[side][l] = All(side)
<1> USE DEF CoreInv
<1>1. CASE side = "plugin"
  <2>1. ~Calling("plugin", l)
    BY <1>1 DEF CallOK, Calling, Idle
  <2> QED BY <1>1, <2>1, HeldIs
<1>2. CASE side = "host" /\ l \in attached
  <2>1. ~Calling("host", l)
    BY <1>2 DEF CallOK, Calling, Idle
  <2> QED BY <1>2, <2>1, HeldIs
<1>3. CASE side = "host" /\ l \notin attached
  <2>1. Calling("host", l)
    BY <1>3 DEF Reached
  <2>2. call.step = Len(AttachSteps) + 2
    BY <1>3, <2>1 DEF CallOK, Calling, Idle
  <2>3. Got("host", call.step) = All("host")
    <3>1. call.step > Len(Steps("host")) /\ call.step \in Nat \ {0}
      BY <2>2, StepsShape
    <3> QED BY <1>3, <3>1, GotGrows
  <2> QED BY <1>3, <2>1, <2>3, HeldIs
<1> QED BY <1>1, <1>2, <1>3 DEF Sides

\* Every step keeps the invariant.
LEMMA StepInvariant == IInv /\ [Next]_vars => IInv'
<1> SUFFICES ASSUME IInv, [Next]_vars PROVE IInv'
  OBVIOUS
<1> USE DEF IInv
<1>0. refused \subseteq Sizes
  BY DEF ChunkInv, ChunkTypes
<1>1. ASSUME NEW side \in Sides, NEW l \in Plugins, Start(side, l)
      PROVE  IInv'
  <2>1. ChunkInv'
    BY <1>0, <1>1, OtherChunks DEF Start, chunkVars
  <2> QED BY <1>1, <2>1, StartCore
<1>2. CASE Obtain
  <2>1. ChunkInv'
    BY <1>0, <1>2, OtherChunks DEF Obtain, chunkVars
  <2> QED BY <1>2, <2>1, ObtainCore
<1>3. CASE Fail
  <2>1. UNCHANGED <<chunkVars, listed, hosted>>
    BY <1>3 DEF Fail, AttachFails, InstantiateFails
  <2>2. ChunkInv'
    BY <1>0, <2>1, OtherChunks DEF chunkVars
  <2> QED BY <1>3, <2>2, FailCore
<1>4. CASE RootGroupFails
  <2>1. call.side = "plugin" /\ InstantiateFails({})
    BY <1>4 DEF RootGroupFails
  <2>2. ChunkInv'
    BY <1>0, <2>1, OtherChunks DEF InstantiateFails, chunkVars
  <2> QED BY <2>1, <2>2, InstantiateFailsCore
<1>5. CASE Instantiated
  <2>1. ChunkInv'
    BY <1>0, <1>5, OtherChunks DEF Instantiated, chunkVars
  <2> QED BY <1>5, <2>1, InstantiatedCore
<1>6. CASE PluginAttach
  <2>1. /\ UNCHANGED <<chunkVars, listed>> /\ hosted \subseteq hosted'
    BY <1>6 DEF PluginAttach, AttachFails
  <2>2. ChunkInv'
    BY <1>0, <2>1, OtherChunks DEF chunkVars
  <2> QED BY <1>6, <2>2, PluginAttachCore
<1>7. CASE Attached
  <2>1. ChunkInv'
    BY <1>0, <1>7, OtherChunks DEF Attached, chunkVars
  <2> QED BY <1>7, <2>1, AttachedCore
<1>8. ASSUME NEW l \in Plugins, Cleanup(l)
      PROVE  IInv'
  BY <1>8, CleanupCore, CleanupChunks
<1>9. ASSUME NEW c \in Chunks, NEW l \in Plugins, NEW side \in Sides,
             NEW name \in {"groups", "params"}, AllocateChunk(c, l, side, name)
      PROVE  IInv'
  BY <1>9, AllocateChunks
<1>10. ASSUME NEW c \in Chunks, NEW l \in Plugins, NEW side \in Sides,
              NEW size \in Sizes, AllocateData(c, l, side, size)
       PROVE  IInv'
  BY <1>10, AllocateChunks
<1>11. ASSUME NEW c \in Chunks, NEW l \in Plugins,
              NEW name \in {"messages", "changes"}, AllocateForUi(c, l, name)
       PROVE  IInv'
  BY <1>11, AllocateChunks
<1>12. ASSUME NEW c \in Chunks, NEW l \in Plugins, NEW size \in Sizes,
              AllocateTextForUi(c, l, size)
       PROVE  IInv'
  BY <1>12, AllocateChunks
<1>13. ASSUME NEW c \in Chunks, Deallocate(c)
       PROVE  IInv'
  BY <1>13, DeallocateChunks
<1>14. CASE UNCHANGED vars
  <2>1. CoreTypes' /\ CoreInv'
    BY <1>14, StutterCore DEF vars
  <2>2. ChunkInv'
    BY <1>0, <1>14, OtherChunks DEF vars
  <2> QED BY <2>1, <2>2
<1> QED
  BY <1>1, <1>2, <1>3, <1>4, <1>5, <1>6, <1>7, <1>8, <1>9, <1>10, <1>11, <1>12, <1>13, <1>14
  DEF Next

\* The inductive invariant: what the calls lv2dynparam_plugin_instantiate and
\* lv2dynparam_host_attach hold at each of their steps, who is in g_instances and
\* who has callbacks, and to which pool each chunk belongs.
THEOREM LifecycleInvariant == Spec => []IInv
<1>1. Init => IInv
  BY InitCore, InitChunks DEF IInv
<1> QED BY <1>1, StepInvariant, PTL DEF Spec

\* Type correctness: no call goes past its last step, and no instance holds a thing
\* that is not of its library.
THEOREM LifecycleTypeCorrect == Spec => []TypeOK
<1>1. IInv => TypeOK
  BY DEF IInv, CoreTypes, ChunkInv, ChunkTypes, TypeOK
<1> QED BY <1>1, LifecycleInvariant, PTL

\* Whichever step of lv2dynparam_host_attach or rtsafe_memory_init fails, for any
\* number of pools, the labels give back just what has been obtained, and an
\* instance that is in use has everything.
THEOREM FailedAttachLeavesNothing == Spec => []NothingLeftBehind
<1>1. IInv => NothingLeftBehind
  BY DEF IInv, CoreInv
<1> QED BY <1>1, LifecycleInvariant, PTL

\* No entry of g_instances and no host_callbacks leads to an instance that was
\* freed by lv2dynparam_plugin_cleanup or by a label of lv2dynparam_host_attach.
THEOREM NoDanglingInstance == Spec => []PointersLive
<1>1. IInv => PointersLive
  <2> SUFFICES ASSUME IInv, NEW l \in Plugins
               PROVE  /\ l \in listed => Pool("instance") \in held["plugin"][l]
                      /\ l \in hosted => l \in listed /\ Pool("instance") \in held["host"][l]
    BY DEF PointersLive
  <2> USE DEF IInv, CoreInv
  <2>1. ASSUME l \in listed PROVE Pool("instance") \in held["plugin"][l]
    BY <2>1, OwnerHasAll, StepsShape DEF Sides
  <2>2. ASSUME l \in hosted PROVE Pool("instance") \in held["host"][l]
    BY <2>2, OwnerHasAll, StepsShape DEF Sides
  <2> QED BY <2>1, <2>2 DEF Reached
<1> QED BY <1>1, LifecycleInvariant, PTL

\* The handle rtsafe_memory_allocate stores before the data leads each chunk back
\* to its pool, and a pool that rtsafe_memory_pool_destroy gets has all its chunks
\* back, whatever is allocated and given back in between.
THEOREM NoChunkAstray == Spec => []ChunksComeHome
<1>1. IInv => ChunksComeHome
  <2> SUFFICES ASSUME IInv, NEW side \in Sides, NEW l \in Plugins, NEW p \in ChunkPools("host")
               PROVE  /\ inUse[side][l][p] = Cardinality(Out(side, l, p))
                      /\ p \notin held[side][l] => inUse[side][l][p] = 0
    BY DEF ChunksComeHome, Out
  <2> USE DEF IInv, CoreInv, ChunkInv
  <2>1. inUse[side][l][p] = Cardinality(Out(side, l, p))
    BY DEF Counted
  <2>2. ASSUME p \notin held[side][l] PROVE Out(side, l, p) = {}
    <3> SUFFICES ASSUME NEW c \in Out(side, l, p) PROVE FALSE
      OBVIOUS
    <3>1. /\ chunk[c] # Nothing /\ chunk[c].side = side /\ chunk[c].who = l
          /\ chunk[c].pool = p /\ c \in Chunks
      BY LifecycleAssumption DEF Out, Nothing
    <3>2. p \in All(side) /\ l \in (IF side = "plugin" THEN listed ELSE hosted)
      BY <3>1, PoolNames DEF ChunkOwned
    <3>3. held[side][l] = All(side)
      BY <3>2, OwnerHasAll
    <3> QED BY <2>2, <3>2, <3>3
  <2> QED BY <2>1, <2>2, FS_EmptySet
<1> QED BY <1>1, LifecycleInvariant, PTL

\* Every pool that an audio thread takes from has been switched by
\* rtsafe_memory_pool_atomic before lv2dynparam_host_attach returns true.
THEOREM AudioNeverSleeps == Spec => []RealtimeNeverSleeps
<1>1. IInv => RealtimeNeverSleeps
  BY DEF IInv, ChunkInv
<1> QED BY <1>1, LifecycleInvariant, PTL

----------------------------------------------------------------------------
(* The pool a request is served from. *)

\* The pool rtsafe_memory_allocate finds is the first that holds the request;
\* when it finds none, none does.
LEMMA PoolForIsFirst ==
  ASSUME NEW size
  PROVE  LET i == PoolFor(PoolCount, size) IN
           IF i = NoPool THEN \A j \in 0..(PoolCount - 1) : ~Holds(j, size)
           ELSE /\ i \in 0..(PoolCount - 1) /\ Holds(i, size)
                /\ \A j \in 0..(i - 1) : ~Holds(j, size)
<1> DEFINE S == {i \in 0..(PoolCount - 1) : Holds(i, size)}
<1>1. CASE S = {}
  BY <1>1 DEF PoolFor, NoPool
<1>2. CASE S # {}
  <2>1. S \in SUBSET Nat
    BY PoolCountType
  <2>2. PICK i \in S : \A j \in S : i <= j
    BY <1>2, <2>1, LeastNumber
  <2>3. i \in 0..(PoolCount - 1) /\ Holds(i, size) /\ \A j \in 0..(i - 1) : ~Holds(j, size)
    BY <2>2, PoolCountType
  <2>4. PoolFor(PoolCount, size) =
          CHOOSE k \in 0..(PoolCount - 1) : Holds(k, size) /\ \A j \in 0..(k - 1) : ~Holds(j, size)
    BY <2>3 DEF PoolFor
  <2>5. LET k == PoolFor(PoolCount, size) IN
          k \in 0..(PoolCount - 1) /\ Holds(k, size) /\ \A j \in 0..(k - 1) : ~Holds(j, size)
    BY <2>3, <2>4
  <2> QED BY <2>5, PoolCountType DEF NoPool
<1> QED BY <1>1, <1>2

\* What a pool does not hold is larger than its chunks.
LEMMA HoldsOrNot ==
  ASSUME NEW i \in 0..(PoolCount - 1), NEW size \in Nat
  PROVE  /\ Holds(i, size) <=> size + HandleSize <= ChunkSize(i)
         /\ ~Holds(i, size) <=> size + HandleSize > ChunkSize(i)
<1>1. i \in Nat
  BY PoolCountType
<1>2. 2^i \in Int
  BY <1>1
<1>3. ChunkSize(i) \in Int /\ size + HandleSize \in Int
  BY <1>2, MemoryAssumption DEF ChunkSize
<1> QED BY <1>3 DEF Holds

\* A chunk b is of the smallest pool that holds what was asked for.
Fits(b) ==
  \A i \in 0..(PoolCount - 1) : b.pool = Sized(i) =>
    /\ b.size + HandleSize <= ChunkSize(i)
    /\ i > 0 => b.size + HandleSize > ChunkSize(i - 1)
\* No pool holds size.
TooLarge(size) == size + HandleSize > ChunkSize(PoolCount - 1)

\* The chunks that rtsafe_memory_allocate does not make are of no sized pool.
LEMMA OthersFit ==
  /\ Fits(Nothing)
  /\ \A l, side, name, size : name \in {"groups", "params", "messages", "changes"} =>
       Fits([who |-> l, side |-> side, pool |-> Pool(name), home |-> Pool(name),
             size |-> size])
BY DEF Fits, Nothing, Pool, Sized

\* Each step keeps what is out in the smallest pool, and what is refused too large.
LEMMA StepSmallest ==
  ASSUME CoreTypes, ChunkTypes, SmallestPoolServes, [Next]_vars
  PROVE  SmallestPoolServes'
<1>0. /\ \A c \in Chunks : Fits(chunk[c])
      /\ \A size \in refused : TooLarge(size)
      /\ chunk \in [Chunks -> ChunkSet]
  BY DEF SmallestPoolServes, Fits, TooLarge, ChunkTypes
<1>1. SUFFICES /\ \A c \in Chunks : Fits(chunk'[c])
               /\ \A size \in refused' : TooLarge(size)
  BY DEF SmallestPoolServes, Fits, TooLarge
<1>2. ASSUME UNCHANGED <<chunk, refused>>
      PROVE  (\A c \in Chunks : Fits(chunk'[c])) /\ \A size \in refused' : TooLarge(size)
  BY <1>0, <1>2
<1>3. CASE \/ \E side \in Sides, l \in Plugins : Start(side, l)
           \/ Obtain \/ Fail \/ RootGroupFails \/ Instantiated \/ PluginAttach \/ Attached
           \/ UNCHANGED vars
  <2>1. UNCHANGED <<chunk, refused>>
    BY <1>3 DEF Start, Obtain, Fail, AttachFails, InstantiateFails, RootGroupFails,
                Instantiated, PluginAttach, Attached, chunkVars, vars
  <2> QED BY <1>2, <2>1
<1>4. ASSUME NEW l \in Plugins, Cleanup(l)
      PROVE  (\A c \in Chunks : Fits(chunk'[c])) /\ \A size \in refused' : TooLarge(size)
  <2>1. refused' = refused /\ \A c \in Chunks : chunk'[c] \in {Nothing, chunk[c]}
    BY <1>4 DEF Cleanup
  <2> QED BY <1>0, <2>1, OthersFit
<1>5. ASSUME NEW c \in Chunks, NEW l \in Plugins, NEW name,
             \/ \E side \in Sides : name \in {"groups", "params"} /\ AllocateChunk(c, l, side, name)
             \/ name \in {"messages", "changes"} /\ AllocateForUi(c, l, name)
      PROVE  (\A d \in Chunks : Fits(chunk'[d])) /\ \A size \in refused' : TooLarge(size)
  <2>1. PICK s : chunk' = [chunk EXCEPT ![c] =
                   [who |-> l, side |-> s, pool |-> Pool(name), home |-> Pool(name), size |-> 0]]
    BY <1>5 DEF AllocateChunk, AllocateForUi, Take
  <2>2. refused' = refused
    BY <1>5 DEF AllocateChunk, AllocateForUi
  <2>3. Fits([who |-> l, side |-> s, pool |-> Pool(name), home |-> Pool(name), size |-> 0])
    BY <1>5, OthersFit
  <2> QED BY <1>0, <2>1, <2>2, <2>3
<1>6. ASSUME NEW c \in Chunks, NEW l \in Plugins, NEW side \in Sides, NEW size \in Sizes,
             \/ AllocateData(c, l, side, size)
             \/ side = "host" /\ AllocateTextForUi(c, l, size)
      PROVE  (\A d \in Chunks : Fits(chunk'[d])) /\ \A s \in refused' : TooLarge(s)
  <2> DEFINE i == PoolFor(PoolCount, size)
  <2>1. size \in Nat /\ PoolCount \in Nat \ {0}
    BY LifecycleAssumption, PoolCountType
  <2>4. FromSized(c, l, side, size)
    BY <1>6 DEF AllocateData, AllocateTextForUi
  <2>2. CASE i = NoPool
    <3>1. chunk' = chunk /\ refused' = refused \cup {size}
      BY <2>2, <2>4 DEF FromSized
    <3>2. PoolCount - 1 \in 0..(PoolCount - 1)
      BY <2>1
    <3>3. ~Holds(PoolCount - 1, size)
      BY <2>2, <3>2, PoolForIsFirst
    <3>4. TooLarge(size)
      BY <2>1, <3>2, <3>3, HoldsOrNot DEF TooLarge
    <3> QED BY <1>0, <3>1, <3>4
  <2>3. CASE i # NoPool
    <3> DEFINE b == [who |-> l, side |-> side, pool |-> Sized(i), home |-> HomeOf(i),
                     size |-> size]
    <3>1. chunk' = [chunk EXCEPT ![c] = b] /\ refused' = refused
      BY <2>3, <2>4 DEF FromSized, Take
    <3>2. i \in 0..(PoolCount - 1) /\ Holds(i, size) /\ \A j \in 0..(i - 1) : ~Holds(j, size)
      BY <2>3, PoolForIsFirst
    <3> HIDE DEF i
    <3>3. size + HandleSize <= ChunkSize(i)
      BY <2>1, <3>2, HoldsOrNot
    <3>4. i > 0 => size + HandleSize > ChunkSize(i - 1)
      <4> SUFFICES ASSUME i > 0 PROVE size + HandleSize > ChunkSize(i - 1)
        OBVIOUS
      <4>1. i - 1 \in 0..(PoolCount - 1) /\ i - 1 \in 0..(i - 1)
        BY <2>1, <3>2
      <4> QED BY <2>1, <3>2, <4>1, HoldsOrNot
    <3>5. Fits(b)
      BY <3>3, <3>4 DEF Fits, Sized
    <3> QED BY <1>0, <3>1, <3>5
  <2> QED BY <2>2, <2>3
<1>7. ASSUME NEW c \in Chunks, Deallocate(c)
      PROVE  (\A d \in Chunks : Fits(chunk'[d])) /\ \A size \in refused' : TooLarge(size)
  <2>1. chunk' = [chunk EXCEPT ![c] = Nothing] /\ refused' = refused
    BY <1>7 DEF Deallocate
  <2> QED BY <1>0, <2>1, OthersFit
<1> QED BY <1>3, <1>4, <1>5, <1>6, <1>7 DEF Next, Sides

\* Whatever the sizes, rtsafe_memory_allocate serves each request from the smallest
\* pool that holds it with its handle, and refuses only what no pool holds
\* (memory_atomic.c:253-295).
THEOREM SmallestIsFound == Spec => []SmallestPoolServes
<1>1. Init => SmallestPoolServes
  <2> SUFFICES ASSUME Init PROVE SmallestPoolServes
    OBVIOUS
  <2>1. refused = {} /\ \A c \in Chunks : chunk[c] = Nothing
    BY DEF Init
  <2> QED BY <2>1, OthersFit DEF SmallestPoolServes, Fits
<1>2. IInv /\ SmallestPoolServes /\ [Next]_vars => SmallestPoolServes'
  BY StepSmallest DEF IInv, ChunkInv
<1> QED BY LifecycleInvariant, <1>1, <1>2, PTL DEF Spec
=============================================================================
