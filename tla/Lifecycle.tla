----------------------------- MODULE Lifecycle -----------------------------
(***************************************************************************)
(* What an instance of each library holds from its first allocation to its *)
(* last: lv2dynparam_plugin_instantiate, host_attach, the allocations of   *)
(* the time between, and cleanup (plugin/plugin.c, host/host.c,            *)
(* memory_atomic.c).                                                       *)
(*                                                                         *)
(* The program makes these calls in one thread; the audio threads of the   *)
(* plugins that are attached run meanwhile.  One step per allocation or    *)
(* pool made, each of which may fail.  lv2dynparam_host_detach is an       *)
(* unfinished stub, so that a host instance is left when its plugin is     *)
(* cleaned up.                                                             *)
(***************************************************************************)
EXTENDS RtMemory, Sequences, FiniteSets

CONSTANTS
  Plugins,    \* LV2 instances; a handle is used again after cleanup
  NoPlugin,
  MaxSize,    \* max_size of the memory of both libraries
  Sizes,      \* sizes that are asked for
  Chunks      \* bound on the chunks in use

Sides == {"plugin", "host"}
Pool(name) == <<name, 0>>
Sized(i) == <<"sized", i>>
PoolCount == PoolsCount(MaxSize)
SizedPools == {Sized(i) : i \in 0..(PoolCount - 1)}

\* What each call obtains, in the order of the code.
MemorySteps == <<Pool("memory"), Pool("table")>> \o [i \in 1..PoolCount |-> Sized(i - 1)]
InstantiateSteps ==
  <<Pool("instance")>> \o MemorySteps \o <<Pool("groups"), Pool("params")>>
AttachSteps ==
  <<Pool("instance"), Pool("lock"), Pool("groups"), Pool("params"),
    Pool("messages"), Pool("changes")>> \o MemorySteps
Steps(side) == IF side = "plugin" THEN InstantiateSteps ELSE AttachSteps
All(side) == {Steps(side)[k] : k \in 1..Len(Steps(side))}

ChunkPools(side) == SizedPools \cup {Pool("groups"), Pool("params")}
                    \cup IF side = "host" THEN {Pool("messages"), Pool("changes")} ELSE {}

ASSUME LifecycleAssumption ==
  /\ Sizes \subseteq Nat /\ MaxSize \in Nat /\ NoPlugin \notin Plugins
  /\ IsFiniteSet(Chunks)
  /\ \E n \in 1..WordBits : Enough(n, MaxSize)

VARIABLES
  call,     \* the call in progress: [side, who, step], or Idle
  held,     \* what the present instance of each library holds
  leaked,   \* what earlier instances left behind
  listed,   \* g_instances
  hosted,   \* plugins whose host_callbacks are set
  attached, \* host instances whose attach has returned true
  atomic,   \* pools in atomic mode
  chunk,    \* the chunks in use
  inUse,    \* the provider's count of the chunks of each pool
  refused,  \* history: sizes refused without asking the provider
  slept     \* history: an audio thread has entered a call that may sleep

vars == <<call, held, leaked, listed, hosted, attached, atomic, chunk, inUse,
          refused, slept>>
chunkVars == <<chunk, inUse, refused, slept>>

Nothing == [who |-> NoPlugin, side |-> "none",
            pool |-> Pool("none"), home |-> Pool("none"), size |-> 0]
Idle == [side |-> "none", who |-> NoPlugin, step |-> 0]
Calling(side, l) == call.side = side /\ call.who = l

----------------------------------------------------------------------------
(* instantiate and attach: one step per thing obtained. *)

Start(side, l) ==
  /\ call = Idle /\ held[side][l] = {}
  /\ side = "host" => held["plugin"][l] # {}
  /\ call' = [side |-> side, who |-> l, step |-> 1]
  /\ UNCHANGED <<held, leaked, listed, hosted, attached, atomic, chunkVars>>

Obtain ==
  /\ call.step \in 1..Len(Steps(call.side))
  /\ held' = [held EXCEPT ![call.side][call.who] =
                @ \cup {Steps(call.side)[call.step]}]
  /\ call' = [call EXCEPT !.step = @ + 1]
  /\ UNCHANGED <<leaked, listed, hosted, attached, atomic, chunkVars>>

\* rtsafe_memory_init gives back what it has made: the pools below i, then
\* fail_free_pools and fail_free.
\* Faulty: the loop ends before the first pool.
PoolsBelowKeepsFirst(i) == {Sized(j) : j \in 1..(i - 1)}
PoolsBelow(i) == {Sized(j) : j \in 0..(i - 1)}
InitGiven(r) ==
  CASE r[1] = "sized" -> PoolsBelow(r[2]) \cup {Pool("table"), Pool("memory")}
    [] r[1] = "table" -> {Pool("memory")}
    [] OTHER -> {}

\* The labels of host_attach fall through in this order.
Labels == <<"memory", "changes", "messages", "params", "groups", "lock", "instance">>
LabelGiven(name) ==
  IF name = "memory" THEN SizedPools \cup {Pool("table"), Pool("memory")}
  ELSE {Pool(name)}
\* The label each failing step jumps to; 8 is fail.
Jump(name) ==
  CASE name = "instance" -> 8 [] name = "lock" -> 7 [] name = "groups" -> 6
    [] name = "params" -> 5 [] name = "messages" -> 4 [] name = "changes" -> 3
    [] name \in {"memory", "table", "sized"} -> 2
    [] name = "plugin" -> 1
Unwound(name) == UNION {LabelGiven(Labels[k]) : k \in Jump(name)..7}

AttachFails(name, given) ==
  /\ held' = [held EXCEPT !["host"][call.who] = @ \ (given \cup Unwound(name))]
  /\ call' = Idle
  /\ UNCHANGED <<leaked, listed, hosted, attached, atomic, chunkVars>>

\* The labels of instantiate are empty but for the last, free_instance.
InstantiateFails(given) ==
  LET left == held["plugin"][call.who] \ (given \cup {Pool("instance")}) IN
  /\ held' = [held EXCEPT !["plugin"][call.who] = {}]
  /\ leaked' = [leaked EXCEPT !["plugin"] = @ \cup left]
  /\ call' = Idle
  /\ UNCHANGED <<listed, hosted, attached, atomic, chunkVars>>

Fail ==
  /\ call.step \in 1..Len(Steps(call.side))
  /\ LET r == Steps(call.side)[call.step] IN
       IF call.side = "host" THEN AttachFails(r[1], InitGiven(r))
       ELSE InstantiateFails(InitGiven(r))

\* Everything is there but the root group, or the plugin's part.
Obtained == call # Idle /\ call.step = Len(Steps(call.side)) + 1

\* The root group's name is too long, where asserts are off.
RootGroupFails == Obtained /\ call.side = "plugin" /\ InstantiateFails({})

\* instantiate ends: only a whole instance is put in the list.
Instantiated ==
  /\ Obtained /\ call.side = "plugin"
  /\ listed' = listed \cup {call.who}
  /\ call' = Idle
  /\ UNCHANGED <<held, leaked, hosted, attached, atomic, chunkVars>>

\* Attach asks the plugin for its callbacks, and the plugin library looks for
\* its instance.  A plugin that has none of the extension fails the first.
PluginAttach ==
  /\ Obtained /\ call.side = "host"
  /\ \/ AttachFails("plugin", {})
     \/ /\ call.who \in listed
        /\ hosted' = hosted \cup {call.who}
        /\ call' = [call EXCEPT !.step = @ + 1]
        /\ UNCHANGED <<held, leaked, listed, attached, atomic, chunkVars>>

\* The pools each library switches to atomic mode.
PluginAtomic == SizedPools \cup {Pool("groups"), Pool("params")}
\* Faulty: the call for one pool is missing.
HostAtomicNoParams == SizedPools \cup {Pool("groups"), Pool("messages")}
HostAtomic == SizedPools \cup {Pool("groups"), Pool("params"), Pool("messages")}

\* The plugin has announced what it has; host_attach returns true.
Attached ==
  /\ call.side = "host" /\ call.step = Len(AttachSteps) + 2
  /\ atomic' = [atomic EXCEPT !["plugin"][call.who] = PluginAtomic,
                              !["host"][call.who] = HostAtomic]
  /\ attached' = attached \cup {call.who}
  /\ call' = Idle
  /\ UNCHANGED <<held, leaked, listed, hosted, chunkVars>>

----------------------------------------------------------------------------
(* Chunks. *)

\* The thread that allocates in the course of adding an item: the program's
\* until attach has returned, then the plugin's audio thread.
InAudio(l) == l \in attached
Adding(side, l) ==
  /\ IF side = "plugin" THEN l \in listed ELSE l \in hosted
  /\ InAudio(l) \/ call = Idle \/ (Calling("host", l) /\ l \in hosted)

\* A chunk of pool; home is where the handle in front of the data says it goes.
Take(c, l, side, pool, home, size) ==
  /\ chunk' = [chunk EXCEPT ![c] =
       [who |-> l, side |-> side, pool |-> pool, home |-> home, size |-> size]]
  /\ inUse' = [inUse EXCEPT ![side][l][pool] = @ + 1]

\* A call in the mode of the pool; for a chunk that is not there it does nothing.
MaySleep(side, l, pool) == pool \notin atomic[side][l]
Mark(side, l, pool) == slept' = (slept \/ (InAudio(l) /\ MaySleep(side, l, pool)))

\* rtsafe_memory_pool_allocate for a group or a parameter.
AllocateChunk(c, l, side, name) ==
  /\ Adding(side, l) /\ chunk[c] = Nothing
  /\ Take(c, l, side, Pool(name), Pool(name), 0)
  /\ Mark(side, l, Pool(name))
  /\ UNCHANGED <<call, held, leaked, listed, hosted, attached, atomic, refused>>

\* The handle that is stored before the data.
\* Faulty: the handle of the first pool.
FirstPool(i) == Sized(0)
HomeOf(i) == Sized(i)

\* rtsafe_memory_allocate: the first pool that holds the size, or none is asked.
FromSized(c, l, side, size) ==
  LET i == PoolFor(PoolCount, size) IN
    IF i = NoPool
      THEN refused' = refused \cup {size} /\ UNCHANGED <<chunk, inUse>>
      ELSE Take(c, l, side, Sized(i), HomeOf(i), size) /\ UNCHANGED refused

\* A text or an array of size bytes, in the mode of the pools.
AllocateData(c, l, side, size) ==
  /\ Adding(side, l) /\ chunk[c] = Nothing
  /\ FromSized(c, l, side, size)
  /\ LET i == PoolFor(PoolCount, size) IN
       IF i = NoPool THEN UNCHANGED slept ELSE Mark(side, l, Sized(i))
  /\ UNCHANGED <<call, held, leaked, listed, hosted, attached, atomic>>

\* The program's thread, sleepy whatever the mode: the names or the string of a
\* restored value.
AllocateTextForUi(c, l, size) ==
  /\ l \in attached /\ call = Idle /\ chunk[c] = Nothing
  /\ FromSized(c, l, "host", size)
  /\ UNCHANGED <<call, held, leaked, listed, hosted, attached, atomic, slept>>

\* ... a message or a value change.
AllocateForUi(c, l, name) ==
  /\ l \in attached /\ call = Idle /\ chunk[c] = Nothing
  /\ Take(c, l, "host", Pool(name), Pool(name), 0)
  /\ UNCHANGED <<call, held, leaked, listed, hosted, attached, atomic, refused, slept>>

\* rtsafe_memory_deallocate and rtsafe_memory_pool_deallocate.
Deallocate(c) ==
  /\ chunk[c] # Nothing
  /\ LET b == chunk[c] IN
       /\ Adding(b.side, b.who)
       /\ inUse' = [inUse EXCEPT ![b.side][b.who][b.home] = @ - 1]
  /\ chunk' = [chunk EXCEPT ![c] = Nothing]
  /\ UNCHANGED <<call, held, leaked, listed, hosted, attached, atomic, refused, slept>>

----------------------------------------------------------------------------
(* lv2dynparam_plugin_cleanup. *)

\* group_clean frees every group, every parameter and their texts.
\* Faulty: it is not called.
CleanedNothing(l) == {}
Cleaned(l) == {c \in Chunks : chunk[c] # Nothing /\ chunk[c].who = l
                              /\ chunk[c].side = "plugin"}
GivenBack(cs, side, l, pool) == Cardinality({c \in cs : chunk[c].home = pool})
NoneInUse == [p \in ChunkPools("host") |-> 0]

\* Faulty: list_del is forgotten.
StillListed(l) == listed
Unlisted(l) == listed \ {l}

\* The host's instance stays as it is, out of anybody's reach.
Cleanup(l) ==
  /\ call = Idle /\ l \in listed
  /\ listed' = Unlisted(l)
  /\ hosted' = hosted \ {l}
  /\ attached' = attached \ {l}
  /\ LET left == {c \in Chunks : chunk[c] # Nothing /\ chunk[c].who = l
                                 /\ chunk[c].side = "host"}
     IN chunk' = [c \in Chunks |-> IF c \in Cleaned(l) \cup left THEN Nothing ELSE chunk[c]]
  /\ inUse' = [inUse EXCEPT
       !["plugin"][l] = [p \in ChunkPools("host") |->
                           @[p] - GivenBack(Cleaned(l), "plugin", l, p)],
       !["host"][l] = NoneInUse]
  /\ atomic' = [atomic EXCEPT !["plugin"][l] = {}, !["host"][l] = {}]
  /\ held' = [held EXCEPT !["plugin"][l] = {}, !["host"][l] = {}]
  /\ leaked' = [leaked EXCEPT !["host"] = @ \cup held["host"][l]]
  /\ UNCHANGED <<call, refused, slept>>

----------------------------------------------------------------------------
PerInstance(x) == [side \in Sides |-> [l \in Plugins |-> x]]

Init ==
  /\ call = Idle
  /\ held = PerInstance({}) /\ atomic = PerInstance({})
  /\ inUse = PerInstance(NoneInUse)
  /\ leaked = [side \in Sides |-> {}]
  /\ listed = {} /\ hosted = {} /\ attached = {}
  /\ chunk = [c \in Chunks |-> Nothing]
  /\ refused = {} /\ slept = FALSE

Next ==
  \/ \E side \in Sides, l \in Plugins : Start(side, l)
  \/ Obtain \/ Fail \/ RootGroupFails \/ Instantiated \/ PluginAttach \/ Attached
  \/ \E l \in Plugins : Cleanup(l)
  \/ \E c \in Chunks :
       \/ \E l \in Plugins, side \in Sides :
            \/ \E name \in {"groups", "params"} : AllocateChunk(c, l, side, name)
            \/ \E size \in Sizes : AllocateData(c, l, side, size)
       \/ \E l \in Plugins :
            \/ \E name \in {"messages", "changes"} : AllocateForUi(c, l, name)
            \/ \E size \in Sizes : AllocateTextForUi(c, l, size)
       \/ Deallocate(c)

Spec == Init /\ [][Next]_vars
----------------------------------------------------------------------------
(* Properties. *)

CallSet == {Idle} \cup [side : Sides, who : Plugins, step : 1..Len(AttachSteps) + 2]
Thing == All("plugin") \cup All("host")
ChunkSet == {Nothing} \cup
  [who : Plugins, side : Sides, pool : ChunkPools("host"),
   home : ChunkPools("host"), size : Sizes \cup {0}]

TypeOK ==
  /\ call \in CallSet
  /\ held \in [Sides -> [Plugins -> SUBSET Thing]]
  /\ atomic \in [Sides -> [Plugins -> SUBSET ChunkPools("host")]]
  /\ leaked \in [Sides -> SUBSET Thing]
  /\ listed \subseteq Plugins /\ hosted \subseteq Plugins /\ attached \subseteq Plugins
  /\ chunk \in [Chunks -> ChunkSet]
  /\ inUse \in [Sides -> [Plugins -> [ChunkPools("host") -> Int]]]
  /\ refused \subseteq Sizes /\ slept \in BOOLEAN

\* Outside its calls an instance has everything or nothing, and within one what
\* the steps so far have obtained: no failing step of host_attach or of
\* rtsafe_memory_init leaves a thing behind or gives one back twice.
NothingLeftBehind ==
  \A side \in Sides, l \in Plugins :
    held[side][l] =
      IF Calling(side, l)
        THEN {Steps(side)[k] : k \in 1..Len(Steps(side)) \cap 1..(call.step - 1)}
      ELSE IF l \in (IF side = "plugin" THEN listed ELSE attached) THEN All(side)
      ELSE {}

\* The search of g_instances never meets an instance that was freed, and a plugin
\* that has callbacks has those of a host instance that exists.
PointersLive ==
  \A l \in Plugins :
    /\ l \in listed => Pool("instance") \in held["plugin"][l]
    /\ l \in hosted => l \in listed /\ Pool("instance") \in held["host"][l]

\* Every chunk goes back to the pool it came from, and a pool that is destroyed
\* has all its chunks back.
ChunksComeHome ==
  \A side \in Sides, l \in Plugins : \A p \in ChunkPools("host") :
    /\ inUse[side][l][p] =
         Cardinality({c \in Chunks : chunk[c].who = l /\ chunk[c].side = side
                                     /\ chunk[c].pool = p})
    /\ p \notin held[side][l] => inUse[side][l][p] = 0

\* A chunk holds the data and the handle before it and comes from the smallest
\* pool that does; what is refused for its size fits no pool.
SmallestPoolServes ==
  /\ \A c \in Chunks, i \in 0..(PoolCount - 1) : chunk[c].pool = Sized(i) =>
       /\ chunk[c].size + HandleSize <= ChunkSize(i)
       /\ i > 0 => chunk[c].size + HandleSize > ChunkSize(i - 1)
  /\ \A size \in refused : size + HandleSize > ChunkSize(PoolCount - 1)

\* No audio thread enters an allocation that may sleep, in either library.
RealtimeNeverSleeps == ~slept

\* The largest request is DATA_MIN * 2^POOLS_COUNT - DATA_SUB (memory_atomic.c:133).
LargestServed == \A size \in refused : size > DataMin * 2^PoolCount - DataSub

\* A failed instantiate leaves nothing behind.
InstantiateLeavesNothing == leaked["plugin"] = {}
=============================================================================
