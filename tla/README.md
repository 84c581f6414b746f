# Verification of lv2dynparam

lv2dynparam is an LV2 extension that lets a plugin change its parameters while
it runs. The repository holds two C libraries: `plugin/` for a plugin that has
such parameters, `host/` for a program that shows them. They talk to each other
through the callback tables of `src/lv2dynparam.h`.

This directory holds TLA+ models of both libraries, the TLC configurations that
check them on small instances, and TLAPS proofs of the most important
properties for instances of every size. `PROJECT.json` maps each definition to
the lines of C it stands for.

1. [Inventory](#1-inventory)
2. [Plan](#2-plan)
3. [Modules and code](#3-modules-and-code)
4. [Runs](#4-runs)
5. [Proofs](#5-proofs)
6. [Where the code and its documentation part](#6-where-the-code-and-its-documentation-part)
7. [Not modelled](#7-not-modelled)

## 1. Inventory

### Threads and how they meet

| Thread | Calls | Holds |
|---|---|---|
| interface (the program's timer or widgets) | `ui_on`, `ui_off`, `ui_run`, `parameter_change`, `set_parameter` | the audiolock, for which it waits |
| realtime (the audio cycle) | `realtime_run`, and under it the plugin's code | the audiolock, if it is free |
| realtime, from the program | `parameter_change_rt` | nothing |
| either, before the audio cycle starts | `host_attach`, and under it the plugin's `host_attach` | nothing |

The plugin's code runs in two places: in `host_attach` and in the callback by
which it learns that a value has changed; `lv2dynparam.h`
allows it to add and remove items only there. When it does, the plugin library
calls the host library back (`group_appear`, `parameter_appear`,
`parameter_disappear`). These calls come in the realtime thread, so the host
library only records them and tells the interface later, in `ui_run`.

### Components

| Component | State | Operations | Hard because | Correct when |
|---|---|---|---|---|
| **Parameter tree and deferred notification** (`host/host.c`, `host/host_callbacks.c`) | groups and parameters with `pending_state`, a counter `pending_childern_count` in every group, `pending_value_change`, the contexts, `ui` | the plugin's four appear and disappear callbacks; `ui_on`, `ui_off`, `ui_run` with the recursive `notify`; `change_rt`; `set_parameter`'s context | a walk skips every group whose counter is zero, so one count too few hides a change for ever, and one too many fails an assert; items are removed before they were shown, hidden while they are pending, freed during the walk | counters cover what is pending; what the interface is told is what the plugin has, in an order in which every group comes before its contents |
| **Values, messages, audiolock** (`host/host.c`, `audiolock.c`) | the host's value of each parameter, the plugin's (through `value_ptr`), what the interface shows, a queue of messages, the lock | `parameter_change`, `set_parameter`, `realtime_run`, `change_rt`, the value part of `notify` | `change_rt` takes no lock; `realtime_run` gives up when the lock is taken; messages carry no value or their own | plugin and host agree, the last request wins, the interface shows the value, every change arrives |
| **Plugin library** (`plugin/*.c`) | groups and parameters with `pending`, the child lists, the instance's counter | `instantiate`, `host_attach`, `group_add`, `param_*_add`, `param_remove` | the host may refuse any call; a parameter pending disappear is taken into use again by an add of its name; parameters are freed at once or later | pending states agree with what the host has; handles stay valid; a refused call is made again |
| **One parameter across both libraries** | the plugin's chunk, the host's chunk with `param_handle` and `value_ptr`, the interface's handle, queued messages | add, remove, change, set by name | chunks are freed on the plugin's side at once and on the host's only after the interface has been told, and both are handed out again | a change reaches the parameter it was made for |
| **Hints and enum values** (`hint_set.c`, `helpers.c` and their callers) | copies of strings, arrays of them, the chunks that own them | `hints_init_copy`, `hints_init_va_dup`, `hints_clear`, `enum_duplicate`, `enum_free` | every allocation may fail in the middle of a copy | nothing is lost, nothing is used after it was freed, a finished copy is whole |
| **Realtime memory** (`memory_atomic.c`) | pools of chunks by size, each sleepy or atomic; the handle of its pool in front of each chunk | init, allocate (atomic or sleepy), deallocate, uninit | sizes at a pool's boundary, a pool whose mode was not switched, unwinding of init | a request is served from the smallest pool that fits it and goes back there; the audio thread never sleeps |
| **Attach, instantiate, cleanup** (`host/host.c`, `plugin/plugin.c`) | the pools of an instance, the lock, the list of instances, the plugin's callback pointers | `host_attach`, `plugin_instantiate`, `plugin_cleanup`; `host_detach` is a stub | unwinding at each of many steps; a handle the host uses again after cleanup | a failed call leaves nothing behind, no pointer outlives what it points to |
| **Parameters as text** (`host/host.c`) | the texts the program keeps, set messages, postponed changes, the process's locale | `get_parameters`, `set_parameter`, the search by name in `realtime_run` | escaping, a name buffer filled from its end, labels whose order changes between versions of the plugin, parameters that appear late, a step of several failing | what is written is read back, into the same parameter and no other; nothing taken is lost |
| Commands, lists, logging | none or vendored | | | |

The hazards of each, at their lines, are in `PROJECT.json` under `hazards`.

## 2. Plan

Done:

1. `HostTree` with `UiContract`: the system's most delicate behaviour.
2. `HostTreeProofs`: its counters, for every size of tree.
3. `HostValues` and `HostValuesProofs`: the two threads.
4. `PluginLib`: the other library, against any host.
5. `ParamLink`: the two libraries composed, for one parameter.
6. `Storage`: who owns the copies of hints and enum values.
7. `RtMemory` and `Lifecycle`: what an instance of each library holds, from
   its first allocation to its last, with every step failing.
8. `LifecycleProofs`: that, for any number of instances, pools and chunks.
9. `ParamText`: parameters saved as text and restored, in this version of the
   plugin or another.
10. `ListsProofs`, `ParamLinkProofs`, `PluginLibProofs`, `StorageProofs`: what
    the runs of these components check, for any number of chunks and any host.
11. The rest of `HostTreeProofs`: what the interface has been told, the refinement of
    `UiContract`, exact counters and walks that drain.
12. The rest of `HostValuesProofs` (what a race may do to the counter and the
    screen) and of `LifecycleProofs` (the smallest pool).
13. `ParamTextProofs`: names that come back, chunks that are accounted for, and
    restoring as a whole, for any versions of the plugin that agree.

What is left is what the proof system cannot check or the code does not keep;
section 5 ends with it.

## 3. Modules and code

Each module with a state has an `MC...` module that adds a symmetry set for TLC;
`MCParamText` has the versions of the plugin instead.

In several places a definition is preceded by a faulty one of the same shape
(`ClimbedSelfOnly` before `Climbed`). No behaviour uses it. It is what the
definition would be if the code had a plausible mistake there, and TLC finds the
property listed with it in `PROJECT.json` (`mutants`) violated when it takes the
place of the right one.

### HostTree

Groups and parameters are chunks of their pools. The variables are fields of the
structures in `host/internal.h`:

| Variable | Code |
|---|---|
| `parent`, `pgroup` | `parent_group_ptr`, `group_ptr` |
| `chain` | the groups that a climb along `parent_group_ptr` visits; derived when a group appears, kept as a variable so that no definition is recursive |
| `gstate`, `pstate` | `pending_state`, with `"free"` for a chunk that is not in use and `"lost"` for the chunk of an enum that `host_parameter_free` does not give back |
| `count` | `pending_childern_count` |
| `valueChange`, `contextSet`, `contextChange` | the parameter's `pending_value_change`, `context_set`, and whether `context_pending_value_change` is set |
| `ui`, `attached` | `instance_ptr->ui`; that `host_attach` has returned |
| `at`, `left` | where the recursive `notify` is and which items it has not visited |
| `live`, `told` | history: what the plugin has; appear calls less disappear calls the interface got |
| `fault` | the assert or the bad pointer that ended the process |

Actions: `GroupAppear`, `GroupDisappear`, `ParamAppear`, `ParamDisappear` (the
callbacks), `ChangeRt`, `ApplySet` (one message of `realtime_run`), `Attach`,
`UiRun`, `UiOn`, `UiOff`, and the walk: `VisitGroup`, `VisitAppearing`,
`VisitSettled`, `VisitDisappearing` (the cases of the `switch`), `Return`. A
walk is one step per item. The order in which a loop visits items is left open.

The plugin's callbacks come from `host_attach`, from `realtime_run` and from
`change_rt`, which tells the plugin of the change (host.c:1098). `realtime_run`
and the interface exclude each other through the audiolock. `change_rt` takes no
lock, so that in the code it, and what the plugin does when it is told, may come
in the middle of `ui_run`, `ui_on` or `ui_off`. `HostTree` is of programs that
do not call it then: `ChangeRt` and the callbacks happen between interface
operations, and everything this section and section 5 say of the tree is said of
such programs. Nothing in the code makes a program keep to that. What `change_rt`
does to the flag, the counter and the value when a program does not is in
`HostValues`, access by access; what the plugin's callbacks do to the lists then
is not modelled (section 7).

`ui_off` is one step: it takes the lock, and `HiddenGroups`, `HiddenParams` and
`HideCount` say what its recursion reaches and counts.

`Env` says what the plugin and the program do, so that each question is asked
of the environments in which it makes sense:

| Member | Meaning |
|---|---|
| `removes`, `removes_groups` | the plugin removes parameters, groups |
| `late_groups` | it adds groups after attach too |
| `hides` | the program calls `ui_off` |
| `contexts` | it gives `set_parameter` a context |
| `dirty_chunks` | the parameters pool hands out chunks with old contents |
| `no_callbacks` | attach is given no lifecycle callbacks |

### Lists

The lists of `list.h` where the order of the entries matters, in `PluginLib`
(`list`) and `ParamLink` (`tree`): sequences, with `Append` for `list_add_tail`,
`Without` for `list_del` and `Entries` for what `list_for_each` meets. The other
models have sets in their place.

### UiContract

What `host/host.h` promises the interface: an item appears below a group that
is shown, once, and disappears only when it is shown and nothing below it is.
`HostTree` implements it (`KeepsContract`: `holder` is `parent` and `pgroup`,
`told` is `told`).

### HostValues

One group; all parameters are shown. `value`, `plugin` and `screen` are the
three copies of each value, `flag` and `count` the pending change and the
counter, `queue` is `ui_to_realtime_queue`, `lock` the audiolock. `uiPc` and
`rtPc` say where each thread is: every access that the other thread can
interleave with is a step, down to the load and the store of an increment.
`EnterUi` waits for the lock, `EnterAudio` is only enabled when it is free;
where it is not, `realtime_run` returns, which is a stutter. What the program
does outside the lock is a constant: `Overlap` (it calls `change_rt` while an
interface call is under way) and `Restores` (it calls `set_parameter`).
`asked` is history: the value the program asked for last.

### PluginLib

`gpending` and `ppending` are the pending states, `list` the child lists,
`pending` the instance's counter, `known` what the attached host has been told
successfully. Actions: `HostAttach` (the whole walk, with any set of refused
calls), `GroupAdd`, `ParamAdd` and `ParamReuse` (the two ways through the four
`param_*_add` functions, which are the same but for the type), `ParamRemove`.
`Env` says which calls the host may refuse and whether it attaches again. The
plugin is any that keeps to the rules: it uses handles it has, and adds no name
that it still has in that group.

### ParamLink

Both libraries for a flat tree and a host that refuses nothing. `inChunk` is the
plugin's parameters pool, `hstate`, `hid`, `handle` the host's, `tree` its list,
`held` the handles on the screen, `queue` the messages. `Change` and `Set` queue
a message; `RealtimeChange`, `RealtimeSet` and `ChangeRt` push a value through
the host's chunk and call the plugin back, which may add and remove parameters
before it returns. `landed` says where the last push of each kind went.
`ParamLink` leaves out the counters (`HostTree`), refusals (`PluginLib`) and
values (`HostValues`), and so can afford the chunks being handed out again
on both sides.

### Storage

`holder` has the finished structures, `work` the one being made, `pc` its next
allocation. One step per allocation, which takes a block or fails; `Fail(given)`
names the blocks that the labels of the failing path give back. `used` is what
the allocator has handed out.

### RtMemory

The computations of `memory_atomic.c`, without a state: `PoolsCount` is the loop
that sizes a memory, `ChunkSize` the chunks of a pool, `Holds` and `PoolFor` the
search of `rtsafe_memory_allocate`. `DataMin` and `DataSub` are the macros,
`HandleSize` the size of the handle stored in front of the data.

### Lifecycle

`held` is what the present instance of each library has obtained. `Steps` lists
what `instantiate` and `host_attach` obtain, in the order of the code and with
`rtsafe_memory_init` spelled out; `Obtain` is one step, `Fail` the same step
failing, with what the labels behind it give back (`Jump`, `LabelGiven`,
`InitGiven`). `PluginAttach` and `Attached` are the end of `host_attach`: the
plugin library finds its instance in `g_instances` (`listed`) and stores the
callbacks (`hosted`), and both libraries switch their pools (`atomic`).
`RootGroupFails` is the early return of `instantiate` for the name of the root
group. `Cleanup` is `lv2dynparam_plugin_cleanup`; there is no detach, so the
host's instance is left (`leaked`). `AllocateChunk` and `AllocateData` are the
allocations of the time between, by the program's thread until attach has
returned and by the audio thread after (`InAudio`); `AllocateForUi` (messages and
value changes) and `AllocateTextForUi` (names and strings of a restored value) the
ones that are sleepy whatever the mode. A chunk remembers the pool it came from (`pool`)
and the one its handle names (`home`). `inUse` is the provider's own count, and
`slept` is history: the audio thread has entered a call that may sleep.

Instances of several plugins are made and cleaned up in any order, but the calls
that make them do not overlap: `g_instances` has no lock.

### ParamText

A constant gives the versions of the plugin (`Layouts`): its groups and parameters
with names, types and labels, and which parameters appear only in the course of
the session. `GetParameters` fills `saved`, which outlives sessions;
`SetParameter` queues a saved entry with its own text or with a foreign one;
`RealtimeEnter` and `RealtimeMessage` are the drain; `ChangeRt` is
`parameter_change_rt`, with any value the parameter can hold. In both, the
plugin's callback may let parameters appear. `NewSession` starts any version after
the last session has ended in any way, by a crash too.

Names are sequences of characters (`Char`), because escaping, cutting and
searching are where a wrong parameter would be hit: `Escape`, `NameBuffer`,
`Unescape`, `Find`. `IsLayout` says what every version is like: each group is
given after its parent, and an enum has a label. `VersionsAgree` says what must be
true of the versions together, and of foreign texts, for values to come back:
nothing is without a name (`Named`), no two groups or parameters side by side have
one name (`Apart`), and what the program makes up itself is of a string or cannot
be read. The code tests none of this. It is no assumption of the model:
`MCParamText` has versions that agree and two sets that do not, and checks that
`VersionsAgree` tells them apart. Values are a letter and a content; a float
counts tenths of a millionth, so that `%f` rounds it. A text of the wrong type
leaves the bytes of the union, which is any value (`Stored`). The index of an enum
is stored without a test (host.c:1046), so that an enum holds any index
(`Holdable`): one index behind the labels stands for all of them, as nothing but
the lookup tells them apart. `get_parameters` then reads outside the labels
(`Labelled`), which ends the process (`broken = "label"`). `out` counts the chunks
`set_parameter` and the drain have taken and not given back, `lost` those that
nothing points to any more. `expect` is history: what each parameter should mean,
with an enum's label for its value.

Left out: the races of values and messages (`HostValues`: here `value` stands for
both the host's copy and the plugin's), parameters that are removed
(`ParamLink`). `saved` is a set: the program may restore its entries in any
order and more than once. `broken = "message"` is the second message of
`set_parameter`, which is used without a test (host.c:1569); it ends the process
too.

## 4. Runs

| Run | Shows | Bounds |
|---|---|---|
| `tree_core` | with parameters and groups that disappear, late groups, contexts and `ui_off`: counters cover what is pending (`CountCovers`), the asserts on counters, states and contexts hold (`AssertsHold`), a walk that leaves the root's counter at zero has shown everything (`LiveShown`), a context lives as long as its parameter (`ContextLifetime`) | 3 groups, 2 parameters, root counter at most 3 in `ui_off` and `set_parameter` |
| `tree_exact` | without `ui_off` and contexts the counters are exact (`CountExact`), the interface has exactly what the plugin has (`ViewIsLive`), the contract is kept (`KeepsContract`), and with `ui_run` called again and again everything arrives (`ScreenCatchesUp`) | 3 groups, 2 parameters |
| `values_overlap` | with everything racing: plugin and host agree on every value that is not on its way (`Agree`); the counter parts from the flags only by a store that overwrites the other thread's (`CountsLostByOverwriting`); a notice of the host's value is lost only where `notify` clears the flag of a value that has changed again, or by a set message (`NoticesLostByClearing`) | 2 parameters, 2 values, 2 messages, counter at most 2 |
| `values_apart` | for a program that keeps `change_rt` apart from interface calls and restores nothing: the last request wins (`LastRequestWins`), every queued change is drained (`ChangeReachesPlugin`), every flagged one told (`ChangeReachesScreen`) | 2 parameters, 2 values, 2 messages, counter at most 3 |
| `plugin_refused` | against a host that may refuse every call: what the library believes the host has is what it has (`HostView`), handles are valid and of the type they were added with (`HandlesInUse`), the asserts hold, the counter is never more than one short (`CounterAtMostOneShort`) | 2 groups, 2 parameters, 2 names, 2 types, counter at most 4 when removing |
| `link_removals` | with chunks reused: one live entry in the host for each of the plugin's parameters (`LinkedOnce`), no stale handle on the screen (`HeldIsCurrent`), and a change of a parameter the plugin still has reaches it (`LiveIsReached`) | 3 parameters one after the other, 2 names, 2 chunks on each side, 2 messages |
| `storage_copies` | with every allocation failing: nothing lost but by `host_parameter_free`, nothing dangling, finished copies whole | 7 blocks, 2 structures, at most 2 hints and 2 enum values |
| `lifecycle` | with every step failing: outside its calls an instance has everything or nothing, but for what a failed `instantiate` leaves, which is counted in `leaked` (`NothingLeftBehind`), no list and no callback leads to a freed instance (`PointersLive`), chunks go back to the pool they came from and no pool is destroyed with chunks out (`ChunksComeHome`), the smallest pool that fits serves (`SmallestPoolServes`), the audio thread never sleeps (`RealtimeNeverSleeps`) | 2 instances, 2 chunks in use, 4 sizes at the pools' boundaries, memories of 4096 |
| `text_restore` | over sessions and versions: a restored parameter means what it was saved with, and no other is touched (`SavedIsRestored`); every chunk taken is in the queue, postponed, given back, or one of the two that are known to be lost, the first message of each call and a string that no enum takes (`ChunksAccounted`); no name is written in front of its buffer (`NamesInBuffer`); an enum loses its label only to an index of the program's or to the bytes of a number (`LabelsLostToNumbers`) | 2 versions of 3 parameters each, 2 `set_parameter` calls a session, name buffer of 2 growing by 1 more than it must |
| `bug_hide_count`, `bug_lost_count`, `bug_no_retry` | disagreements, see section 6 | 1 or 2 groups, 1 or 2 parameters |

### Why the bounds are enough

Three groups make a chain of root, child and grandchild, the shortest in which a
count has to climb past a group, and also the shape of two siblings, of which one
is skipped. Two parameters let one be pending where another is not. In `tree_core`
only the double counting of `ui_off` and of `set_parameter` takes the counter far
up, and repeats; `MaxCount` is tested before either, which then add what they add.
The proofs have no such bound. In `HostValues` two parameters let a walk tell one
while the other changes, and two messages, a change and a set, are enough for
their order to matter. In `PluginLib` the interesting case, a parameter of a name
pending disappear next to an add of that name with the same or another type, needs
two of each. In `ParamLink` three parameters in two chunks force both pools to
hand a chunk out again. In `Storage` two pairs let the second fail after the
first, one of them with a value and one without. Seven blocks hold every hint set
with two full pairs, every enum whose hints and values take no more than that (one
full pair or two names without values, and a value), and next to a small one a
second structure that fails at every step. In `Lifecycle` two instances let one be
in the middle of a call while the other is attached and used, or is cleaned up
with its handle free for the next; two chunks of one pool or of two let one come
home to the wrong one. The sizes are 916 and 917, the last that fits the first
pool and the first that does not (1024 less 100 less a handle of 8), and 3988 and
3989, the same for the largest of the three pools that a memory of 4096 gets. In
`ParamText` the two versions have names that only the escaping keeps apart (`a/b`
at the top and `b` in `a`; a group `^` with a parameter `/^`), labels that moved,
one that is gone and one that is new, a number that changed its type and one that
became an enum; two calls let two entries be in the queue at once, or one be
restored twice; the name buffer is so small that every name makes it grow. The run
has no failure of that buffer (`"buffer"` in `Fallible`): a parameter whose name
cannot be written is left out of what is saved, and the program may leave out any
entry by not restoring it.

`MaxCount`, `MaxPending`, `MaxQueue`, `BlockCount`, `MaxItems`, `Chunks` and
`MaxCalls` are the only bounds that are not sets of the code's own objects; each
is in the guard of the action that would exceed it (`Chunks`: there is none
free). `BlockCount` is no restriction of the behaviours:
an allocation without a free block fails as any other.

`CHECK_DEADLOCK FALSE` is set where the system really may stop: a failed assert
or a bad pointer ends the process (`fault`, `failed`, `landed = "freed"`), and
in `HostTree` and `ParamLink` also when all chunks are in use and everything has
been told.

`lifecycle` and `text_restore` check for deadlock: an instance can always be
made, cleaned up or fail, and a session can always end.

Symmetry is used for chunks and parameters, for groups but the root, for the
structures of `Storage` and the instances of `Lifecycle`, and never with a
liveness property. `ParamText` has none: its parameters differ.

### Fairness

* `HostTree!FairSpec`: weak fairness of `UiRun` and of `Walk`. `ui_run` is
  the call by which a program has pending calls issued (`host.h:171`), so that a
  program that shows anything keeps calling it; `notify` is a loop without waits.
* `HostValues!FairSpec`: weak fairness of the steps inside a call, strong
  fairness of `RealtimeEnter` and `UiRun`. The audio cycle and the program's
  timer come back for ever, but each finds the lock free only now and then:
  `realtime_run` only tries. Strong fairness says that one of the tries hits a
  moment in which the lock is free, which holds as interface calls are short
  and leave the lock between them; nothing in the code guarantees more.
* `PluginLib!FairSpec` (only in `bug_no_retry`): the host attaches, and the
  plugin goes on adding and removing. With that much activity a retry has every
  opportunity to happen.

## 5. Proofs

Eight modules prove, for every value of the constants that the assumptions
allow (every finite set of groups, parameters or chunks, every set of instances
and values, every size and every bound):

| Theorem | Says |
|---|---|
| `HostTreeProofs!TypeCorrect` | `TypeOK` |
| `HostTreeProofs!NothingSkipped` | `CountCovers`: no counter is smaller than what is pending below its group |
| `HostTreeProofs!AssertsNeverFail` | `AssertsHold`: the asserts at host.c:294, 602, 1231 and 1265 |
| `HostTreeProofs!ContextsLast` | `ContextLifetime` |
| `HostTreeProofs!LiveIsShown` | `LiveShown`: a walk that leaves the root's counter at zero has missed nothing |
| `HostTreeProofs!ViewAgrees` | `ViewIsLive`, without `ui_off` |
| `HostTreeProofs!CallsAlternate` | `ToldInTurn`, without `ui_off` |
| `HostTreeProofs!RemovedNotTold` | `RemovedStaysRemoved`, without `ui_off` |
| `HostTreeProofs!ContractKept` | `KeepsContract`: `HostTree` implements `UiContract`, without `ui_off` |
| `HostTreeProofs!NothingHangsLoose` | `ShownUnderShown`, from the contract |
| `HostTreeProofs!CountsAreExact` | `CountExact`, without `ui_off` and contexts |
| `HostTreeProofs!WalksDrain` | `DrainAssert`: the asserts at host.c:1242 and 1276, without `ui_off` and contexts |
| `HostTreeProofs!NothingFails` | `Running`: no fault at all, in the same environments for a plugin that also keeps its groups and a program that gives its callbacks |
| `HostValuesProofs!ValuesTypeCorrect` | `TypeOK` |
| `HostValuesProofs!LockExcludes` | `LockOwner` |
| `HostValuesProofs!PluginAgrees` | `Agree` |
| `HostValuesProofs!LastRequestReaches` | `LastRequestWins`, without `set_parameter` |
| `HostValuesProofs!CounterOnlyOverwritten` | `CountsLostByOverwriting`, whatever races |
| `HostValuesProofs!NoticesOnlyCleared` | `NoticesLostByClearing`, whatever races |
| `PluginLibProofs!PluginTypeCorrect` | `TypeOK` |
| `PluginLibProofs!HandlesStayInUse` | `HandlesInUse` |
| `PluginLibProofs!CounterCovers` | `CounterAtMostOneShort` |
| `PluginLibProofs!ViewIsRight` | `HostView`, for a host that attaches once |
| `PluginLibProofs!AssertsNeverFail` | `AssertsHold`, likewise |
| `PluginLibProofs!FirstAttachAnnounces` | `AttachAnnounces`, likewise |
| `PluginLibProofs!NoFaultWithAWillingHost` | no fault, for a host that refuses at most disappear calls and attaches once |
| `ParamLinkProofs!LinkTypeCorrect` | `TypeOK` |
| `ParamLinkProofs!EachLinkedOnce` | `LinkedOnce` |
| `ParamLinkProofs!HandleNeverStale` | `HeldIsCurrent` |
| `ParamLinkProofs!ListIsInUse` | the host's list has each chunk in use once and no other |
| `ParamLinkProofs!ChangesReachTheLive` | `LiveIsReached` |
| `ParamLinkProofs!NothingStraysWithoutRemovals` | `ChangeLands`, `RtLands` and `SetLands`, for a plugin that removes nothing |
| `StorageProofs!StorageTypeCorrect` | `TypeOK` |
| `StorageProofs!FailuresUnwind` | `NothingLost` |
| `StorageProofs!PointersAreGood` | `NothingDangles` |
| `StorageProofs!OneOwner` | no block belongs to two structures |
| `StorageProofs!CopiesAreWhole` | `CopyIsWhole` |
| `LifecycleProofs!LifecycleTypeCorrect` | `TypeOK` |
| `LifecycleProofs!FailedAttachLeavesNothing` | `NothingLeftBehind`: whichever step of `lv2dynparam_host_attach` or `rtsafe_memory_init` fails, the labels give back just what has been obtained |
| `LifecycleProofs!NoDanglingInstance` | `PointersLive` |
| `LifecycleProofs!NoChunkAstray` | `ChunksComeHome` |
| `LifecycleProofs!SmallestIsFound` | `SmallestPoolServes` |
| `LifecycleProofs!AudioNeverSleeps` | `RealtimeNeverSleeps` |
| `ParamTextProofs!NamesComeBack` | a full name, of any length, fits the buffer it is written to, and `string_unescape` takes it apart into the same names |
| `ParamTextProofs!FindsByName` | the search by full name finds the parameter of that name and no other, where names are given and distinct |
| `ParamTextProofs!ChunksAreAccounted` | `ChunksAccounted`, for any versions and texts |
| `ParamTextProofs!NamesFit` | `NamesInBuffer`, for any versions and texts |
| `ParamTextProofs!TypesAreKept` | `TypeOK`, for versions that agree |
| `ParamTextProofs!RestoringWorks` | `SavedIsRestored`, for versions that agree |
| `ParamTextProofs!LabelsAreLostToNumbers` | `LabelsLostToNumbers`, for any versions and texts |
| `ListsProofs!WithoutLeaves` | `list_del` leaves the other entries, each once if each was there once |

An assumption of a theorem is an environment, never a restriction of the code:
where a theorem excludes one, section 6 has what happens in it.

**HostTree.** All of it is about programs that do not call `change_rt` during an
interface operation (section 3, `HostTree`): with a lost update of the counter
(`bug_lost_count`) neither `CountCovers` nor what rests on it is true. The
assumption `Orderly` is that `Env` does not have `"dirty_chunks"`, with which the
counters do not cover (section 6). Everything else is allowed: removals, hiding,
contexts, groups that disappear, no callbacks.

`CountCovers` is not inductive alone. That a step which makes one item pending
increments the counters along `chain` preserves it only if an item's chain is
what the definition of `Owed` looks at, if chains are closed under parents, and
if nothing is pending below a chunk that is not in use. And a parameter may be
freed while its context is still to be told: it is no longer in what `Owed`
counts, but its count stays in the counters, and `Owed` would grow by itself if
its chunk were used again. The invariant is

    IInv == TypeOK /\ ChainOK /\ WalkOK /\ ContextsOK /\ DebtCovers

with `ChainOK` for the shape of the tree and `WalkOK` for the walk being at a
group of the tree. `DebtCovers` is `CountCovers` with `Debt` for `Owed`: it counts
the contexts of freed parameters too. `ContextsOK` says when there are any: only
until the walk that freed them ends. Such a walk ends in the assert of `ui_run`
(host.c:1242), because the root's counter covers the debt (`NoDebtAtZero`), so that
no chunk is handed out again with a context pending. (With asserts compiled out,
the next parameter in the chunk would be paid for a context it never got.)
`ContextsStep` needs that a parameter is freed only with the interface on
(`DisappearingShown`), and that is known from what the interface has been told:
`InvariantHolds` is therefore one induction over `IInv`, `RootInv` and `ViewInv`
below.

The proof goes action by action: `GrowDebt` and `ShrinkDebt` bound how much a step
can change the debt of a group, `CoverGrow`, `CoverShrink` and `CoverPay` compare
that with the counter, and one lemma `Cover...` per action instantiates them.
`CoverUiOff` is the case in which many items change at once: what becomes pending
at `x` is included in the union of what was and of what `HideCount(x)` counts.
`VisitCovered` and `GroupVisitCovered` turn coverage round: an item that is
pending pays back what its groups have, so that the assert of the decrement holds;
`PendingPays` has that for the state, the value and the context of a parameter
together. `AssertsNeverFail` needs `RootInv` (the root is pending exactly when the
interface is off) and one more invariant, `DestroyInv` (a parameter that is
pending disappear was shown, so its context is set).

**HostTree, the view.** Three assumptions, each narrower: `Orderly`; `Steady`,
which excludes `"hides"`; and `Contextless`, which excludes `"contexts"` too.

Under `Orderly` the invariant is `ViewInv`: a parameter that the interface has
is not pending appear, its context is set, and the climb from its group meets no
group that is pending appear (`Settled`). The last is what a walk that is below a
group needs (`WalkView`), and what is lost if a group could become pending appear
below one that is shown. `LiveIsShown` joins it with `DebtCovers`: with the
root's counter at zero nothing in the tree is pending (`NothingPending`), and what
the plugin has and is not pending the interface has.

Under `Steady`, `SteadyView` says the converse: the interface has what the plugin
removed exactly while it is pending disappear. `ViewAgrees`, `CallsAlternate` and
`RemovedNotTold` follow. The refinement is step by step: `ContractStep` shows that
a step of `HostTree` is one of `UiContract!Next` or leaves `holder` and `told`
alone. A visit that tells the interface of a group or parameter is an `Appear` or
`Disappear` of the contract (`VisitContract`), a callback that puts an item in a
chunk is a `Place` (`PlaceStep`), and all others are stutters. `ContractNests`
proves from `UiContract` alone that what is shown hangs below what is shown, so
that `NothingHangsLoose` comes by the refinement.

`CountsAreExact` is for `Contextless`: a second context for a parameter before the
walk is counted again and paid back once. It compares cardinalities: `Exact` says
that a group's counter is the number of items pending at or below it, and
`ExactGrow` and `ExactPay` that a step which adds an item to what is owed at the
groups of one climb, or takes it away, changes the counters of just these groups
by one.

`WalksDrain` is the longest argument. What a walk has left to do is said of places,
not of counters: what is pending has not been visited, and is in a group that the
walk has yet to enter or is in (`WalkRest`). Suppose a walk ends at the root with
its counter above zero. By exactness something is pending, so there is a group not
yet entered with something pending in or below it, and the group above each such
group is another. One of them is nearest to the root (`NearestBusy`, by
`LeastNumber`), and the group above it is nearer still: there is none (`Drained`).

**HostValues.** The invariant is

    IInv == TypeOK /\ InCall /\ LockOwner /\ Agree /\ PushFresh

`InCall` says that a thread within a call has its parameter and its value;
`PushFresh` that the value `change_rt` holds in a register is still the host's
when it is pushed, or that another change of the parameter is on its way. That
is where the lock matters: a drain can only overwrite the value while
`realtime_run` has the realtime thread, and an interface call that overwrites
it queues a message. `LastRequestReaches` needs `Restores = FALSE`, because it
is false otherwise (section 6), and the invariants `OnlyChanges` and
`AskedIsValue`.

`LockExcludes` is proved and not among the runs' properties; it is a conjunct of
the invariant the others rest on.

The counter and the screen are not what one would like them to be when `change_rt`
races the walk: `NoticeScheduled`, `CountAsserts` and `ScreenIsCurrent` fail
(section 6). What is proved says where exactly they are lost, for every race.
`CounterOnlyOverwritten` is about `CountIsFlags`,

    count + Owing(rtPc) = Cardinality({p \in Params : flag[p]}) + Owing(uiPc)

as both threads write the flag first and the counter after it: in between
`change_rt` owes an increment and the walk a decrement. A step keeps it, unless it
is a store of a value computed from a counter the other thread has stored to since.
So neither the order of the accesses nor the test of the flag is at fault, only that
an update is two accesses; and for a program that keeps the two threads apart no
store overwrites another, and the counter is right. It needs finitely many
parameters, and `FlagInv`: a flag that is about to be cleared is set, and one about
to be set is not. `NoticesOnlyCleared` is about `NoticeDue`: the interface shows the
host's value, or the parameter is flagged, or the value is about to be written or
flagged. Besides `IInv` it needs `WidgetFirst`: in `parameter_change` the widget
already shows the value that is about to be written.

**PluginLib.** For every host, whatever it refuses and however often it attaches,

    IInv == TypesOK /\ Tree /\ CounterOK /\ BeforeAttach

`Tree` is the shape of what the plugin owns: each parameter in use is in one list
(`ListsOK`), the handles are of what is in use (`OwnedOK`), and the groups above a
group in use are in use (`ChainOK`). `CounterOK` bounds the counter from below by
what waits, less one. A host that attaches a second time is told nothing of what
is not pending, so that the pending states no longer say what it has:
`ViewIsRight`, `AssertsNeverFail` and `FirstAttachAnnounces` assume `"reattaches"
\notin Env`. Then the one walk of `host_attach` finds nothing pending but appears
(`BeforeAttach`, `FirstWalk`), so that it turns back at no group unless the host
refuses. `NoFaultWithAWillingHost` assumes `Env \subseteq {"refuses_disappear"}`,
as the bad context of `ContextsGiven` needs a refused group.

**ParamLink.** The invariant is `TypeOK /\ Core /\ QueueOK`. `Core` says how the
chunks of the two sides correspond: a parameter is in one chunk of each side at
most (`AddedOnce`); what the interface holds is a chunk of the host that is still
that parameter's (`Told`); the host's chunk of a parameter that the plugin has
leads to the plugin's chunk of it (`Linked`); and the host's list has what is in
use (`TreeIsInUse`, by `WithoutLeaves`). `QueueOK` says of a queued message only
what remains true when chunks are handed out again: if the plugin still has the
parameter, the message's chunk is the one the interface holds. `ChangesReachTheLive`
follows, as that chunk leads to the plugin's. The three stronger properties of
section 6 do hold if the plugin removes nothing (`NothingStraysWithoutRemovals`).

**Storage.** The invariant is

    IInv == TypeOK /\ NothingLost /\ NothingDangles /\ Apart /\ Making /\ Made

`Making` says, for each kind of structure and each allocation of it, which blocks
have been obtained when `pc` is there: so many whole pairs, and the half of one.
It is what makes the set given back by a failing path the set of what was
obtained. `Apart` (no block is owned twice) keeps the giving back of one structure
from touching another, `Made` has what a finished structure needs to be freed by
its length. The numbers of hints, values, blocks and structures are left open.

**Lists.** `Without` is a recursive function of the length of the list. That such
a function is what its equation says, and what it returns, is an induction, and the
library's induction theorems cannot be used here (they take an operator as
parameter). `LeastNumber`, that a set of naturals which is not empty has a least
element, follows from `WellFoundedInduction`; `EveryLength` turns it into an
induction over the prefixes of a list, as the set of lengths for which a statement
holds. `FollowsExists` gives the function by it, and `WithoutLeaves` its entries.

**Lifecycle.** The assumptions are that there are finitely many chunks and that
the loop of `rtsafe_memory_init` ends within the bits of a word, for the largest
size the libraries ask for. How many pools that makes is left open, so that the
sequences of steps have any length: `MemoryShape`, `AttachShape` and
`InstantiateShape` say what stands at each place of them. That the number exists
at all is the least element of a set of naturals (`LeastNumber` of `ListsProofs`).
The invariant is

    IInv == CoreTypes /\ CoreInv /\ ChunkInv

`CoreInv` has `NothingLeftBehind`, and what it needs to be inductive: where the
call in progress is and which lists its instance is in by then (`CallOK`), that
callbacks are those of an attached host or of one about to be (`Reached`), and
that an attached instance has switched its pools (`Switched`). The failing steps
rest on `AttachUnwinds`: for every step, what the label it jumps to gives back,
with all the labels below, is the set of what the steps before it obtained.
`ChunkInv` says that a chunk in use is owned by an instance that is listed or
has callbacks, whose pool is therefore there, that the handle in front of the
data is its pool's (`ChunkOwned`), and that the counts are the cardinalities of
what is out (`Counted`). `RealtimeNeverSleeps` follows from `Switched`.
`SmallestIsFound` does not need the invariant but for its types: the pool that the
loop of `rtsafe_memory_allocate` stops at is the least that holds the request
(`PoolForIsFirst`), and a request that is not served is larger than the chunks of
the last.

**ParamText.** Four recursions stand for loops of the code: over a name's characters
(`Escape`), over a text (`Unescape`), over the groups above a parameter (`NameBuffer`)
and from a group up to the root (`GroupPath`), and `Find` has a fifth. `LoopRuns`
says once and for all that a loop whose every round depends on an earlier one has a
run, by the same induction over prefixes as for `Without`; each recursion is an
instance of it (`EscapeSteps`, `UnescapeReads`, `NameBufferSteps`, `GroupPathSteps`,
`FindSteps`).

`NamesComeBack` rests on one notion. `Reads(a, text, b)` says that `string_unescape`,
cutting a text from state `a`, ends in state `b`. It composes over concatenation
(`ReadsBoth`), an escaped character is read as the character (`ReadsEscaped`), so an
escaped name as the name (`ReadsName`), and a bare separator begins the next name
(`ReadsSeparator`). The buffer is filled from its end, so that the induction over the
groups says: whatever has been read in front, what is in the buffer is read as the
names so far. `PrependFits` keeps its room a natural number on the way.

`FindsByName` goes both ways. A search that has not ended after `k` names is in a group
whose path is these names; and if a parameter in the tree has the full name, the search
is, after each name, in the group above it, because `Apart` leaves no other of that
name beside it. Without `Named` the first is not enough: an empty name ends the
search early.

`ChunkInv` says kind by kind how many chunks are out and not lost (`Balance`). What is
counted of strings are the elements of a list with a property, and `StringsAppended`
and `StringsTaken` say how that cardinality changes at either end. `FailureKeeps` is
the point: for each step at which `set_parameter` may fail, what was taken less what
the labels give back is just the first message, whose pointer is overwritten.

For `RestoringWorks` the invariant is

    RestoreInv == StateInv /\ ChunkInv /\ ValuesInv /\ SavedInv /\ QueueInv /\ ...

the dots being that each value means what is expected. `SavedInv` says of each saved
entry that its name is taken apart into the path it is of and that its text is read as
what it means (`Carries`). `QueueInv` says the same of messages. `MessageRestores` is
the step that matters: by `FindsByName` the message meets the parameter of its path or
none, and if the types agree what is stored means what was meant (`MessageMeansIt`), a
float within half a millionth; if they do not, any value is as good as another.
Section 6 has what happens without unnamed or equal names being excluded.

`LabelsAreLostToNumbers` assumes nothing of the versions. A message that is applied
stores into an enum the index of a label if its text is a string (`LabelIsStored`), so
that an index without a label comes from a text of another type or from `change_rt`.

**Left to TLC.** Liveness (`ScreenCatchesUp`, `ChangeReachesPlugin`,
`ChangeReachesScreen`): the proof system has no rules for fairness that it can
check here. All other properties of the runs that pass are
stated by a theorem, under the assumptions given there. Of `RtMemory`, which has no state, what the definitions
compute is proved where `Lifecycle` uses them.

## 6. Where the code and its documentation part

Three runs end in a counterexample:

| Run | What happens |
|---|---|
| `bug_hide_count` | A group appears while the interface is on and `ui_off` comes before the next walk. `group_hide` counts the group again (host.c:692), the next `ui_on` pays it back once and fails its assert at host.c:1276. |
| `bug_lost_count` | `change_rt` increments the counter (host.c:281) while the walk decrements it (host.c:296), without a common lock. The decrement overwrites the increment: the parameter is flagged and the counter is zero, so that `ui_run` returns without telling its value, and a later `change_rt` finds the flag set and schedules nothing either. `host.h:319` says a call "will be scheduled". |
| `bug_no_retry` | A refused `parameter_appear` is never repeated (parameter.c:258), though `lv2dynparam.h:114` and the comment at `host_callbacks.c:118` say the plugin will. |

### Further disagreements

The modules state these properties too. They do not hold, and no run lists them;
to see a counterexample, put the property and the constants given here in the
configuration named. Where section 5 proves one of them under an assumption, the
change given here is one that breaks the assumption.

| Property | Start from | Change | What happens |
|---|---|---|---|
| `DrainAssert` | `bug_hide_count` | `Env = {"contexts"}` | A `set_parameter` with a context for a parameter already shown is counted (host.c:1184) and never paid back. |
| `RemovedStaysRemoved` | `tree_exact` | `Env = {"hides", "removes"}`, `Spec` | `ui_off` makes a parameter that is pending disappear pending appear (host.c:679): `ui_on` shows what the plugin has removed. |
| `ToldInTurn` | `tree_core` | `Env = {"hides", "removes"}` | A parameter removed before it was shown stays in the tree (host_callbacks.c:324); `ui_off` takes it from an interface that never had it. |
| `AssertsHold` | `tree_core` | `Env = {"dirty_chunks"}` | `context_pending_value_change` is not initialised (host_callbacks.c:170); the walk pays a count that nobody made. |
| `NoUseAfterFree` | `tree_core` | | The walk frees a group and goes on into it (host.c:514). |
| `NoNullCall` | `tree_core` | `Env = {"no_callbacks"}` | The created callback is called without a test (host.c:545), though `host.h:121` says that it is optional. |
| `LastRequestWins` | `values_apart` | `Restores = TRUE` | A queued set message overwrites the host's value between the write of a later change and its drain (host.c:1171, 1182). |
| `ScreenIsCurrent` | `values_apart` | `Overlap = TRUE`, `Spec`, 1 parameter | `notify` tells the value and then clears the flag (host.c:636). A `change_rt` between the two sees the flag set and schedules nothing: the interface shows the old value. `host.h:319` says a notice will be scheduled. |
| `CountAsserts` | `values_apart` | `Overlap = TRUE`, `Spec` | `change_rt` flags a parameter the walk has passed, and the assert of `ui_run` that nothing is pending fails (host.c:1242); or two unlocked updates of the counter lose one. |
| `NamesDiffer` | `plugin_refused` | `Env = {"refuses_disappear"}` | The host refuses the disappear of a parameter; an add of the same name with another type finds it, does not reuse it, and adds a second one (parameter.c:340), though parameter.c:333 says that groups cannot contain two parameters with the same name. |
| `ReuseIsTold` | `plugin_refused` | | A parameter taken into use again is left pending change (parameter.c:346); nothing tells the host its new value, range or labels. |
| `ContextsGiven` | `plugin_refused` | | Children of a refused group are announced with its unset context (group.c:207). |
| `HintsReachHost` | `plugin_refused` | | `param_*_add` ignore the hints (parameter.c:360). |
| `AttachAnnounces` | `plugin_refused` | `Env = {"reattaches"}` | A second host is told only of what is still pending (group.c:192). |
| `ChangeLands`, `RtLands`, `SetLands` | `link_removals` | | A change queued or made for a parameter that the plugin has removed meanwhile goes to its freed or reused chunk (host.c:1171, 1130); a search by name finds a removed parameter before the new one of its name (host.c:1003). `LiveIsReached` is what remains true. |
| `IndexInRange` | `storage_copies` | | `hints_init_va_dup` asserts `index < count` before it sees the end of the list (hint_set.c:163): it fails for every set that is not empty. No code of the repository calls it. |
| `LargestServed` | `lifecycle` | | The loop that counts the pools tests the size of the pool after the last (memory_atomic.c:173): a memory for 4096 has no chunk larger than 3996, of which a handle takes 8, and a request of 3989 is refused. memory_atomic.c:133 gives DATA_MIN * 2 ^ POOLS_COUNT - DATA_SUB as the largest. |
| `InstantiateLeavesNothing` | `lifecycle` | | The labels of the failing path of `instantiate` are empty but for the last (plugin.c:164): the memory and the pools stay. |
| `NothingPostponed` | `text_restore` | | A text restored before its parameter has appeared is put in a list that nobody reads (host.c:1201). |
| `NothingLost` | `text_restore` | | `set_parameter` overwrites the pointer to its first message with that to a second (host.c:1569); a string that was given to a parameter that is no enum is not freed (host.c:1110). |
| `LocaleKept` | `text_restore` | | When the name of the locale cannot be copied the process stays in POSIX (host.c:862). |
| `SavedIsRestored` | `text_restore` | `Layouts <- Unnamed` | The full name of a parameter without a name ends in a separator; the search takes the empty name for the end of the list (host.c:993) and finds the parameter next to the group that has the group's name. |
| `SavedIsRestored` | `text_restore` | `Layouts <- Twins` | Of two groups of one name only the first is searched: the text of a parameter in the second is postponed for ever. |
| `EveryEnumLabelled` | `text_restore` | | The index of an enum is stored without a test (host.c:1046): an index the program gives `change_rt`, or the bytes of a number that was saved before its parameter became an enum. The next `get_parameters` reads a label beyond the last (host.c:878). `lv2dynparam.h:65` says that the host ensures that values are within range. |

## 7. Not modelled

* **The provider of `lv2_rtmempool.h`**: external. Any of its creates and
  allocations may fail; what it preallocates is not modelled. Modules other than
  `Lifecycle` and `Storage` take an allocation as one step that takes a free
  chunk.
* **`lv2dynparam_host_detach`**: a stub without a statement. An attached host
  instance is never given back.
* **`change_rt` in the middle of `ui_run`, `ui_on` or `ui_off`, on the tree**: it
  takes no lock, and it tells the plugin (host.c:1098), which may add and remove
  items: the lists and pending states are then changed by one thread while the
  other walks them. `HostTree` leaves that out; `HostValues` has the flag, the
  counter of one group and the values under such races, without items that come
  and go.
* **Ranges of values**: values are abstract outside `ParamText`. `change_rt`,
  `parameter_change` and the drain do not test ranges.
* **The locale while another thread formats numbers**: `ParamText` has the locale
  of the process after each call, not during it.
* **`get_prev_component`, `parameter_asciizz_match` and their caller**
  (host.c:359-470): within `#if 0`.
* **Commands**: `command_appear` always refuses; there is no state.
* **`group_remove`, `command_add`, `command_remove`** of the plugin library are
  declared and not defined. `HostTree` has groups that disappear, because a
  plugin need not use this library.
* **Logging, build files**: without state. Of `list.h`, which is vendored, `Lists`
  has what the order of entries depends on.
* **Weak memory**: `HostValues` interleaves single accesses in program order;
  the one reordering it has is that the compiler may use the value it has in a
  register instead of reading it again (`ChangeRtPush`).
