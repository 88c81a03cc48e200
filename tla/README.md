# Verification of ecsact_runtime

TLA+ modules, TLC configurations and TLAPS proofs about the C++ side of
`ecsact_runtime`: the classes that C++ programs use in place of the C API, and the
tool that keeps the C headers consistent. The runtime that implements the C API
(`ecsact_*` functions) is not part of the repository; where the classes call it, it
appears as an external action with no more behaviour than the headers promise.

## 1. The system

| Component | Source | State it keeps | Operations |
|---|---|---|---|
| `core::registry` | `ecsact/runtime/core.hh:584-898` | an id and the flag `_owned` | two constructors, move construction and assignment, destructor, `clone`; everything else passes the id on |
| `core::execution_options`, `builder_entity` | `core.hh:13-175` | twelve vectors; each builder a thirteenth | one appending member per list, `create_entity`, `clear`, `c`, defaulted copy and move construction |
| `core::execution_events_collector` | `core.hh:201-582` | three pointers to members, three callbacks for any component, three maps of typed callbacks, two entity callbacks | eight setters, `clear`, `empty`, `c`, five trampolines |
| `core::any_component_view` | `core.hh:177-199` | none that changes | - |
| `registry::execute_systems` | `core.hh:804-897` | - | takes `c()` of options and collector, calls the runtime |
| `async::async_events_collector` | `ecsact/runtime/async.hh:12-176` | four optional callbacks | four setters, `clear`, `c`, four trampolines |
| async functions | `async.hh:178-246` | - | take `c()`, call the runtime |
| `check_module_header` | `scripts/check_module_header.cc` | headers on disk, git's index, `methods`, `exit_code` | scan, cut, rewrite, format, compare |
| dylib | `dylib/`, `ecsact/runtime/dylib.h` | a table of function pointers | `ecsact_dylib_has_fn`, `ecsact_dylib_set_fn_addr` |
| meta, serialize, si::wasm helpers | `meta.hh`, `serialize.hh`, `si/wasm.hh` | none | count-then-fill queries, buffer sizing, loading |
| C API | `ecsact/**/*.h` | - | declarations |
| tests, build files | `test/`, `*.bazel`, `*.bzl` | - | compile-time checks |

How they interact. A program creates a `registry`, queues work in `execution_options`
objects and registers callbacks in a collector. `execute_systems` (or
`enqueue_execution_options` and `flush_events`) asks both for a C view by `c()` and
passes it to the runtime. The view of the options is a struct of plain pointers into
the object's vectors. The view of a collector is a struct of trampolines and a pointer
to the collector, through which the runtime calls back, in the calling thread, while
the collector goes on changing. The meta, serialize and wasm helpers and `get_entities`
share a pattern: ask the runtime for a size, allocate, let it write. The dylib is what a
program links in place of a runtime when it loads one later: a table of pointers that a
host fills by name. The header tool is run by hand and by continuous integration, and
communicates with developers through the files and git's index.

Nothing here starts a thread, and the classes are not synchronized. What makes them
hard is what happens between calls: pointers, snapshots and counts that go stale, objects
that share an id, callbacks that re-enter the object or the function that is calling
them, an asynchronous session that goes on in the background, a library that is replaced
while pointers lead into it, and, in the tool, a file that has been cut and not written
yet when the process ends.

What makes each part correct:

- registry: a registry is destroyed exactly once, by its one owner, while it is alive.
- options: a C view is readable and says what was queued, for as long as it should.
- collectors: the callback that runs is the one registered last; nothing destroys it while
  it runs but a registration in its own slot or a `clear()` that covers it; a snapshot
  offers exactly what is registered.
- `execute_systems`: events reach the object the call was given, unless a callback
  destroys it.
- async session: a request is reported at most once, only while it is waited for, and
  eventually if somebody listens.
- helpers: the runtime writes past a buffer only where it is not told the size, and, but for
  one helper, only after a change that makes more room necessary; what is returned is what
  there was.
- dylib: no pointer leads into an unloaded library, and a reload sets every pointer.
- header tool: exit status 0 of a run that got through its headers means that the macros
  of those git has compared are up to date, and no run, however it ends, makes the next one
  wrong.

`PROJECT.json` lists the hazards at their lines with the properties that cover them.

## 2. The modules

Definitions keep the names of the source. Each operation is one action, with every
vector, map or flag it changes. Operators introduced by "Fault:" are the mistakes each
property is tested against: no specification uses them; the pairing is in `PROJECT.json`.

### RegistryOwnership, Registry, RegistryProofs

`RegistryOwnership` is what callers are promised: a map from ids to owners (nobody, the
client, an object, or lost), and three steps: somebody acquires a free registry, an
owner releases one, an object gives all it owns to another (and what the other owned
is lost).

`Registry` is the class. `id` and `owned` are `_id` and `_owned` of each object; `alive`
says which objects exist. `live` belongs to the runtime: `BackendCreate` returns any id
that names no live registry, so an id may be reused as soon as its registry is
destroyed, and `BackendDestroy` records a call with an invalid id instead of forbidding
it. The client may also create and destroy registries by the C API and adopt any live
registry, including one that another object owns. Moved-from objects keep their id, as
in the code. Assigning an object to itself is included. `stale` and `badDestroy` are
history variables: which objects' registries have been destroyed since they got the id,
and which invalid ids were destroyed; no action reads them to decide anything.

The refinement maps an id to `"free"`, `"client"`, the object that owns it, or `"lost"`
for a live registry nobody owns. `MoveAssign` refines `Give`, and this is the only way
to lose a registry.

### ExecutionOptions, ExecutionOptionsProofs

A `std::vector` is a record of a buffer, a capacity and its elements. `PushBack` goes to
a fresh buffer when the vector is full, `Cleared` keeps the buffer, `Refilled` is the
`clear(); reserve(n); push_back...` of `c()`, `Copied` is the copy constructor (whose
capacity is its size). `Fresh` gives a buffer nobody points to. `vec[o]` holds the flat
vectors, `created[o]` the builders (with their vectors of components), `pointers[o]`
the vector `entities_components`, `view[w]` an `ecsact_execution_options` of the client
(`NoView` before it asked for one); `Null` is the pointer to nothing.
Instead of entities and components, which the class never looks at, the vectors hold
the number of the call that queued them; `calls[o]` is the history of these calls, and
`Valid(w)` computes from the history stored with a view what it must say (`Queued` and
`Built` are the calls a list and a builder must hold, `Lists` that a vector holds a set of
calls in order), then demands that every pointer of the view leads to a buffer that is
alive and begins with it.

`Push` stands for the seven members that append to one or both vectors of a list. Only
the builder returned last is used by the client: an older reference may dangle
(`core.hh:75-81`). Running out of memory is left out, as are the two pointers to
indexed fields: `c()` leaves them null, the class has no way to be given any, and
`common.h:565-570` and `592-597` promise a list. Nothing about that needs a model.

### ExecutionEventsCollector, ExecutionEventsCollectorProofs

A callback is the number of the call that registered it; 0 is none. `current[k]` is the
pointer to member of kind `k`, `callback` the slots: typed per kind and component, for
any component per kind, and the entity callbacks. `c()` stores in `snapshot[p]` which
trampolines it sets. An event may arrive through any snapshot, however old. A
callback that runs is on `stack` until it returns, and meanwhile every member may be
called, including `c()` and further events to a depth of `MaxDepth`.

Nothing is asked of the client: a callback may replace itself and may clear the collector,
which destroys the `std::function` that is being executed. The code neither prevents nor
documents this. `Destroyed(s, n)` says from the history of calls what destroys a callback:
a later registration in its own slot or, unless it is one for any component, `clear()`.
`RunningDestroyedByOwnSlot` says that a running callback is gone from its slot exactly when
such a call was made: `set_any_...` leaves the typed callbacks that are running, `clear()`
the ones for any component, and a callback for one component may register for another. A
destroyed callback stays on `stack`, goes on calling members and returns; what it does with
its captures from then on is the client's and is left out.

### AsyncEventsCollector

The same for the four optional callbacks of the async collector. `Tested(s)` is the slot
the trampoline for `s` tests; for the session event it is the slot of requests-done
(`async.hh:172`). `set_async_session_event_callback` takes the type of another callback
and compiles only with containers that convert it, hence `SessionCallbackAccepted`.
`clear()` resets two of the four slots. Here too a callback may replace itself, and an error
callback may call `clear()`: `RunningDestroyedByOwnSlot` as above, where the callbacks for
finished requests and session events are those that survive `clear()`. `empty()` calls a
member `std::optional` does not have, cannot be instantiated, and is left out.

### ExecuteSystems, ExecuteSystemsProofs

`registry::execute_systems` with a collector, and the collectors as objects: created,
copied, moved (what implicitly defined members do to each member is in `Copy`, `Move` and
`MovedFrom`), destroyed, with empty `std::function`s among the callbacks. A collector is
reduced to one component and one entity event; which callback an event finds among
several is the business of `ExecutionEventsCollector`. `stack` holds the calls of
`execute_systems`, each with the object its C collector refers to, the events that one
offers and whether a callback is running; a callback may do whatever the program may, down to
`MaxDepth` calls, and that includes clearing, moving from and destroying the collector whose
events are being reported. `Keep` is a client that takes `c()` and calls the C function with
it later. Calling an empty function throws, and an event for an object that is gone is
undefined: either ends the program, and `outcome` says which, and for which event. An object
created in the place of a destroyed one has its address, and gets the events of a C collector
made before; `lost` tells such a C collector from one whose object still exists. `lost`,
`wants` and `emptied` are history variables.

The list of execution options is not here: it is converted before the runtime is called
and before any callback runs (`core.hh:820-846`), so that its views are those of
`ExecutionOptions`.

### AsyncSession, RequestLedger, AsyncSessionProofs

`RequestLedger` is what a client is promised about its requests: an id is unused, waiting,
or has one outcome: reported, missed (nobody listened to the report) or abandoned by a
session that ended; a request gets an outcome only while it is waiting, and an id may be
used again afterwards. `told` counts how often the client was told that the request is done,
so that a second report, or a report of a request that is not waiting, is neither a step of
the ledger nor a stuttering one.

`AsyncSession` extends `AsyncEventsCollector`, with a snapshot for each depth of nested
flushes, by the functions of `async.hh` and an external session: the actions of the
collector are parts of those of the session, and `Spec` remains the collector alone beside
`SessionSpec`. `flush_events` takes a
snapshot as a local variable (`FlushSnapshot`) and the runtime reports the pending events
through it (`Deliver`, with the trampoline's test); callbacks may register, clear, start,
stop, enqueue and flush again. An event leaves the runtime's queue before its callback runs:
that a nested flush does not report it again is the runtime's part of the promise, and is
assumed; the C++ side adds the snapshot and the test that each report goes through.
The session starts, executes requests in any groups, fails
with an error of a request or of a system, and stops. `since[n]` remembers what had been
registered when the n-th flush began. The overloads of `flush_events` without an async
collector are `FlushWithout`.

### RuntimeQueries, RuntimeQueriesProofs

One machine for every helper that makes several calls of the C API: `meta.hh`,
`registry::get_entities`, `serialize.hh` and `wasm::last_error_message`. A query is a
record of what the helper does: where the size of its buffer comes from (a count asked
for, a parameter, 32, the length of the input, a C++ type), whether the runtime is told
that size, whether the result is resized to a count it reports, what becomes of the
elements (a list, a map by `insert` or by `operator[]`), how many lists are read, and
whether the names it asks for afterwards are compared with `nullptr`. The sets
`DeclarationQueries` to `DeserializeQueries` say so of each helper. `Begin`, `Ask`,
`Fill`, `Name`, `Return` are the calls; `Change` is other code that creates or destroys
what is asked for between any two of them; `changed` and `grown` are history, and tell
whether anything changed since the helper began and whether a list grew between its size and
the write. Elements the runtime did not write are zeros.
The runtime reports either the written count or the total (`report`), since `meta.h` does
not say which.

### Dylib, DylibProofs

The pointers of `dylib.cc`, for every choice of `ECSACT_..._API_LOAD_AT_RUNTIME`. The three
passes over the modules (definition, `has_fn`, `set_fn_addr`) are three constants of the
module, as they are three lists in the code. The host is external: it reloads, gives up
half way, sets one function after the other, and may call `set_fn_addr` without asking.

### CheckModuleHeader, CheckModuleHeaderProofs

A header is reduced to four things: functions declared before the marker line, those
the macro lists (or `Cut`, when the file ends at the marker), those declared after the
macro, and whether the file is as clang-format leaves it. `work` is the working
tree, `index` git's index. A run takes headers in any order (`directory_iterator`
promises none) through `Scan`, `Resize`, `Rewrite`, `Format` and `Diff`; headers without
a marker skip the second and third. It may end early: `Refuse` (a bad argument, or no
workspace: 1 before any header), `Abort` (a header outside of the known directories, or a
name without `ecsact_`, throws through `main`), `RewriteNothing` (no methods:
`methods_count - 1` wraps and an element of an empty vector is read; the crash leaves the
file cut), `Format` with a status other than 0, `DiffThrows` (no git to start), and
`Interrupt` anywhere. `Diff` does not look at the exit status of git either: a git that fails,
or does not know the header, prints nothing and counts as "up to date". Between runs,
developers declare and remove functions, edit the macro by hand, stage and restore. `Exit`
keeps the low eight bits of what `main` returns. `checked`, `compared` and `erased` are history
variables: the headers a run is done with, those git has compared, and the declarations the
run has cut off itself. The messages the tool prints are left out.

## 3. What is checked

| Run | Instance | Shows |
|---|---|---|
| `MCRegistry` | 3 objects, 3 ids | `UniqueOwner`, `OwnerNeverStale`, `NoBadDestroy`, `LeaksOnlyByAssignment`, refinement `ImplementsOwnership` |
| `MCExecutionOptions` | 2 objects, 2 views, all five lists, 4 calls in all histories together | `ParallelLists`, `CurrentViewsValid`, `ViewsEndOnlyWithReason` with copies, moves and destructors |
| `MCExecutionEventsCollector` | 2 kinds, 2 components, 1 entity event, 1 snapshot, 5 calls, depth 2 | `RunningDestroyedByOwnSlot`, `LatestRegistrationRuns`, `SnapshotComplete` |
| `MCExecutionEventsCollectorOverwrite` | same, 4 calls | violates `AnyOverwritesTyped` |
| `MCExecuteSystems` | 2 collectors, 1 callback, 7 changes, depth 2 | `HearsLatest`, `FailsOnlyIfMisused` |
| `MCAsyncEventsCollector` | 2 snapshots, 4 calls, depth 2 | `NeverThrows`, `RunningDestroyedByOwnSlot`, `LatestRegistrationKept`, `SnapshotComplete` |
| `MCAsyncEventsCollectorSession` | same | violates `SessionEventsInvoked` |
| `MCAsyncSession` | 2 requests, 7 events, 2 calls, depth 2, fair | `DropsOnlyUnregistered`, refinement `ImplementsLedger`, liveness `RequestsReported` |
| `MCRuntimeQueries` | lists of up to two of three ids, buffers of 0 to 3, fair | `NoOverrun`, `ReturnsWhatThereIs`, `MapsKeepReal`, `DiesOnlyOfUncheckedNames`, liveness `CallsReturn` |
| `MCDylib` | 5 functions of 4 modules, 2 libraries | `NeverDangling`, `ReloadComplete`, `HasFnTellsSettable` |
| `MCCheckModuleHeader` | a marked, an unmarked and a misplaced header, 3 functions (one misnamed, one that may come late), 2 edits, clang-format succeeds, exits with 1 or is killed, git works, fails or is missing | `PassMeansUpToDate`, `CheckedAreFixed`, `RerunWritesTheSame` |
| `MCCheckModuleHeaderFormatFails` | 2 headers, 2 functions, 1 edit, clang-format succeeds or exits with 1 | violates `PassMeansAllChecked` |

Each passing run also checks the module's `TypeOK` (`SessionTypeOK` of a session).

Bounds.
*Registry*: nothing is bounded but the sets; three objects are needed for an owner, an
alias and the object it is moved or assigned to, and three ids for two owned registries
while a third is created in place of a destroyed one. The theorems remove the bound.
*Options*: vectors grow when they hold 0, 1 and 2 elements (`MCDouble`, the growth of the
usual libraries; any growth is allowed by `GrowAssumption`). Four calls cover a list or a
builder that grows twice and still takes an element, refills of the scratch arrays with
and without growth, and a `clear()` between views; two views cover one that is stale while
a newer one exists. Histories are bounded and objects are constructed once, so the run
really stops: `CHECK_DEADLOCK FALSE`.
*Collectors*: five registrations cover typed, any, typed again on two components around
a `clear()`; depth 2 is a callback inside a callback, the least with two callbacks
alive. The kinds are handled by three copies of the same code, of which two are kept
to see that one does not touch another. The theorems about both
collectors have no bounds.
*ExecuteSystems*: two collectors for copies and moves in both directions, one of which may
report while the other changes; one callback and the empty function suffice to tell what
was registered from what was not. Seven changes, each a creation, destruction, copy, move,
registration or `clear()`, are enough to create both objects, register both kinds of init
callback and one for entities, move them and destroy the source, in every order and with calls
at any point; the theorems have no bound. An exception or undefined behaviour ends the program:
`CHECK_DEADLOCK FALSE`.
*Async session*: `MaxEvents` bounds the queue where the client adds to it, by starting a
session or enqueuing a request, and never where the runtime does: `Room` reserves a place
for each event that may follow, so that the bound never delays a report. Two requests can
be executed in one group or two, fail together or apart; two registrations cover one that
is made, replaced or cleared while a flush is running.
*Queries*: lists of 0, 1 and 2 elements that change into each other, against buffers that
are too small, right and too big. `FixedSize` is 1 in place of 32, so that the runtime may
have more. A sequence of two lists is read by one helper.
*Dylib*: functions of three modules that dylib.cc knows, two of them in one module with one
name the beginning of the other, and one function of the module `static`, which it does
not know; each library lacks one. Nothing else is bounded. A failed assertion ends the
program: `CHECK_DEADLOCK FALSE`.
*Header tool*: two edits reach each pair of declare, remove, edit, stage and restore, around
and between runs, which may stop anywhere and are not bounded in number; the theorems have no
bound on edits. The misplaced header is one that only an argument can name.
Symmetry is used over objects, views, components, snapshots and collectors, in runs of safety
properties, where the definitions treat them alike.

Fairness. Most of the code promises nothing about when it is called, and its modules state
no fairness. Two do.
`RuntimeQueries`: `WF_vars(Helper)`. A helper is a sequence of calls in plain code; once
begun, it goes on. Nobody is made to call one and nothing is made to change, so
`CallsReturn` has to hold against other code that changes the lists for ever.
`AsyncSession`: the program calls `flush_events` again and again outside of callbacks,
which is how a client of `async.h` learns of anything; callbacks return;
`ecsact_async_flush_events` reports the pending events one after the other and returns;
the runtime starts what was started, stops what was stopped and executes each request while
the session is started. Nothing makes the client register, start, stop or enqueue, no flush
inside a callback is assumed, and sessions may fail at any time. `RequestsReported` uses all
of it: without the flushes nothing is reported, without `Started` a session stays pending.

### What the violations say

1. `core.hh:295-297` documents that `set_any_init_callback` overwrites the typed callbacks.
   It redirects `_current_init_callback` and leaves the map alone, so the next
   `set_init_callback`, of any component, brings all of them back. Update and remove
   likewise.
2. `async.hh:172` tests `_async_requests_done_cb` before it calls
   `_async_session_event_cb`. With no requests-done callback a session event is dropped,
   against `async.h:188`. A program gets there only with a `CallbackContainer` that converts
   the `async_requests_done_callback_t` that `set_async_session_event_callback` takes
   (`async.hh:65-70`); with `std::function` the setter does not compile, and there is no way
   to register for session events. With one and no session callback it would throw, but then
   `c()` hands out no trampoline, and `clear()` resets neither: `NeverThrows` shows that
   the exception cannot happen, as long as `clear()` stays as it is.
3. `check_module_header.cc:316` returns the wait status of `std::system`. An exit status
   of 1 is the wait status 256, whose low eight bits are 0: a failing or missing
   clang-format makes the check pass.

### What the passing runs had to allow

Some properties hold only with an exception in their statement. Each exception is a
behaviour of the code that a maintainer may want to know of.

- The collectors: a callback that registers in its own slot, or calls a `clear()` that
  covers it, destroys the `std::function` it is running in (`RunningDestroyedByOwnSlot`).
- `RuntimeQueries`: the runtime can write past a buffer in three ways (`NoOverrun`). The
  `serialize` functions ask for a size and then give the runtime no size, so that it overruns
  if what is serialized grew in between. `deserialize<T>` gives it a `T`, which is too small if
  the runtime's idea of the type grew, for example by another library behind the dylib. And
  `deserialize` of a component or action whose type is not known at compile time gives it as
  many bytes as the serialized form has, although no header promises that a component is no
  larger. `field_name`
  and `get_enum_values` make a `std::string` of what they get without comparing it with
  `nullptr`, as every other helper does (`DiesOnlyOfUncheckedNames`). A list that shrinks
  after it was counted leaves zeros at its end, which `system_generates_components` and
  `system_notify_settings` store with `operator[]`, over an id 0 that is real
  (`MapsKeepReal`). A runtime that reports totals through an out-count makes all helpers
  that resize to it return ids that were never written (`ReturnsWhatThereIs`).
- `ExecuteSystems`: an empty `std::function` is registered like any other, since the
  check at `core.hh:304` is compiled only for types that convert to `bool`, which
  `std::function` does explicitly only; the event throws. A callback that destroys the
  collector whose events are being reported makes the next event undefined, as does a kept
  C collector that outlives its object (`FailsOnlyIfMisused`).
- `AsyncSession`: session events are lost while nothing is registered for finished
  requests, see above (`DropsOnlyUnregistered`).
- `Dylib`: `cc_ecsact_dylib` accepts the module `static`, for which `dylib.cc` has no
  list: there is no pointer, and `ecsact_dylib_has_fn` is false.
- `CheckModuleHeader`: a header without the marker line has no macro to compare, and
  `async.h` is one; a header that git failed to compare passes; 256 headers that differ, the
  missing path counted as one, are the exit status 0 (all three are excepted from
  `PassMeansUpToDate`). Declarations after the marker are erased by `Resize` after they were
  collected, so a header may pass with a macro that lists a function whose declaration is gone
  (`erased` in `IsFixed`, and the exception for the cut in `RerunWritesTheSame`).

## 4. What is proved

For every number of objects, ids, requests, functions and libraries, for lists of any
length, and for every bound:

`RegistryProofs`. `RegistryInv` strengthens the properties until they are inductive:
types, that what the client owns is alive, unique owners, owners of live registries they
were given (`OwnerNeverStale`), and no bad destruction so far. `OwnerNeverStale` alone would not do: `ClientDestroy`
preserves it only since no owner shares an id with the client, and `Destruct` only since
no two owners share one, which is `UniqueOwner`; that in turn survives `Create` only
since the ids of owners are live and a new id is not. From it follow
`RegistryTypeCorrect`, `RegistryUniqueOwner`, `RegistryOwnerNeverStale` and
`RegistryNoBadDestroy`. `StepLeaks` shows action by action that the set of orphans grows
only by an assignment to an owner: `RegistryLeaks`. `RegistryNoLeak` adds the assumption
`[][Disciplined]_vars`, that the client never makes such a step, and concludes that there
is never an orphan. `RegistryImplementsOwnership` is the refinement: one step per action,
with `OwnerCases` standing for the `CHOOSE` of the mapping. Assumptions: `NoId` is no id,
and the three words that stand for owners without an object are no objects.

`ExecutionOptionsProofs`. Three invariants, one on the other. `OptionsInv` says that the
two vectors of a list hold the same elements, which in the model are the numbers of the
calls: not only is the one length that `c()` gives for both right
(`OptionsParallelLists`), the n-th entity comes with the n-th component. `ContentsInv`
relates the vectors to the history: each list and each builder holds exactly the calls
`Queued` and `Built` of its history, in order, no vector holds more than its capacity, and
the buffers of different vectors of one object differ. Each step preserves it: a
`push_back` adds the newest number to the one set it belongs to (`OptionsTypeCorrect`). `ViewsInv` says
of a view that is still current that its pointers are the buffers of the vectors of its
object (`Linked`), and of every view which vectors its buffers belonged to. Then
`OptionsCurrentViewsValid` is a matter of two facts: a linked view reads what the vectors
hold, and there is only one way to list a set of numbers in order (`ListsSame`, by
well-foundedness of `<`), which is what `Valid` asks for.
`OptionsViewsEndOnlyWithReason` is about stale views too. `KeptValid`: a view stays
valid if each vector keeps its buffer and what it begins with. Each action other than the
four excused ones keeps them: a `push_back` within capacity by definition, `create_entity`
since growing the vector of builders moves them and leaves their buffers alone, a move
since the buffers change owner and not their place. `c()` is the hard one: it clears
and refills the scratch vectors, and when nothing was queued since the last `c()` they have
the capacity for it, so that the old view reads the same values in the same places
(`AfterC`, `ValidAfterC`). Assumptions: a growing vector gets room for one more element at
least (`GrowAssumption`), the bound on calls is a natural number, the client uses some of
the lists.

`ExecutionEventsCollectorProofs`. `CollectorInv` adds to the types that a dispatch pointer
to the callback for any component has one, and `RunningDestroyedByOwnSlot`. The latter needs
`CallbacksLogged`: what a slot holds is a callback that no call has destroyed, so that an
event that starts it puts one on the stack that is still there. `DestroyedByCall` computes
what one more call destroys, and `CalledKeepsLog` compares that with what the call does to
the slots: `CollectorTypeCorrect`, `CollectorRunningDestroyedByOwnSlot`,
`CollectorAnyCallbackPresent`.
`DispatchInv` relates each slot to the history: each holds the last registration for it
since the last `clear()`, except that the callbacks for any component outlive `clear()` and
the dispatch pointer tells which of the two came last. By cases on what one more call does
to the last registrations, it is inductive (`DispatchInvariant`), and gives
`CollectorLatestRegistrationRuns` and `CollectorSnapshotComplete`.

`AsyncSessionProofs`, the collector alone, with any snapshots. `AsyncInv` has `SessionOffered` beside the properties: a
snapshot offers session events only while a session callback is set. That is why
`NeverThrows` holds although the trampoline tests another slot, and it is inductive only
since `clear()` does not reset the session slot. `LogAppended` computes the last
registration of a slot after one more call from the one before, by cases on whether the
call sets the slot, clears it or does neither; with it, `LatestRegistrationKept` is
inductive. From these, `AsyncTypeCorrect`, `AsyncNeverThrows`,
`AsyncRunningDestroyedByOwnSlot` (as for the other collector), `AsyncLatestRegistrationKept` and `AsyncSnapshotComplete`.

`ExecuteSystemsProofs`. `SystemsInv` has for each object that it hears what was registered
last or, if its callbacks were moved away, nothing (`ObjectInv`), that an object that is gone
is as a new one, and that every C collector, kept or in a call, refers to an object that
exists or is marked `lost` (`Referred`). Without the second conjunct, creating an object in
place of a destroyed one would not preserve the first. `Referred` holds of a new call since
`execute_systems` takes `c()` of an object that exists, and after a destruction since `Lose`
marks what referred to the object (`LoseReferred`); no guard keeps a callback from destroying
it. `SystemsTypeCorrect`, `SystemsHearsLatest`, `SystemsFailsOnlyIfMisused`.

`AsyncSessionProofs`, the session. `MembersStep` carries `AsyncInv` over to each step of
the session that is a step of the collector; the other one, the end of a flush, only takes
events from a snapshot: `SessionKeepsCollector`, whatever callbacks do, to themselves included. `SessionInv` adds two things. `SnapshotsCover`: what was
registered when a flush began, and has not been replaced or cleared since, is in its
snapshot; it makes `Deliver` drop nothing else, which is `SessionDropsOnlyUnregistered`.
`WaitingOnce`: a request is waiting exactly while the runtime has it or one event in the
queue reports it, never both and never two events; each action moves requests between
these places (`QueueGrows`, `QueueShrinks`). The two meet in `Deliver`, where an event that
reports requests may leave the queue unheard only if they may be called missed. From both
follows the refinement `SessionImplementsLedger`: since the ledger counts in `told`, a report
of a request that is not waiting would be a step it does not have. Assumptions: the bounds are natural
numbers and there is a snapshot for each depth.

`RuntimeQueriesProofs`. `NoOverrunInv` says at each step of a helper what its buffer is: a
size that was counted or given by a type is that of the runtime's list until something
changes, and enough until the list grows. `FormsWell`, `ChangedForms` and `QueryKinds` go through the helpers.
`QueriesNoOverrun`. `NamesInv` says that a helper which asks for names without checking
them has only ids the runtime still has, until something changes: hence
`QueriesDieOnlyOfUncheckedNames`. `ResultInv` says what the result holds between two lists
(`Gathered`), after the last one (`Complete`) and which elements nobody wrote
(`BlanksExcused`); `FillElements` is what one write adds, `AsWrittenConcat` puts the two
lists of `get_all_system_like_ids` together. `QueriesReturnWhatThereIs` follows. `MapsInv`
says of the elements of a helper that makes a map that those nobody wrote come last and
look like id 0; `insert` keeps the first of two elements with one id and `operator[]` the
last. That there is a first and a last one needs an argument, by well-foundedness of `<` on
the indices (`Smallest`, `Largest`). Hence `QueriesMapsKeepReal`. `TypesInv` adds
what the types need besides: that no more names were asked for than there are results, and
that a helper which checks them has one result at most: `QueriesTypeCorrect`.
Assumptions: lists of ids, sizes that are natural numbers, counts that report what was
written or the total.

`DylibProofs`. `DylibInv` adds to the types what a pointer may lead to while a reload is
under way: to the new library for names the host has gone through, to either of the two
for the others; and that both are in memory. `DylibTypeCorrect`, `DylibNeverDangling`,
`DylibReloadComplete`, and the action property `DylibHasFnTellsSettable`.

`CheckModuleHeaderProofs`. `HeaderInv` follows a header through a run: `methods` is what
was declared when it was scanned, before `Rewrite` the declarations before the marker are
still there and `methods` begins with them, afterwards the macro lists `methods`
(`StepInv`); what is done, what is left and the header in hand make up what was asked
(`WorkInv`); `exit_code` is zero only if no header that git compared so far differs from the
index, and at most the number of headers done plus one, for the missing path (`CodeInv`).
`StepInv` speaks of `erased` where the macro lists what the run has cut off.
`HeaderTypeCorrect`, `HeaderCheckedAreFixed`. `HeaderPassMeansUpToDate` needs no hypothesis on
clang-format or git: a run that ends anywhere but at the end of the loop is not done with all
its headers (`ExitPass`), and one that does get there returns `exit_code`, which is below 256
if there are fewer than 255 headers (`ReturnPass`). `HeaderRerunWritesTheSame`: by cases on the
step, which changes nothing of a header that the next run reads (`RegeneratedFrom`), except
that `Resize` takes the declarations after the marker. Assumptions: the headers are finitely
many, the marked and misplaced ones are among them, late functions are functions, statuses
are numbers, and a cut file is no list.

Only model-checked: the two liveness properties, which are out of the prover's reach, as
are `ENABLED` and induction over data; no module uses a `RECURSIVE` operator. Every
invariant and action property the passing runs check is also proved.

## 5. What is not modelled

- The runtime behind the C API, which is not in this repository: entities, components,
  system execution, what a session does with options. Where it is called, it may do what
  the headers allow.
- `any_component_view` (an id and a pointer that do not change), members of `registry` and
  helpers of `meta.hh` that cast an id and pass it on.
- `si::wasm`: `load`, `unload`, `reset` and the log helpers forward to a host that is not
  in this repository; only the sizing of its messages is modelled.
- The list of options in `execute_systems`: see `ExecuteSystems` above. That its length is
  cast to 32 bits has no behaviour over steps.
- The C headers (declarations and comments), tests and build files. Which modules the
  header macros and `cc_ecsact_dylib` allow is in `Dylib`.
- What a callback does with its captures after it has destroyed itself, and an older reference
  to a builder after the vector has grown: undefined behaviour the client is told nothing
  about, and which no code here avoids or handles.
- The text of headers: incomplete declarations, several markers in a file.

## 6. Plan

Done, in this order: ownership of registries; views of execution options; the two
collectors; the header tool; `execute_systems` with objects that come and go; the async
session and its ledger; the helpers; the dylib; theorems about all of these.

Left: the hazards in `PROJECT.json` that no property covers, each with its reason there
(references to builders, `bad_alloc` between the two vectors of a list, headers without a
marker).
