# A TLA+ model of obs-wsc

obs-wsc is a C library that lets a program control OBS Studio through the
obs-websocket plugin.  This directory models the part of it that is written
here (`src/src`), leaves the vendored libraries (mongoose, jansson, cheat, the
utilities of libobs) outside, and says of each property whether TLC checks it on
a small instance or TLAPS proves it for every value of the constants.

File names below are relative to `src/src` in the repository unless they start
with `tests/` or `deps/`.

## The system

| part | state | operations | modelled in |
|---|---|---|---|
| request protocol (`send.c`, `ev_handler` and `notify_request` of `obs_wsc.c`) | per connection: `first_active_request`, `request_count`, `ids`, `timeout`, `connected`, `poll_mutex` (`opaque.h:46-64`); per request: id, status, callback, links | `send_request` = `add_request` + `send_str` + `wait_timeout` + `remove_request`; `notify_request`; `wsc_set_timeout` | `WscRequests`, `RequestSpec` |
| connection life cycle (`obs_wsc.c`) | `thread_flag`, `connected`, `domain`, the mutex, `poll_thread`, the `mg_connection` | `wsc_connect`, `wsc_thread`, `ev_handler`, `wsc_disconnect` | `WscConnection` |
| ownership of JSON values (`messages/requests/*.c`, `send.c`, `ev_handler`) | reference counts; the static `data` of `ev_handler` | the request functions, their callbacks, `recv_json` | `WscJson` |
| request functions (`messages/requests/*.c`) | the result structure the caller passes | some forty functions that pack arguments, send, and copy the reply; `wsc_free` and the `wsc_free_*` functions | `WscCalls` |
| authentication (`obs_wsc.c`, `messages/requests/general.c`) | `wsc_auth_data_t`: required, salt, challenge, response | `wsc_auth_required`, `wsc_prepare_auth`, `wsc_authenticate`, `wsc_free_auth_data` | `WscAuth` |
| settings, `wsc_data_t` (`data.c`) | a sorted list of items; per item up to three values in one allocation; arrays; reference counts | create, set, set default, set autoselect, unset, clear, erase, apply, get, iterate, the operations of arrays, from and to JSON | `WscDataItem`, `LayeredValue` (the values of one item), `WscDataList`, `SettingNames` (the list), `WscDataTree` (what the values hold: nested objects and arrays) |
| dynamic arrays (`external/darray.h`, vendored) | array, num, capacity | push, insert, erase | contents as sequences in `WscDataTree` |
| ids, base64, byte buffer, Qt geometry (`util.c`, `external/base64.c`, `external/buffer.c`) | none | pure functions | ids: in `WscRequests` |
| memory, logging, files, platform, strings, hashes (`external/`) | an allocation counter | wrappers | effects only |

**How they interact.**  An application thread calls a request function
(`messages/requests`), which packs the data of the request into JSON and calls
`send_request`.  `send_request` draws a message id, sends a frame through mongoose,
links a `request_t` into the connection's list and polls its status every 2 ms.
One poll thread per connection runs `mg_mgr_poll`, which calls `ev_handler` for
every event: the answer of the handshake, a frame, the close.  A frame is parsed
and `notify_request` looks for the request with its id and runs its callback,
which copies the reply into memory of the calling thread.  `poll_mutex` guards the
list and the events; `connected`, `thread_flag` and the final read of
`rq->status` are used without it.  `wsc_disconnect` stops and joins the poll thread
and releases everything.  Settings are used by one thread at a time.

**What is hard here.**  Two threads change and walk one list; the answer may come
before the request is registered, in the very round in which the wait gives up,
after it, twice, or never; the connection can close between any two steps; the set-up
can fail half way and shares its clean-up with the ordinary end; references to JSON
values pass between packing, sending, parsing and callbacks; values in one
allocation move whenever another changes its size; the callback of an answer that comes
just too late still fills the caller's structure, which the caller then reuses; one
settings object may hold, or share values with, the one it is copied to.  `PROJECT.json` lists the
hazards one by one, at the lines where they bite.

**What makes it correct.**

- *Requests*: the callback runs only while its call is in progress; no request is
  freed while somebody waits for it or walks over it; `true` means that a reply to
  this very request was accepted; a call always returns; nothing is leaked.
- *Connection*: events are handled only between set-up and release; the thread does
  not outlive what it uses; only an answered handshake counts; both functions return;
  closed stays closed; a failed connect returns `NULL`.
- *JSON*: every release gives up a reference that the code owns, exactly once; a
  handler handles the reply it has received.
- *Request functions*: `true` means that the server has done it, with everything the
  caller gave; the memory of a result is neither lost nor freed twice; who repeats a
  call gets its answer.
- *Authentication*: the strings of one reply stay together; `true` from
  `wsc_auth_required` means that `wsc_prepare_auth` will work, `true` from
  `wsc_authenticate` that the server has accepted; who knows the password gets in.
- *Settings*: the three values of an item are independent; a get falls back from one
  to the next; all stay aligned and inside the allocation; an object has one
  reference per holder; the list stays sorted, and an application that runs through
  it meets every setting once, whatever happens to the list meanwhile; a copy shares
  nothing with its original; JSON that was written reads back as the same settings.

## Modules

| module | what it is |
|---|---|
| `RequestSpec` | abstract: what a thread that calls `send_request` is promised |
| `WscRequests` | requests over one connection; implements `RequestSpec` |
| `WscRequestsProofs` | theorems about `WscRequests` |
| `WscConnection` | `wsc_connect`, `wsc_disconnect`, the poll thread and the events |
| `WscConnectionProofs` | theorems about `WscConnection` |
| `WscJson` | who owns which JSON value |
| `WscJsonProofs` | theorems about `WscJson` |
| `WscCalls` | the request functions, on top of `RequestSpec` |
| `WscCallsProofs` | theorems about `WscCalls` |
| `WscAuth` | authentication, on top of `RequestSpec` |
| `WscAuthProofs` | theorems about `WscAuth` |
| `LayeredValue` | abstract: three values that are set and unset independently |
| `WscDataItem` | one item of a `wsc_data_t`, byte by byte; implements `LayeredValue` |
| `WscDataItemProofs` | theorems about `WscDataItem` |
| `SettingNames` | abstract: a set of names and handles that run through it |
| `WscDataList` | the list of items of a `wsc_data_t`; implements `SettingNames` |
| `WscDataListProofs` | theorems about `WscDataList` |
| `WscDataTree` | objects and arrays nested in each other, their references, copies and JSON |
| `WscDataTreeProofs` | theorems about `WscDataTree` |
| `MC*` | small instances for TLC |

Definitions named `X_Something` next to a definition `X` are faulty variants: what
the code would be with a plausible mistake.  Nothing uses them; `PROJECT.json`
names, for each property, a variant that breaks it.

### WscRequests

Threads are the members of `Callers` and `Poll`; a `request_t` lives in a heap cell
of `Addrs`, with its fields in the functions `id`, `status`, `next`, `prev`; `live` is
the set of cells that are allocated.  `pc[c]` is the place of a caller in
`send_request`, in the order of the code: `gen` (`util_random_id`), `pack`, `check`
and `send` (`send_str`), `add` (`add_request`), `start` and `loop` (`wait_timeout`),
`remove` and `unlink` (`remove_request`).  A critical section that does not loop is
one step guarded by `Unlocked`; the two walks over the list hold the mutex over
several steps, one per node, because what they meet there is the point.  What the
code reads without the mutex (`connected`, twice; `rq->status` in the return
statement of `wait_timeout`) is read in steps of its own.  `FrameArrives(i)` delivers a
reply to any id the server has ever received, so late, repeated and reordered
replies, or none, are all behaviours.  `CloseEvent` and `CloseFree` separate
`MG_EV_CLOSE` from the release of the `mg_connection`.

Use of a freed request is undefined in C.  A freed cell keeps its fields until it is
allocated again, so an access either sees those stale fields or faults (`Fault`).
`strs` and `ids` follow the message id strings: allocated, and remembered in
`conn->ids`.  `Collide` says whether an id may be drawn that is still allocated:
`util_random_id` wants to prevent it but compares the new id with the bytes of the
array's pointers (`util.c:48`), so nothing but the 62^16 possible ids does.

`RequestSpec` knows neither ids nor list nor clock: a caller's request is active or
not, a callback accepts only while it is active, and the result becomes true at
most once, while active and after an acceptance.  The mapping takes `phase` from
`pc` and `rq` and `accepted` from the history variable `okSeen`.

### WscConnection

`app` is where the application thread is in `wsc_connect` or `wsc_disconnect`,
`tpc` where the poll thread is in `wsc_thread`, `nc` the phase of the
`mg_connection`.  mongoose calls `ev_handler` from whoever is inside its poll
function, which is the poll thread or, in `mg_mgr_free`, the application thread
(`InPoll`).  Each of the three parts of the set-up can fail and then goes through
`wsc_disconnect` like an ordinary end, but with a thread, mutex or user data that
never came into being: `JoinNoThread` and `EvFault` are what happens then.  After
`wsc_disconnect` the model goes back to `none` and connects again.

### WscJson

Each caller and each poll thread has three cells: the object it built or parsed
(`top`), a value in it (`part`) and, for a caller, the request object of
`send_request` (`copy`).  A release at count 0 is a misuse; `misused` remembers which
kind of code did it, and the model stops there.  The request functions fall into
three patterns: *plain* (most of them), *stolen* (`wsc_broadcast_message` and
`wsc_set_scene_item_properties` release a value that `json_pack` has already taken),
*inverted* (`wsc_set_recording_folder` and `wsc_set_current_scene_collection` take a
successful pack for a failure).  Callbacks copy what they unpack, or also release
what they unpacked with `o` and therefore only borrowed.  `Reload` is the choice a
compiler has to reload the static `data` after a call or to keep what it has stored.
With several connections their poll threads are in `ev_handler` at the same time, each
under a mutex of its own, so that one may hand on or release the reply of another.
`crossed` remembers of every connection whether its last handler overlapped with another
one; a misuse in such a handler is put down to the `"race"`.  The properties claim
nothing of what handlers that overlap do to each other's replies, but everything of the
callers and of handlers that run beside no other.

### WscCalls

One thread calls one request function again and again, with arguments of its choice
and always the same result structure; `Requests` says of every function what makes it
differ.  `args` is what packing comes to for each kind of argument, decided by reading
the format next to the arguments: everything is sent, less than that, nothing
(`"stop"`), or the format asks for more arguments than were passed (`"wild"`).
`result`, `entry` and `release` describe the memory: whether the callback allocates,
whether the function looks at the structure first, and whether the function that frees
it resets it.  Between `Send` and `Return` the model uses the actions of `RequestSpec`,
which `WscRequests` implements, so that an answer may be accepted after the wait has
been given up (`GiveUp`, then `Deliver`).  The server answers in full, without the
optional part (`"bare"`), without a field the callback needs (`"short"`), with an
error, or not at all, but not twice: a reply that `notify_request` hands to the callback
again is in `WscRequests` only.  Double release and missing arguments stop the model
(`fault`).  `owed` remembers that a call has reported `true` for a result that has not
been freed since.

### WscAuth

`required`, `salt`, `challenge` and `response` are the fields of `wsc_auth_data_t`.  A
challenge and a salt are named by the session of the server they were made for, a
response by password, salt and challenge, so that a response mixed from two replies
can be told from a good one.  The application calls the four functions in any order
and with any password, and the server may replace its challenge at any moment
(`NewSession`).  `Protected`, `Half`, `Open` and `Bare` are the paths of
`auth_required_callback`; `Spent` is the release of the response at the end of
`wsc_authenticate`.  `lost` remembers what was overwritten without being freed, `again`
that `wsc_auth_required` was called with strings still in the structure.

### WscDataItem

Offsets count from the end of the item's name (`get_data_ptr`).  The bytes of a
value say which layer and which place of it they are, so that a value moved to the
wrong place, cut or overwritten reads differently.  `setdata`, `set_default_data`,
`set_autoselect_data` and the `unset` functions are the functions of the same names:
they compute the new lengths, grow the allocation, move the later values and copy
the new one in, in the order of the code.  `ensure_capacity` never shrinks.
`get_align_size` rounds up with a division where the code masks bits; the two agree
because alignments are powers of two.

### WscDataList

Items are cells with `name`, `next` and `ref`; `first` is `data->first_item`.  `hnd[h]`
is the item whose reference a handle of the application has.  A `Set` of a value that
does not fit moves the item to another cell (`brealloc`); the handle through which
it was set follows, other handles on that item keep the old address and become
`stale`: the application must not use them again, and the model does not.  The
application removes an item once (`Remove`), and it gives up the data only when it has
no handle left (`Destroy`); what happens otherwise is among the hazards.  `Stops` and
`Prev` are the search of `set_item_data`, which leaves out the last item's own name and
makes up for it with a comparison after the loop.  A walk along the links is written as
the least set that contains its start and is closed under them (`Walk`): a loop of the
code that follows `next` until `NULL` meets exactly these items, and unlike a recursive
definition this one can be reasoned about.

`SettingNames` knows a set of names and handles that stand on one.  A step leads to
the smallest larger name that is a setting at that moment, and nowhere if the
item the handle stands on has been removed.

### WscDataTree

`val` has the values of every item by object, name and layer, `elems` the elements of
every array, `type` is `item->type`, the one tag for all three values of an item; `refs`
are the reference counts and `app` the references the application owns.

The functions of `data.c` call each other along the tree: releasing the last reference
destroys an object, which erases its items, which releases what they hold; a copy
copies what it meets.  Their activations are frames on `stack`, and a step is one of
the function on top, between two calls that it makes: it does what the code does up to
the next call (a count, a value stored or taken away) and puts that call on the stack.
So a count can be looked at in the middle of everything, and a reference that is given
up before another is taken is seen.  `Releasing`, `Destroying`, `Erasing`, `Clearing`,
`Setting`, `Pushing`, `Applying`, `CopyingArray`, `AddingMembers` and `AddingElements` are
the functions; `Nested` and `Element` are the pattern by which a new object is filled,
stored and released, the same in `copy_obj`, `copy_array`, `wsc_data_add_json_object` and
`wsc_data_add_json_array`.  With an empty stack the application makes its next call
(`Call`); `call` remembers the settings at its outset.  `Json` is what
`wsc_data_get_json` writes: it leaves out defaults, null pointers and numbers that are
not finite.

Three calls are `odd`, and the model stops after one of them: a default object or array
set without a user value is not counted (`data.c:232`); a value of another type re-tags
the values of the other layers (`data.c:378`); an array appended to itself may be read
after it was moved.  Everything the model says holds up to such a call.  It also stops
when a function has used a freed object (`misused`), which is what must not happen.
Creation takes any free address; the instance simply has no step where it runs out of
them.

## What the runs check

| run | instance | shows |
|---|---|---|
| `requests_two_callers` | 2 callers, 2 cells, 3 ids, timeout 2 ms (two rounds) | `CountExact`, `OwnRequestKept`, `IdsKept`, `WalkSeesFrozenList`, `LateCallSendsNothing` and the refinement `ImplementsPromise` |
| `requests_one_caller` | 1 caller, 1 cell, 2 ids that may repeat, timeout changed to -1 under way | `ListSafe`; `CallReturns` under fairness |
| `connection_life` | 3 rounds in the wait loop, any number of connections one after the other | `InsideLifetime`, `NothingLeft`, `UpAfterHandshake`, `ClosedForGood`; `CallsReturn`, `ThreadEndsAfterClose` under fairness |
| `json_ownership` | 1 caller and the poll threads of 3 connections, all kinds of functions and callbacks | `TypeOK`, `OrdinaryCodeIsSafe`, `InUseIsAlive`, `NothingLeaks`, `OwnReplyHandled` |
| `object_references` | 2 objects, an array of one element, 1 name, user, default and autoselect values, 3 references of the application | `TypeOK`, `RefsExact`, `NothingFreedIsUsed` |
| `item_list` | 3 names, 4 cells, 2 handles | `TypeOK`, `ListSorted`, `RefsExact` and the refinement `IteratesInOrder` |
| `request_functions` | all functions of `messages/requests`, each in behaviours of its own | `TypeOK`, `TrueMeansDone`, `NothingLost`, `FreedOnce`; `RetrySucceeds` under fairness |
| `authentication` | 2 passwords, 3 challenges | `NothingLost`, `OneReply`, `TrueIsReliable`; `RetryAuthenticates` under fairness |
| `nested_settings` | 4 objects, 2 arrays of up to 2 elements, 1 name, user values, 5 documents, 2 references of the application | `RefsExact`, `ApplyCopies`, `RoundTrip` |
| `item_layers` | values of 1, 2 and 3 bytes, alignment 2 | `ValuesInPlace` and the refinement `LayersIndependent` |

Where TLAPS proves the type invariant for every value of the constants (`WscRequests`,
`WscConnection`, `WscDataItem`, `WscAuth`) the run does not repeat it; that
`send_request` reports `true` only after an acceptance (`ResultSound`) follows from
`ImplementsPromise` and is proved on its own too.

Two more runs end in a counterexample; they are the findings below.

**Bounds.**  Two callers are what it takes for requests to interleave; a request
holds one cell, so with two cells a freed cell is reused while another request is
active.  Three ids let a caller start again while a late reply to an earlier call
is still due: without collisions an id is used up for good, as in the code, so each
behaviour has at most three calls (`IdLeft` names this bound).  With one caller and
`Collide` true calls go on without end.  A timeout of two rounds has a first, a
middle and a last round of the wait loop; the default of 2000 ms only has more
middle rounds.  Three rounds in `wsc_connect` likewise.  Sizes 1 to 3 lie below, at
and above an alignment of 2; the proofs remove this bound.  In `object_references` two
objects and an array are one to hold the setting and two of different types to be held,
in any of its three values and replacing each other; `MaxApp` = 3 lets the application
hold all of them, or one of them twice beside its holder.  Counts are not bounded there
except by the holders.
Three names have a first, a middle and a last place for an insertion, a fourth cell
lets a full list move an item, and a removed item that a handle still keeps takes the
place of a name.  In `json_ownership` two handlers can overlap and a third run alone
before or after them, or overlap with one of them only; a caller shares nothing with another, so one is enough
there.  In `connection_life`, `item_list` and `item_layers` nothing else is
bounded.  In `request_functions` nothing is: a structure is empty, filled or freed, and
any number of calls comes back to one of these.  Three challenges are one that is old
when it is used, one that becomes old on the way and one that stays.  In
`nested_settings` four objects make a chain of four, or an original of two levels and its
copy; two arrays an array and its copy; one name makes a setting replace another, and
`MaxApp` = 2 is the references the application owns in all, enough to hold the target and
the source of a copy.  A document that would need more cells has no step.  Both runs
use symmetry in objects and arrays, `json_ownership` in connections.  The runs of `WscRequests`, `WscConnection`,
`WscJson`, `WscCalls` and `WscDataTree` allow deadlock because their system
may really stop: ids run out, the connection is closed, memory has been misused, or
the application has nothing left.

**Fairness.**  Callers and the poll thread are threads of the operating system that
keep running: their own steps are weakly fair.  Steps that take `poll_mutex` are
strongly fair (`Locking`): pthread mutexes promise no order, but the poll thread
sleeps 10 ms in every round outside the mutex (`wsc_thread`) and callers sleep 2 ms
in every round of `wait_timeout`, so a thread that waits for the mutex finds it free
again and again.  Neither an answer, a handshake nor a close is owed by the
server, and no new call by the application: liveness has to come from the timeouts.
In `WscConnection` the poll of `mg_mgr_free` closes what is left, which is mongoose's
code and not a matter of the network.

`WscCalls` and `WscAuth` assume of a call that it comes to an end, which
`CallReturns` of `WscRequests` shows, and of the server that it answers a request at
most once.  Their liveness properties say what becomes of an
application that does not give up, so that the application's retries and, of the
network, a timely answer now and then are part of the assumption (strong fairness);
that the wait also ends too early, that answers are incomplete, and that the challenge
changes again and again up to `MaxSessions` is not excluded.

## What is proved

TLAPS checks these theorems for every value of the constants.

`WscRequestsProofs`, for any set of callers, cells, ids and timeouts:

- `TypeCorrect`, `CountCorrect`: `request_count` is exactly the number of allocated
  requests.  Type correctness already needs this (a decrement must not go below
  zero), so the inductive invariant `TInv` joins `TypeOK` with it and with the fact
  that a caller past `util_random_id` holds an id.
- `OwnRequestIsKept`, `ResultIsSound`, `RequestsImplementPromise`: under the
  assumption `~Collide`.  `IInv` adds that ids in use are allocated and differ
  between callers, that a caller's pointer leads to a live request with its id, and
  that status, result and `okSeen` agree.  It says nothing of the links between the
  requests, which do break (see the findings): what a caller is promised holds
  although the list may dangle, as long as nothing faults.
- `SingleCallerListSafe`: with one calling thread no pointer of the list ever leads to
  freed memory, even if ids repeat.  `SingleInv`: the list is empty or holds just the
  caller's request, and both cursors are `NULL` or at the head.
- `ListSafeUntilHeadLost`: with any number of callers and even if ids repeat,
  `remove_request` taking the head off while another request is active (`HeadLost`) is
  the only way any pointer of the list comes to lead to freed memory; this says that the
  second finding below is the one flaw of the list.  The theorem is about the behaviours
  without such a step.  `ListInv`: active requests are doubly linked among themselves
  and the head is the one without a predecessor (`LinksInv`); only a walk under way has
  a cursor in the list (`CursorsInv`), and it holds the mutex, so that an unlink finds no
  cursor but its own; and the counter is exact, so that it is reset with the last
  request and not before.
- `RegisteredRepliesAreFound`, `NoRequestIsLeft` (with `~Collide`, and as long as the head
  has not been lost): a reply to a registered request is never dropped, so that the gap
  of the first finding is the only place where replies get lost, and no request stays on
  the list when its call has returned.  Both need that a walk misses nothing: a set that
  holds the head and that the links do not leave is the whole list (`CoversInv`), and one
  that holds the cursor of a walk has every request the walk looks for (`AheadInv`).
  `OwnedInv` gives each registered request to one call.
- `IdsAreKept`, `WalksSeeFrozenList`, `LateCallsSendNothing`: no id is lost while the
  connection is up, nobody changes the list under a walk, and a call that comes late
  writes nothing to a freed connection, for any callers and even if ids repeat.
  `WalkInv` adds to `TInv` that whoever walks holds the mutex (`MutexInv`), that
  `connected` is reset before the `mg_connection` is freed (`ClosedInv`), and that an id
  not yet in `conn->ids` belongs to a call that is on its way to `add_request`
  (`StrsInv`): `IdsKept` itself, which any call in progress satisfies, is not inductive.
- `WalksMakeProgress` (as long as the head has not been lost, even if ids repeat): each step
  of a walk strictly shrinks the set of requests that the walk still reaches, so both
  critical sections that loop come to an end.  `LoopFree`, in place of a rank that would
  have to be counted: behind every request lies a set that the links do not leave and that
  does not hold the request.
- `OnlyTheCloseIsDangerous` (with `~Collide`, as long as the head has not been lost): the
  poll thread touches no freed memory, a caller only in `send_str` when the `mg_connection`
  has been freed since its check, and the program crashes for no other reason.
- `WaitIsBounded`: the clock of `wait_timeout` goes at most one round beyond the timeout
  it read, whatever `wsc_set_timeout` does meanwhile, and even in a program that already
  uses freed memory.

`WscConnectionProofs`, for any length of the wait: `TypeCorrect`, `HandlerIsReady` and
`ThreadStaysInside` (together `StaysInsideLifetime`), `NothingIsLeft`, `ConnectedAfterHandshake`, `ClosedStaysClosed`.
The inductive invariant says where the application thread can be for each state of
the poll thread (`ThreadInv`), what has been set up (`SetupInv`) and released
(`ReleaseInv`), and that the flags agree with the phase of the connection
(`FlagInv`).

`WscDataItemProofs`, for any sizes of values and any alignment: `TypeCorrect`,
`StaysInside`, `StaysAligned`, `GetIsCorrect` (together `ValuesStayInPlace`) and
`LayersAreIndependent`, the refinement
of `LayeredValue`.  The invariant has two parts: `Layout` (a value followed by another
takes an aligned room, an absent one no room) and `Fits` (each value that is set lies
at its place, inside the allocation).  Each operation is shown to keep them with
lemmas on what growing, moving and copying do to a value at a place.

`WscDataTreeProofs`, for any objects, arrays, names, layers, documents and bounds
(`CellsAssumption`, `ScalarsAssumption`, `LayersAssumption`, `BoundsAssumption`; cells and
names are finite because counts are cardinalities): `TypeCorrect`, `CountsAreExact` and
`NothingFreed`.  That counts are exact (`Balanced`) and that free cells hold nothing
(`FreeBlank`) is not inductive: with exact counts a function in the middle of a tree
might still work on an object that somebody else gives up.  `FramesInv` says what every
frame of the stack relies on (`Fits`).  What is being filled is new: it has one
reference, and a frame further down is going to release it (`Fresh`).  What is stored is
owned by the application or by the frame below (`Given`).  What is copied is the
application's, or held by something that a frame below is copying (`HeldBelow`); that is
changed by nobody meanwhile, because what is stored into is fresh, or is the application's
own target at a moment when no nested copy is under way.  What is destroyed has no references left, so
nobody who relies on one can mean it.
The proof goes frame by frame: a step of the top keeps the frames below fitting because it
changes only what is fresh to it or what it was given (`FramesContinue`), the calls it makes
fit (one lemma per function), and a step that keeps the frames keeps the counts
(`SoundStep`).  A count is the cardinality of a set of places; the lemmas at the start say
what one changed place, one appended or removed element, and one pushed or popped frame do
to it.

`WscAuthProofs`, for any passwords and any number of challenges: `TypeCorrect`,
`NothingIsLost`, `ResponseOfOneReply`, `AskedIsReady` and `TrueIsAuthed` (together
`ResultsAreReliable`), from
`PasswordAssumption` and `SessionsAssumption`.  The invariant says that challenge and salt come
and go together and never beside a response (`DataInv`), which replies can be under
way for which call (`CallInv`), what an accepted reply has left behind (`ReplyInv`), and
that strings still in the structure were noted when `wsc_auth_required` was called
(`LossInv`).  `DataInv` is what keeps a response from mixing two replies: both strings
are unpacked before either is stored.

`WscJsonProofs`, for any number of callers and connections and any choice of request
functions and callbacks: `TypesHold`, `OrdinaryCodeStaysSafe`, `ValuesInUseStayAlive`,
`NothingEverLeaks` and `OwnReplyIsHandled`, from `KindsAssumption` and
`ThreadsAssumption`.  The invariant gives the exact counts of a thread's three values at
each of its places (`CallerInv`, `ConnInv`, the latter for handlers beside which no other
runs).  `ReplyInv` says that handlers which are inside at the same time have all noticed
it (`crossed`), and that the static variable of `ev_handler` is then the reply of this
connection or one whose handler was beside another: this is why a step that takes the
wrong reply (`Racing`) changes the counts of such a reply only, never those of a caller
or of a handler that runs alone.

`WscCallsProofs`, for any choice of request functions (`UsedAssumption`): `TypeCorrect`,
`TrueIsDone`, `NoResultIsLost` and `ResultsAreFreedOnce`.  What the proofs need of the thirty
odd entries of `Requests` is one condition, `Sound`, shown for each table of entries and
then for their union (`RequestsSound`).  The invariant relates the place of the call to
what was packed, sent and accepted (`CallInv`), says that a result the callback would
overwrite was looked at before (`MemoryInv`), and that a call which can still report
`true`, or has, no longer has the pointer freed before (`OwedInv`).

`WscDataListProofs`, for any names, cells and handles (`NamesAssumption`,
`CellsAssumption`, `HandlesAssumption`; cells and handles are finite because counts are
cardinalities): `TypeCorrect`, `ListStaysSorted`, `RefsStayExact` and
`IterationIsComplete`.  It starts with walks along any links: a walk is the least closed
set (`WalkLeast`), so what holds of every item is proved by naming a set with the two
properties of `Closed`.  From ascending names alone follow the facts that a reader takes
for granted of a list: it has no loop, no name twice, and the next item is the least that
is greater.  Four lemmas say what prepending, inserting, unlinking and moving an item do
to a walk.  The invariant is that live items of the list ascend (`SortedInv`), that counts
are exact (`RefsExact`), and that an item that has left the list leads nowhere
(`AloneInv`): without the last a handle that still holds a removed item could go on from
it into the list, and `SettingNames` says that it stops.  The refinement is then one lemma
for each operation, in terms of the set of names only.

Only model-checked: liveness (`CallReturns`, `CallsReturn`, `ThreadEndsAfterClose`,
`RetrySucceeds`, `RetryAuthenticates`), which is outside the reach of TLAPS, and
`ApplyCopies` and `RoundTrip` of `WscDataTree`: they compare whole trees (`Content`, `Json`),
and what a recursive definition computes for every tree needs an induction that the
provers cannot instantiate.  The other properties of the runs are all stated by a theorem.

## Findings

Each has a run that ends in a counterexample.

1. `reply_before_registration`: the frame is sent before the request is registered
   (`send.c:120-121`); a fast reply is dropped and the call times out.
2. `dangling_list_head`: removing the head while another request is active leaves
   `first_active_request` on freed memory (`send.c:80`).  When the allocator hands out
   the same cell again, `add_request` links the request to itself (`send.c:56`), and a
   walk for another id then never ends, with the mutex held.

Deviations met while reading that have no run of their own:

- The fail path of `wsc_connect` joins a thread that may never have been created
  (`obs_wsc.c:235`, `JoinNoThread` in `WscConnection`), which is undefined, while
  `obs_wsc.h:36` promises `NULL` on error.
- Callbacks of the list requests release an array that they only borrowed from the
  reply (`messages/requests/profiles.c:99`, `scenes.c:97`, `outputs.c:74`, `100` and `122`),
  against jansson's documentation of `o` in `json_unpack`
  (`deps/jansson/doc/apiref.rst:1367-1371`).  `OrdinaryCodeIsSafe` excepts them.
- The static `data` of `ev_handler` is shared by the poll threads of all connections
  (`obs_wsc.c:98`): handlers that run at the same time may handle or release each
  other's reply.  `OwnReplyHandled`, `InUseIsAlive` and `NothingLeaks` say that nobody
  else suffers from it, and `OrdinaryCodeIsSafe` excepts it as `"race"`.
- The round of the wait loop that finds the answer still adds to the clock
  (`send.c:194`), so an answer accepted in the last round is reported as a failure
  (`send.c:202`), against `opaque.h:29-34`.
- When the connection closes between the check of `send_request` and that of
  `send_str`, the copy of the message id is neither in `conn->ids` nor freed
  (`send.c:124`); `tests/wsc_test.c:119` expects that nothing is left allocated.
- A timeout of -1 is documented as "no timeout" (`obs_wsc.h:56`), but the first test of
  the wait loop fails with it (`send.c:183`): the call gives up at once.
- `obs_wsc.h:60` declares `wsc_set_timeout`; `obs_wsc.c:210` defines
  `obs_wcs_set_timeout`.
- `wsc_broadcast_message` (`messages/requests/general.c:246`) and
  `wsc_set_scene_item_properties` (`scene_items.c:99`) release a value `json_pack` has
  taken.  The latter also packs a string that is always `NULL` (`scene_items.c:77`) and
  so never sends its request.
- Five request functions never report `true` (`Hopeless` in `WscCalls`).
  `wsc_set_recording_folder` (`recording.c:55`) and `wsc_set_current_scene_collection`
  (`scenes.c:41`) test the result of packing the wrong way round, so that nothing is sent
  and the packed value leaks, while `tests/wsc_test.c:85` expects success;
  `wsc_set_stream_settings` and `wsc_get_stream_settings` have an unbalanced format
  (`streaming.c:126`, `149`); `wsc_set_scene_item_properties` is the one above.
- `wsc_start_streaming` has the same unbalanced format and falls back to a request
  without the settings it was given (`streaming.c:48`).
- `wsc_open_projector` passes neither monitor nor geometry and is always refused
  (`general.c:263`, `269`); without a geometry `wsc_open_projector2` packs two strings that
  it does not pass (`general.c:288`).
- A call that reports failure may have been carried out, and its late answer accepted.
  A getter that wants a pointer to `NULL` then refuses every repetition until the caller
  frees what it did not ask for; a function that toggles (`wsc_toggle_streaming`, ...)
  toggles back when it is repeated; the list functions, which do not look at the structure, lose
  the first answer.
- `wsc_free_profiles` and `wsc_free_outputs` keep the pointer they have freed, and
  `wsc_free_output` the settings (`profiles.c:65`, `outputs.c:25`): a second call frees again.  `FreedOnce` says that
  it takes an application which frees without a new `true`, after a call that failed for
  instance.
- `json_unpack` stores an `int` for `b` where the fields are one byte, and for `i`
  where counts are 64 bits wide (`outputs.c:48-51`, `general.c:56`, `streaming.c:67`).
- `util_qt_geometry_string` does not free its buffer (`util.c:60`).
- When `wsc_auth_required` is called with strings still in the structure, as after a
  late answer, the old ones leak (`general.c:62`); it can report `false` and yet have
  filled or kept them.  `wsc_authenticate` frees the response also when it fails
  (`general.c:36`), so that a retry starts over.
- `util_random_id` compares the new id with pointers (`util.c:48`); if it ever saw a
  repeated id, it would not start over with the next one and its loop would not end.
- In `data.c`, a default object can be released more often than it was taken
  (`data.c:232`), a value of another type makes the item's other values read and released
  as what they are not (`data.c:378`), `wsc_data_item_numtype` reads through `NULL` for a number that has no
  value left (`data.c:1403`), `wsc_data_item_get_default_obj` reads the current value
  (`data.c:1626`), an array appended to itself is read after it was moved
  (`data.c:1230`, `external/darray.h:206`), a JSON document that is an array reads as an
  empty object, and a second `wsc_data_item_remove` gives up the reference of the
  handle (`data.c:1387`).

## Not modelled

- The vendored libraries.  mongoose and jansson appear as far as this code
  relies on them: the order of events, `MG_EV_CLOSE` before the release of the
  connection, `mg_mgr_free` polling once more, and reference counts.
- The wording of requests and replies, and fields that a callback only copies.
- Of `data.c`: reading a value as another type, the text that `wsc_data_get_json` keeps
  in the object, an index outside an array, and
  objects that hold themselves, which no function of the library can release.
- `unpack_scene_item_properties` and `scene_item_properties_callback`
  (`scene_items.c:22-67`), which nothing calls.
- Calls that overlap with `wsc_disconnect`: the header does not allow or forbid them;
  they would use a freed connection at every step.
- The send buffer of mongoose, which callers fill under `poll_mutex` and
  `mg_mgr_poll` drains without it.
- `wsc_send_request` (a stub, `obs_wsc.c:330`) and `data.c:1664-2068`, which is not
  compiled.

## Plan

In this order.

1. A composition of `WscConnection` with `WscRequests`: requests across the close and
   the reopening of a connection.
2. Reading a setting as another type (`wsc_data_item_get_int` and its like), with the
   missing value of `data.c:1403`.
