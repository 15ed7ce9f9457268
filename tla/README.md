# surrealdb.cpp: models, checks and proofs

surrealdb.cpp is a header-only C++17 wrapper over the C SDK of SurrealDB
(surrealdb.c, a static library that is not part of the repository). Almost all
its code is about five things: *who owns which C handle and when it may still be
used*, *what a return code of the C library means*, *what other threads may be
doing meanwhile*, *how data is built out of blocks the C library allocates*, and *how a
query text is put together so that it cannot be malformed*. These are what the modules
here model.

Paths below are relative to `src/src/surrealdb_cpp/include/surrealdb/` unless they
begin with `src/`.

- [The system](#the-system)
- [Modules](#modules)
- [What is checked](#what-is-checked)
- [What is proved](#what-is-proved)
- [Where the code and its documentation disagree](#where-the-code-and-its-documentation-disagree)
- [What is not modelled](#what-is-not-modelled)
- [Plan](#plan)
- [Running it](#running-it)

## The system

### Components, their state and their operations

| Component | State | Operations | What makes it correct |
|---|---|---|---|
| `connection` (`connection.hpp`) | `db_`, an owned `sr_surreal_t`; `alive_`, a shared liveness token; `poisoned_`, a shared atomic | `connect`, `fork_session`, `new_session`, `disconnect`, moves, destructor; some thirty calls of one shape (`track(invoke(...))`); `live`, `kill`, `begin` | every handle released once; the token lives exactly as long as some session of the engine may; a fatal error is known to all sessions of the engine |
| `stream` (`stream.hpp`) | `handle_`, a weak view of the token, the poison cell, `done_`, `failed_`/`failure_`, the query's id | `next`, `next_for`, `try_next`, the iterator, `close`, moves, destructor | never frees a reader on a runtime that is gone; every event once and in order; an end is an end and a timeout is not |
| `transaction` (`connection.hpp`) | a raw `sr_transaction_t*`, a weak view of the token, the poison cell | `query`, `commit`, `cancel`, move constructor, destructor | the handle, which commit and cancel consume even when they fail, is consumed once and only on a live runtime |
| `rpc` and `rpc_stream` (`rpc.hpp`) | an owned context, token, poison cell; an owned notification channel, `done_` | requests, `notifications`, `disconnect`, destructors; the reads, the iterator, `close` | another thread parked in `next()` is released by the teardown, is told the truth, and its channel is not freed after the context |
| `owned`, `owned_span` (`detail/owned.hpp`) | a handle, or a pointer and a length | move, assign, `reset`, `release`, destroy | one owner per handle |
| `error`, `result`, `invoke` (`error.hpp`, `detail/invoke.hpp`) | code, message and whose allocator the message is from; a union of value and error | adopt, local, move, assign over either alternative, `value() &&`, `error() &&` | each message freed once and by its own allocator; a failure keeps a code |
| `query_results`, `statement_result` (`results.hpp`) | an owned array of statements, borrowed views | `checked`, `first_error`, `single` | a failed statement is never read as an empty table |
| `poll`, `to_timeout_ms` (`poll.hpp`) | three states; none | conversion of a duration | a bounded wait stays bounded, and stays a wait |
| `runtime_init`, `engine_started` (`options.hpp`) | one process-wide atomic | `runtime_init`, every `connect` | settings that come too late are refused, not ignored |
| query DSL (`dsl/*.hpp`) | `arena`: text, bound values, depth, latched failure; guards: an offset, a depth, a joiner | clauses, conditions, nested groups, `build` | what `build()` hands out is a statement, or an error |
| options (`options.hpp`) | settings, two strings and three sets of names | `to_c()`, the view every connect takes of them | what the view points to is there for as long as the call |
| objects, arrays, `make` (`object.hpp`, `array.hpp`, `make.hpp`) | builders, owned values, `bound`s and lists of keys, each with at most one block of the C library | `set`, `push`, copies, nesting, `release`, moves, destruction | each block one owner and freed once; what is written is kept; no C call is given a block that is gone |
| values, geometry (`value.hpp`, `geometry.hpp`) | none: borrowed views | one tag tested, one member returned | nothing with an order of steps |
| capabilities, formatting, configuration | plain data | setters | none with an order of steps |

### How they interact

A `connection` hands its token (as a weak pointer) and its poison cell (as a shared
one) to the streams and transactions it opens, and shares both with its forks. The
C library counts the session handles of an engine and shuts the runtime down with
the last; streams and transactions run on that runtime without keeping it up, so
*the token is the only thing that tells them whether they may still call*. An `rpc`
does the same for its single `rpc_stream`, with the difference that the stream is
meant to be read by another thread. Every call goes through `invoke()`, which makes
a `result` out of a return code, an out-parameter and a message; `track()` looks at
the result and latches the poison cell. Queries built with the DSL end in a text and
an object of bound values that `connection::run()` passes on.

### What is hard

- **Teardown order.** Connection, streams, transactions and forks are destroyed in
  any order; moves and early `disconnect()`/`close()` calls multiply the orders.
- **Two threads around one rpc context**: the token is read, the context freed and
  the channel freed in separate steps.
- **Codes that changed meaning**: in surrealdb.c 0.3.0 `SR_AGAIN` and `SR_CLOSED`
  changed places; a mix-up abandons a healthy stream or spins on a dead one.
- **Consumption on failure**: `sr_commit` and `sr_cancel` consume what they are given
  even when they fail.
- **Two allocators** of messages, in objects that are unions and are moved around.
- **Offsets into a buffer that is rewound**: DSL guards, each with its own idea of what
  is open inside it.
- **A process-wide flag** that is tested and acted on in two steps.
- **A view with pointers into itself**: the C struct of the options is returned by value
  next to the strings it points to.
- **Calls that consume, replace or read what they are given**: an array that is pushed one
  of its own elements, an object nested in itself, a `bound` used twice.

`PROJECT.json` lists each of these as hazards with the line where it bites and the
properties that watch it.

## Modules

| Module | Models | Abstract / detailed |
|---|---|---|
| `Lifecycle` | `connection`, `stream`, `transaction`, `owned<>` over a table of C handles | implements `HandleProtocol` |
| `HandleProtocol` | what the wrapper promises the C library about handles | abstract |
| `StreamReader` | one live query read by one thread, against a datastore that publishes, kills and fails | implements `Feed` |
| `Feed` | what a live query promises its consumer | abstract |
| `Timeouts` | `to_timeout_ms`; used by `StreamReader` | algorithm and reference |
| `RpcContext` | `rpc` and `rpc_stream` on two threads | |
| `Startup` | `runtime_init` against `connect` on several threads | |
| `OptionsView` | the options, the C view a connect takes of them, and where what it points to is stored | |
| `Outcome` | `error`, `result`, `invoke`, `query_results`, `statement_result` and their memory | |
| `Dsl` | one SELECT, through guards or the fluent surface | |
| `Builders` | `object_builder`, `array_builder`, `owned_value`, `bound`, `object_keys`, `array_from`, `make::` over the blocks of the C library | |
| `MCLifecycle`, `MCOutcome`, `MCStartup`, `MCBuilders` | instances for TLC (symmetry); `MCStartup` explores `Startup` and `OptionsView`, which share no variable, each while the other rests | |
| `LifecycleProofs`, `StreamReaderProofs`, `RpcContextProofs`, `StartupProofs`, `OutcomeProofs`, `DslProofs`, `DslGrammarProofs`, `BuildersProofs` | theorems | |

Definitions that begin "Mutant of" are plausible bugs of the definition after them.
They take part in no specification; each is a change under which the property paired
with it in `PROJECT.json` must fail.

### Lifecycle

The C library is a table: `hstate[h]` says what became of handle `h` and `heng[h]` on
which engine it was opened. `RuntimeUp(e)` is its reference count: some session
handle of `e` is open. `conn`, `strm` and `tx` are the C++ variables, as records of
their members; a moved-from, destroyed and default-constructed variable is empty. A
token and a poison cell come into being together, once per engine, so both are named
by the engine; `Expired(token)` is `weak_ptr::expired()`: no connection object holds
it. One action per operation: `Connect`, `Fork` (also `new_session`), `ConnCallFatal`
(any of the data calls: a call that does not fail fatally changes nothing here),
`Disconnect`, `DestroyConn`, `MoveConn` (memberwise move assignment, and move
construction when the target is empty), `Live`, `ReadEvent`, `ReadEnd`,
`CloseStream`, `DestroyStream`, `MoveStream`, `Begin`, `TxQuery`, `TxFinish` (commit
and cancel), `DestroyTx`, `MoveTx`. Calls that reach a runtime already shut down are
recorded in `deadCalls`; nothing else is said of what they do.

Some things describe the client, not the code. `careful` and `orderly` are chosen at
the start and never change, so one run has every kind of client. A careful one neither
calls `disconnect()` on an object it keeps nor move-assigns onto a stream that still
owns a reader; an orderly one lets a connection go only when nothing borrows its
engine, which is what the comments of `stream.hpp` ask for. The constants
`MayDisconnect` and `MayAssignOver` take one of the two liberties away from every
client: the two violation runs show with them that either is enough.

`HandleProtocol` is the same story without objects: a handle is opened, and closed
once while its engine is up, or abandoned once its engine is down. A handle that no
object holds and that was not given back is mapped to "abandoned".

### StreamReader, Feed and Timeouts

A read is two steps, `CReturn` (the C library decides on a code) and `Return...` (the
wrapper acts on it), because the datastore may publish, kill or fail in between.
`way` is which read it is: `next`, the iterator (a `next` whose failures the caller
does not see), `next_for` or `try_next`. Events are counted, not named: the channel
is first in first out. `Feed` knows only events sent, events delivered, whether the
query is registered, whether the source has failed and what the consumer has been
told; timeouts and codes are stutters of it.

`next_for` hands its duration through `ToTimeoutMs`. A duration counts ticks of which
there are `TicksPerMs` in a millisecond, an `int` ends at `MaxMs`; the C library
refuses a negative wait with `SR_ERROR` (`Faults`), so a conversion that wraps makes
a healthy stream fail. `Covers` is the reference definition. A NaN count is left out.

### RpcContext

Every step is one access to what the two threads share. `Disconnect1`/`Disconnect2`
and `Destroy1`/`Destroy2` are the two statements of `disconnect()` and the two
members the destructor drops, in their real (opposite) orders; `RetireTest` and
`RetireFree` are the test of the token and the free in `close()` and the destructor
of `rpc_stream`. The context's thread makes requests and tears down, the reader's
thread reads in a loop and retires its stream, or assigns another over it
(`AssignOver`), which frees the channel whatever the token says. `ended`, `raced`,
`replaced`, `deadFree`, `fatal` and `told` are history variables: how the teardown was
made, whether it began between the reader's test and free, whether a stream was assigned
over, whether a channel was freed after its context, whether some call returned
`SR_FATAL`, and the answers the reader was given.

### Startup

Threads that call `runtime_init` (load of the flag, then `sr_runtime_init`) and
`connect` (store of the flag, then the opening, which builds the process's pool from
the variable and may fail before or after doing so). `late`, `overlap` and `ignored`
record what happened around each thread's last `runtime_init`.

### OptionsView

One caller that sets up its options, connects, changes them and connects again. `wanted`
is what the options say of each field: at most one text of a directory, any names of a
target set. `mem` says what is stored in each place: in a string of the view, which is in
the frame of `to_c()` or in that of `connect()`, or in a block of the heap. `ptr` is the C
struct. A connect is five steps: the view begins to exist (`EnterToC`), gets its strings and
lists and is pointed at them (`FillView`), is returned (`ReturnView`), is read by the C
library (`OpenEngine`, into `seen`) and ends with the call (`LeaveConnect`, also where a copy
in `to_c()` found no memory). `elided`, chosen at the start, is the compiler's choice to
build the returned `c_view` in the frame of `connect()`, which the language allows and does
not require. Where it does not, `ReturnView` moves the view as the members of `c_view` are
moved: blocks of the heap are handed over, the characters of a short string are copied and
those in the frame of `to_c()` are gone, and the pointers of the struct stay as they are.
What is lost follows from these steps; no step names it.

### Builders

A variable of any of the types that own data is a pointer in `held`; the blocks the C
library has allocated are `heap`, and what a block contains comes down to `size`, the
writes that went into it. `tag` and `armed` are the members of a `bound`; `asked` is what
the client wrote into each builder, wherever it was moved since. One step is one call of
the client: `set()` with its four ways to get a value, `push()` of a fresh value or of an
element of some array, its own included, nesting of builders by value, `release()` and
adoption, copies, moves, destruction, `included()`, `excluded()` and `range()`. The order
of what a call reads and frees is part of its step: each C call is judged against the
heap as it is then, and `stray` records one that is given a block that is gone. The C
library may refuse to allocate wherever the code looks at its answer: a value boxed for
`set()` or `push()`, the wrapper of a nested object, the longer copy of an array, a value
of `make::`, the copy of an array.

### Outcome

Objects of four types are cells that hold nothing, a value or an error; memory is a
set of blocks with the allocator each came from. The actions are the outcomes of
`invoke()`, every move (construction, assignment over either alternative and over
itself, taking a result apart and making one), the default constructors (`Default`),
destruction, and `checked()`, `first_error()` and `single()` over every batch of statuses.
`blank` is history: which objects hold an error that comes from no failure, since it was
default-constructed or is that of an invalid statement. It travels with every move.

### Dsl

The text is a sequence of tokens (keywords, joiners, parentheses, conditions); names,
values and white space are left out, and a token that carries a placeholder is one of
`Binding`. Guards that are alive form a stack, as scopes do, and the client may write
through any of them. `misplaced`, `badName` and `liberties` are history: a checked
write through an object with another open inside it, a bad identifier, and what the
client did that no check looks for.

## What is checked

States are distinct states of the run as checked here. All runs are exhaustive.

| Run | States | Question |
|---|---|---|
| `lifecycle_any` | 335,626 | whatever the client does: one owner per handle (`SoleOwner`), the guard never refuses early (`GuardComplete`), nothing is lost while its engine is up (`AbandonedOnlyWhenDead`), a connection is poisoned exactly when its engine reported SR_FATAL (`FatalIsShared`); for a careful client, in any order of destruction, a token that is held implies a runtime that is up (`TokenGuards`) and the objects implement `HandleProtocol` (`KeepsProtocol`); for an orderly one no call at all reaches a dead runtime (`OrderedTeardownIsClean`) |
| `lifecycle_disconnect`, `lifecycle_assign` | violations | each of the two liberties alone makes a stream kill its reader on a dead runtime |
| `reader` | 16,100 | the reader implements `Feed`; a clean end has seen everything; every wait is as asked (`WaitsAsAsked`); a parked reader is released; a loop notices the end |
| `rpc_any` | 27,512 | any teardown against any point of the reader's loop: leaks and ends are explained by the teardown, SR_FATAL is known to both threads, the destructor's order keeps the channel from being freed late (`DestructorKeepsFreesOff`), and the reader is released (`ReaderIsReleased`) |
| `rpc_disconnect` | violation | `disconnect()` frees the context before it drops the token |
| `startup` | 224,264 | settings that come too late are refused (`LateIsRefused`), and are ignored silently only if a connect began in the middle of the call (`IgnoredOnlyInARace`); and the C library reads what the options say in every field of every connect, but for a short directory in a build that moves the view (`OnlyCopiedShortStringsAreLost`) |
| `options_moved` | violation | that one is lost: the C struct still points into the frame of `to_c()` |
| `outcome` | 89,577 | every block is freed once, by its own allocator (`FreedRightly`), and has one owner until then (`OneOwner`); an error says ok exactly if it comes from no failure, wherever it was moved (`FailureHasCode`); rows come from statements that succeeded |
| `dsl` | 657,323 | what is built is a statement (`WellFormed`, `Balanced`), a write is refused exactly if it was misplaced or misnamed (`FailureIsDeserved`), placeholders and values match, recorded offsets stay true (`MarksAreTrue`) |
| `builders` | 38,700 | every block has one owner and is freed once (`SoleOwner`), none is lost (`NothingLeaks`), no C call is given one that is gone (`OnlyLiveBlocksAreGiven`), and a builder holds what was written into it (`NothingWrittenIsLost`) |
| `dsl_empty_group` | violation | a group left empty after a condition leaves a dangling joiner |

### Bounds, and why they are enough

- **Lifecycle**: 2 engines, 3 session handles, 2 readers, 1 transaction handle; 2
  variables of each type. Two engines are needed for a token to be mistaken for
  another's, three sessions for a fork of a fork or a fork that outlives its parent
  while the other engine is up, two readers and two variables for moves and
  assignments over a live object. Handles and engines are not reused, which is what
  makes a use after free visible. Names of one kind are interchangeable (symmetry).
- **StreamReader**: 3 events, so that one is delivered, one queued and one published
  late; `MaxMs = 3` and `TicksPerMs = 2` with durations from -9 to 9 ticks: below
  zero, zero, less than a millisecond, fractions, exactly `MaxMs`, past it, and past
  the point where an int of this width wraps to a negative number (8).
- **RpcContext**: 3 notifications in the channel; the threads are fixed at two because
  a context has one notification channel and the comments give it one reader.
- **Startup**: 3 threads with 2 calls each and 2 sizes: two callers of `runtime_init`
  and one of `connect`, each of which can come back. Threads are
  interchangeable (symmetry).
- **OptionsView**: the two directories there are and two of the fourteen target sets, which
  are alike; one short and one long text, two names; any number of connects.
- **Builders**: 4 blocks; 2 objects, 2 arrays, 2 bounds, 1 value and 1 list of keys; at
  most 2 writes in a block. Two of a type are needed to move, nest and copy between
  them, and for an object or array to be given itself; the fourth block is the copy that
  is made while the other three are held. Two writes tell a lost write from one that
  was kept. Blocks and variables of one type are interchangeable (symmetry).
- **Outcome**: 3 blocks, 2 results and one object of each other type, 2 statements, one
  failing code: enough for an assignment of an error of one allocator over an error
  of the other with a third block owned elsewhere, and for a batch with a success
  before a failure. Codes differ only in what a client reads of them.
- **Dsl**: 5 writing calls and 3 guards alive (a where and two groups inside it), on
  both surfaces; the tokens of a clause do not depend on what came two clauses before.

`CHECK_DEADLOCK FALSE` is used where a client may simply be done: every handle used and
every object gone (`Lifecycle`, `Outcome`), every block held (`Builders`), the statement built (`Dsl`), all calls made
(`Startup`), both objects retired (`RpcContext`). `StreamReader` is checked for
deadlock, as a finished stream still answers.

### Fairness, and why it is justified

- `StreamReader`: weak fairness of `CReturn` and of `Return`: the C library answers a
  read when it can, and the wrapper, a few statements without a wait, returns.
  `DeadStreamIsNoticed` also needs a client that keeps reading until it is told the
  end, the loop printed in the comment of `next_for()`: `LoopSpec`. Publishing,
  killing and failing are never fair.
- `RpcContext`: weak fairness of the second statement of a teardown, of `CReturn`, and
  of the reader's loop (`Loop`), which reads until the stream is done or retires it.
  Beginning a teardown, notifications and failures are not fair: `ReaderIsReleased`
  says what follows *once* a teardown begins.

## What is proved

All proofs are checked by TLAPS; the theorems hold for every value of the constants
allowed by the named assumptions (`LifecycleAssumption`: the kinds of handles are
disjoint and `Null` is none of them; `BuildersAssumption`, `OutcomeAssumption` and
`OptionsViewAssumption` say the same of their blocks, variables, fields and texts, and the others that bounds are natural numbers and
choices are among the ones the code has).

**Lifecycle** (`LifecycleProofs`). The inductive invariant of every client is
`Base /\ Shared /\ LeftBehind`. `Base` is the types, `SoleOwner` and "a handle has an
engine once opened"; it is what makes a release of one object's handle leave all other
objects alone. `Shared` ties each object's token and cell to the engine of its handle:
without it neither `GuardComplete` nor `FatalIsShared` is inductive, since both compare
a name in an object with the engine of a handle. `LeftBehind` says of a handle nobody
holds that it is no session and its engine is down, and needs that a dead engine never
comes back (`NoRestart`). From these: `TypeCorrect`, `HandlesHaveOneOwner`,
`GuardNeverRefusesEarly`, `NothingLostWhileUp`, `PoisonIsShared`. Two clients get more.
`GuardedTeardown`: for a careful client a token that is
held implies a runtime that is up, so kills and transaction calls never reach a dead
one, in any order of destruction. `OrderedTeardownSuffices`: for an orderly client every
engine that is borrowed from is up, so no call of any kind, reads included, reaches a
dead runtime, and nothing is left behind, whatever liberties it takes otherwise.

**The refinement of HandleProtocol** (end of `LifecycleProofs`). `ObjectsKeepProtocol` says
that the objects of a careful client implement the protocol. Each action is one of five
things to the table of handles: nothing (a move, a read), opening a handle on a new
engine or on one that is up, giving one back, or leaving one behind with its engine
down. Which of the last two an object's end is, is decided by its token: the invariant of
`GuardedTeardown` says that a token that is held means an engine that is up, and that of
every client that one that has expired means an engine that is down, so the branch the
destructor takes is the one the protocol asks for.

**StreamReader** (`StreamReaderProofs`). `CodesAreTrue` says that a code still tells the
truth when it is looked at late (a reader back with SR_CLOSED has drained a channel
nobody can write to); `ObjectIsConsistent` that a read is in progress only on an open
stream and that `done_` without a failure means the end; `WaitState` that no wait is
negative. From these the safety properties, that the poison cell is set exactly by a fatal read
and that the id is known exactly from the first event, and `StreamImplementsFeed`: every step
is a step of `Feed` or a stutter, for any number of events.

**Timeouts** (`StreamReaderProofs`). `TimeoutsCover`: for every duration, unit and width of
int the conversion meets the reference. It is cited by the proof that waits are as asked.

**RpcContext** (`RpcContextProofs`). `OwnerState` relates the owner's point in its
teardown to token and context, `ReaderState` the reader's codes and answers to the
context. `ClosingIsSafe` is inductive on top of them: without `disconnect()`, and
unless a teardown began in the middle of a close, a reader that is freeing finds the
owner still using the context; hence `DestructorOrderIsSafe`. A stream that was assigned
over is left out of it (`replaced`), as its channel goes without a look at the token.

**Startup** (`StartupProofs`). `FlagLeads`: the flag is set before any connect opens
anything, and a thread found applying with the flag set had a connect begin in the
middle of its call; hence `NeverTooLateSilently` and `SilenceIsARace` for any number
of threads.

**OptionsView** (end of `StartupProofs`). `ViewInv`: once the view is filled the C struct
points to the places `to_c()` chose, and what is stored there is what the options say, until
the view moves and strands a short directory (`Stranded`). The places of all other fields are
in the heap or in the frame of `connect()`, which is what the move leaves alone. Hence
`ViewsAreReadAsWanted`, for any directories, target sets and texts.

**Builders** (`BuildersProofs`). The invariant is `Owned` (no two variables hold the same
block, and a block is allocated exactly if some variable holds it), `BoundsAgree` (a bound
is armed, and behind an arm its tag names, exactly while it holds a value), `SizesAgree`
(a builder's block contains what was asked of it) and that no call was given a stray
block. Ownership alone is inductive for moves; the calls that consume, replace or copy
need all four, since what a call frees depends on the tag and what it reads on the
owner. Hence `BlocksHaveOneOwner`, `BlocksAreFreed`, `CallsAreGivenLiveBlocks` and
`BuildersKeepWrites`, for any number of blocks and variables.

**Outcome** (`OutcomeProofs`). `Owned`: what an object owns is allocated and will be given
to the destructor of its own allocator (`OwnedIsLive`), no two own the same block
(`OwnedOnce`) and everything allocated is owned (`LiveIsOwned`). An assignment over either
alternative of a result frees one block and hands over another, and only the three
together survive both halves. `FailuresKeepCodes` needs that `first_error()` finds a
statement that failed, which is the least-number principle of the library
(`SmallestExists`). Hence also `MemoryIsFreedRightly`, `BlocksHaveOneOwner` and
`FailuresAreNotRows`, for batches of any length.

**Dsl** (`DslProofs`). The actions are first sorted into three kinds: they add text that
closes its own parentheses together with as many values as it has placeholders (`Adds`),
open a guard with its keyword or parenthesis (`Opens`), or close one (`StepKinds`).
`TextAgrees` is inductive over the kinds: bound values are as many as placeholders, every
live guard's mark is its own opener with outer marks before inner ones, and the text
has as many parentheses open as groups are alive and never fewer than none. The order of
the marks is what keeps a rewind from touching an outer guard. `DepthsAgree`, every guard
has recorded its place in the stack, makes the comparison of depths mean what it is
for. Hence `FailuresAreDeserved`, `ValuesHavePlaceholders`, `MarksStayTrue` and
`ParenthesesBalance`, for any number of calls and any depth of nesting. They rest on
lemmas about counting tokens in a text that is appended to or rewound. The same three
kinds give an action property of every client, whatever its liberties:
`OnlyOpenersAreTakenBack`, the text only grows, but for the last token when it is the
opener of the innermost guard and that guard goes. TLC finds it to hold in the run `dsl`
too, where it is not listed among the properties.

**The grammar of the text** (`DslGrammarProofs`). `StatementsAreWellFormed`: what `build()`
hands out to a client that took no liberty is a statement, token by token. `WellFormed`
speaks of finished statements only, so the induction needs to say what a text is that is
still being written. That is `Grammatical`, with one part for each thing an action relies on:

- `Text`: what there is follows the grammar (neighbours, clauses outside all parentheses,
  one joiner per group). A rewind leaves it true of the shorter text.
- `Phase`: what the text ends with is what the writer believes: the last field, while FROM
  is not written (`Projecting`); the clause that comes last of those written, afterwards
  (`Frontier`); the opener of the innermost guard or an operand, while a guard is alive
  (`Filled`); a semicolon at the end.
- `Scopes` and `Levels`: the guards are one WHERE and groups inside it, each at its own
  depth of parentheses, and the joiners at that depth since the guard opened are its own.
  So the joiner it writes next agrees with those before it, at whatever depth.
- `Single` (of `Phase`): while a guard is alive the only WHERE is its own and nothing stands
  after it, so a WHERE that is taken back leaves a text that ends in FROM and the clauses
  that follow are still in order.
- `Remembered`: the flags by which the writer and the fluent surface choose between a
  keyword and a comma, or WHERE and AND, say what is in the text.

`GInv` asks this of a client without liberties whose statement has not failed. Neither a
liberty nor a failure is ever taken back (`NothingTakenBack`), so such a client had none
before the step either. There is one lemma per action (`FieldGrammar`, `ClauseGrammar`, ...)
over lemmas about a text that one token is written to (`Extended`, `Fits` and those after
it), and `FluentWhere` is a chain of them for each form of an expression.

Only model-checked: the liveness properties (`ParkedIsReleased`,
`DeadStreamIsNoticed`, `ReaderIsReleased`), since TLAPS proves neither liveness under fairness nor ENABLED. Every safety property of
a passing run is a theorem.

## Where the code and its documentation disagree

Shown by a run (with the quotation in `PROJECT.json`):

1. `disconnect()` on a connection keeps its token, so a stream or transaction that goes
   later trusts it and calls into a runtime that is gone (`lifecycle_disconnect`).
   `rpc::disconnect()` does drop its token.
2. Move assignment onto a stream with a reader kills that reader without a look at the
   token (`lifecycle_assign`).
3. `rpc::disconnect()` frees the context, and so releases a parked reader, before it
   drops the token the reader will look at (`rpc_disconnect`).
4. A group left empty takes its parenthesis back but not the joiner before it, or its
   place as first condition: `WHERE a AND` or `WHERE AND a` is built without an error
   (`dsl_empty_group`).
5. The view `to_c()` returns points into strings that are its own members, so it holds
   only where the compiler elides the move of the returned object, while the comment on line
   208 promises stable backing for every string (`options_moved`).

Met while modelling, without a run of their own:

- A poisoned `rpc` does not refuse calls: the comment of the class says it does
  (`rpc.hpp` 372-374), `track()` only latches the cell (634).
- `options` is called move-only in its comment and can be copied.
- The comments of `options.hpp` fear that a reallocation would invalidate the names of
  a target set; they are set up after the last one.
- `set()` on a builder that was released, moved from or has adopted nothing is ignored
  without a sign, while `object.hpp` 220-221 relies on there being an object.
- An `array_builder` nothing was pushed to has no array at all, rather than an empty one.
- After a failed read `rpc_stream::next()` answers an empty success, which its comment
  calls a clean close (`rpc.hpp` 216-223). `ClosedMeansTornDown` excuses exactly this.
- `connection::kill()` is said to strand a stream, which then never ends, and eight
  lines below to end it (`connection.hpp` 590-608); the header of `stream.hpp` (8-41) is
  as stale. The model follows `stream.hpp` 193-198 and the tests of `src/tests`.
- A negative wait "silently means forever" in `stream.hpp` 393-396 and `rpc.hpp` 321,
  and is "rejected" in `poll.hpp` 66-69. The model takes the latter.
- `close()` keeps no id and needs none (`stream.hpp` 272-276), while the comment of
  `query_id()` still says what it is for (301-303).
- `runtime_init()` without arguments "only records that the process is past the point"
  (`options.hpp` 375-376) and records nothing.
- A connect that fails counts as an engine for `runtime_init`, whose error then speaks
  of a context that was already opened.
- `checked()` of an invalid statement and a default-constructed error are errors whose code
  is ok; moved into a result, they make one that has failed and says ok.
- In the DSL a second `where()`, a `where()` inside another, `where_dynamic()` after
  `where()`, a field after FROM, clauses out of order and a `build()` with guards open
  are not refused. The properties of the finished text leave such clients out through
  `liberties`; those about marks, values and refusals do not.
- The test of a token and the act that relies on it are two steps in `stream` as well.

## What is not modelled

- **What the server does**: the meaning of queries, isolation of transactions, sign-in.
  All data calls of `connection` and `rpc` are one action each, since they differ only
  in what they send.
- **rpc sessions** (`attach`, `detach`, `reset`, `kill_on`): their bookkeeping is in the
  C library; only that they are requests is modelled.
- **Reading values and geometry** (`value.hpp`, `geometry.hpp`): each accessor looks at one
  tag and returns one member of a C union. There is no step, no state and no order in
  them; a model would repeat the table of tags.
- **What data is**: `Builders` knows how many writes went into a block, not which keys
  repeat or what a value's kind is.
- **The numbers and toggles of the options, formatting, configuration, the module
  interface**: data without an order of steps.
- **`swap()`**, which is three moves, and `release()` of an `owned_span`, which nothing calls.
- **White space, names and values of the DSL**; a second `select()` on one query; `build()`
  called twice.
- **Memory exhaustion**, except that `error::local` may come out without a message, a copy
  in `to_c()` or of an object may throw, and the C library may refuse to allocate where the
  code looks.

## Plan

In this order; the parts marked *done* are in place.

1. *Done*: `Lifecycle` with `HandleProtocol`; `StreamReader` with `Feed` and `Timeouts`;
   `RpcContext`; their runs, and the proofs of their safety properties.
2. *Done*: `Dsl`, `Outcome`, `Startup` with their runs; the proofs of `Startup`.
3. *Done*: one lifecycle run in place of two (`careful`); assignment over an
   `rpc_stream`; the view of the options, now the module `OptionsView`; `Builders`.
4. *Done*: the refinement of `HandleProtocol` proved; the proofs of `Builders`, `Outcome`
   and `Dsl`.
5. *Done*: `WellFormed` of `Dsl` proved, by an invariant of the text while it is written;
   what a rewind may take, as an action property.
6. The token of `stream` tested and used in two steps, for connections dropped by another
   thread.
7. Sessions of rpc: only if their bookkeeping is brought under `src/`; it is the C
   library's now.

## Running it

    tlc -workers 2 -config MCLifecycle_any.cfg MCLifecycle.tla
    tlc -workers 2 -config StreamReader.cfg StreamReader.tla
    tlapm StreamReaderProofs.tla

and so on: the runs, with module and configuration, are in `PROJECT.json`.
