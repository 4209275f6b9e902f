# pans: a TLA+ model of the logging library

`pans` is a C++20 logging library: named loggers with levels, formatters and
appenders, a manager that hands them out, and a stream-like front end
(`PANS_LOG_INFO(logger) << ...`) whose record is submitted when the statement
ends. Any number of threads log through, drain and reconfigure the same loggers.
This directory holds the specifications of it, the TLC configurations that check
small instances, and the TLAPS proofs for instances of any size. Paths below are
relative to `src/`; `logger.cc` and the like are in `pans/src/logger/`.

    tlc -workers 2 -config MCLogger_config.cfg MCLogger
    tlapm LoggerProofs.tla

## 1. The parts of the system

| Part | State | Operations | Talks to |
|---|---|---|---|
| **Logger** (`logger.cc`, `logger_impl.h`, macros of `log.h`) | atomic `m_level`; `m_formatter`, `m_appenders` under a `shared_mutex`; `m_root`, set once | `shouldLog`, `submit`, `flush`, `sync`, `setLevel`, `setFormatter`, `addAppender`, `removeAppender`, `clearAppenders` | its appenders, its formatter, the root logger when its list is empty |
| **Appender** (`appender.cc`, `appender_impl.h`) | atomic `m_level`; a stream under a `mutex`; stdio's buffer; the file | `append`, `flush`, `sync`, `setLevel`, construction, destruction | stdio, the system |
| **LogLine, LogPrintf, InlineBuffer** (`log_line.cc`, `buffer.h`) | the text of one statement, in an array or on the heap | construction, insertion, submit on destruction; the one-call printf form | Logger |
| **LoggerManager** (`logger.cc:251-303`) | a local static: the root logger, a map from names to loggers under a `mutex` | `GetRootLogger`, `GetLogger` | creates loggers, sets their root |
| **Formatter** (`formatter.cc`) | an immutable list of items; two `thread_local` statics of the date item | `parse`, `format` | LogLevel, libc |
| **LogLevel** (`log_level.h`, `log_level.cc`) | none | the levels, `ToString`, `FromString` | |
| **ThreadUtils** (`utils/thread_utils.cc`) | a `thread_local` copy of the thread's name; the name the system keeps | `SetThreadName`, `GetThreadName`, `GetThreadId` | the system, StringUtils (on Windows), LogLine |
| **StringUtils** (`utils/string_utils.cc`) | none | UTF-8 to wide strings and back | ThreadUtils |
| **SystemUtils** (`utils/system_utils.cc`) | the moment of its first call | elapsed time, a constant fiber id | LogLine |
| **Spinlock** (`mutex.h`) | one flag | `lock`, `try_lock`, `unlock` | its benchmark, `tests/test_mutex.cpp`; not used by the library |
| **Singleton, macros** (`singleton.hpp`, `macros.h`) | one static; none | | the macros are everywhere; Singleton is not used |

What is hard in it:

* A log statement is two calls of the library with no lock between them
  (`log.h:41`): `shouldLog()` decides first, `submit()` decides again at the end
  of the statement, and each falls back on the root logger after it has released
  the lock of the first.
* `submit`, `flush` and `sync` walk `m_appenders` with the shared lock held while
  others want to change it; formatting and the appenders' mutexes may throw in
  the middle of the walk.
* A record leaves the process in pieces, when stdio decides; the file survives
  the process, and the next process appends to it.
* A message moves from an array to the heap in the middle of a statement, its
  allocations may fail inside an `ostream` that swallows the exception, and the
  arguments of a statement may contain other statements.
* The manager is built by whichever thread comes first, and its construction may
  throw and be repeated by another.
* The date of a record is cached per thread and second, for all date items
  together, and records do not come in the order of their seconds.
* Several appenders may write to one file or to `std::cout`, each under a mutex of
  its own. What keeps the records on `std::cout` apart is then the lock of stdio, not
  the library; on a file, which has a `FILE*` for each appender, nothing does, and when
  a buffer is full the pieces of two records may mix.
* The name in a record is a view of a string that the thread may replace before the
  statement ends; what the system keeps of a name is less than what was given.
* The spinlock is taken by whoever is first at the flag after all have seen it clear.
* A pattern is read in one pass with two counters that an escape, a directive
  and a configuration advance differently; a formatter that cannot read its
  pattern must not come into being.

`PROJECT.json` lists these places line by line under "hazards", each with the
properties that would show it going wrong, or why there is none.

What makes each part correct:

* Logger: a walk never sees its list change; each call works as from a copy of
  the configuration, and an exception costs no more than it must; a statement that
  nothing disturbs is delivered once per listing and admitted level, and one that is
  disturbed is lost only if some logger it asked was set to turn it away; removal is
  final; drains cover what was there; every call returns.
* Appender: whole records in one order, each call acting at one moment before it
  returns; what `flush`, `sync`, FATAL and the destructor promise survives a crash;
  every call returns.
* LogLine: the message is what its own statement inserted.
* LoggerManager: one logger per name for ever, each with a complete root.
* Formatter: it accepts a pattern exactly when the pattern has a reading, and has
  the items of that reading; a line lacks at most its dates.
* Date item: a record's date is its own.
* Thread names: a record has the name of its thread; `SetThreadName("")` finds again
  what the system was last asked to call the thread; the conversions are those of the
  Unicode standard.
* Spinlock: one thread inside at a time, no increment lost, nobody spins for ever.

All models are of the builds with `NDEBUG` (Release, RelWithDebInfo), in which a
failed `ASSERT_` macro prints and returns. In a Debug build the same early
returns end the program.

## 2. The modules

| Module | What it is |
|---|---|
| `LogLevel` | the levels and the comparison all thresholds use |
| `Sink` | what one appender has been given, as its callers may count on it |
| `AtomicLog` | abstract: an appender is one log, on which each call acts at one moment |
| `AppendLog` | abstract: what is left of it when an operation on the file has failed, and what each stream of a shared output is |
| `Delivery` | abstract: each call works, with no lock, from a copy of one logger's configuration |
| `Logger` | the loggers and their threads |
| `Appender` | one appender, its mutex, stdio and the file |
| `SharedOutput` | several appenders on one file or on `std::cout` |
| `LogLine` | LogLine, LogPrintf and InlineBuffer |
| `LoggerManager` | the manager and its construction |
| `Pattern` | the formatter: parsing, the table of items, formatting |
| `DateTime` | the date item and its cache |
| `ThreadName` | the name of a thread, for the system, for the library and in a record |
| `Utf8` | the conversions of StringUtils, as operators |
| `Unicode` | the reference for them: the tables of the Unicode standard |
| `Spinlock` | the lock and the benchmark that checks it |
| `MC...` | instances for TLC |
| `...Proofs` | theorems and proofs |

`Appender` refines `AtomicLog`, which is the reason why `Logger` may treat an
appender's operations as single steps on a `Sink`; `Logger` refines `Delivery`.
In `SharedOutput` each stream refines an `AppendLog` of its own. `ThreadName` uses
`Utf8` for the conversions and `Unicode` in its properties.

### Logger

One action per piece of code between two points at which another thread may
interfere. `ShouldLog`, `ProbeYes`, `ProbeRoot` are `Logger::Impl::shouldLog`
(`logger.cc:92-106`): the level, then the list, then the root logger from the
beginning. `SubmitLevel`, `Enter`, `FallBack`, `Format`, `Gate`, `Write`, `Leave`
are `submit` (`logger.cc:114-147`): the level, the shared lock, the fall back
(which tests the root's level again, as `m_root->m_impl->submit` does), the
rendering, and for each appender its level test (`appender.cc:48`) and, later and
under its own mutex, the write. `Enter`, `FallBack`, `Drain`, `Leave` are `flush`
and `sync`. `FormatThrows`, `WriteThrows` and `DrainThrows` are the three places
where an exception starts; the first two end in a `catch`, the third leaves the
call, and all release the lock. The exclusive sections (`AddAppender` ...) are one
step each, guarded by the absence of readers, since the fields they write are
touched only under the lock. `RejectedCall` stands for the calls that return or
throw before the lock is taken.

Not modelled: a `shared_lock` whose construction throws (it would end the program,
as `shouldLog` and `submit` are `noexcept`), and the memory order of the atomic
levels: each is one variable, which acquire and release leave coherent, and no
property relates a level to other data.

`call`, `cur`, `idx`, `text` are the locals of a call; `result`, `stable`, `seen`,
`snap` and `mark` are ghosts for the properties and guard no action. `seen` has the
loggers that would have turned the statement's record away at some moment of it, by
their level (`high`) or by an empty list (`empty`): `VerdictHeld` is about the
statements in whose course the configuration does change, `QuietDelivery` about the
others.

`Delivery` numbers the calls of a thread and says of each whether it may still take a
list (`open`) and whether anything threw in it: a call takes one list at most, and once
the list is taken every appender on it is visited, once and in order, unless `GiveUp`
(nothing was rendered, or the mutex of one appender threw under `flush` or `sync`)
ends the call or `Miss` costs one appender its copy. Both set `threw`, which stands for
the message on `stderr` or the exception that leaves the call: one of which nothing is
heard has left nobody out.

### Appender

`Gate` is the level test outside the mutex; `Lock` ... `Unlock` the section of the
`lock_guard`. `Write` and `WriteRest` are the one `fwrite` (or `cout.write`) of a
record: two chunks, because stdio passes on a full buffer in the middle of a
record, and `osEnd` may move with each. `Flush` is `flushUnlocked`, `Fdatasync` the
rest of the file appender's `syncUnlocked`; the stdout appender ends with the
flush. `Destroy`, `Reopen`, `Crash` and `PowerLoss` are the life of the file: a
crash of the process keeps what the system has, a power loss some prefix of it
that contains what `fdatasync` confirmed. That prefix is the assumption made of
the file system; it is external to the code.
A failed operation on the file (`WriteFails`, `FlushFails`, `FdatasyncFails`,
`DestroyFails`) sets `failed`: the code ignores the results of all of them, and
`RecordsWhole` and `PromisesKept` cannot hold afterwards. A mutex that throws
(`LockThrows`) does not set it, since the call has written nothing.

`AtomicLog` has neither lock nor buffer nor chunks. A call is taken, passes the level
test, and enters; it then writes, flushes and syncs the log in that order, one step
each, and returns only when it has. `Job` reads that off `pc`: the record is in the log
with its second chunk, a step before `Unlock`. A crash of the process leaves all that
was flushed, a power loss all that was synced, and a new appender goes on behind it.
From the first failed operation on, `AppendLog` takes its place, in which what has been
written leaves late, or never.

### SharedOutput

The same pieces of `appender.cc`, now for a set of appenders with a mutex each.
`kind` is chosen once: file appenders have a stream each and one file ("ab": what a
stream gives to the system goes to the end), stdout appenders have the one stream
`std::cout`. `lock` is the lock stdio takes for each of its calls; that `std::cout`
is stdio's `stdout`, and so has that lock, is what `sync_with_stdio` promises unless
a program turns it off (the mutant `WriteUnsynced` does). `Write` and `WriteRest`
hold it for the two chunks of a record, and a `Flush` of the one stream may come
between two records of different mutexes. `Fdatasync` confirms everything the system
has of the file, also what came from another appender. Without the level test and
the end of an appender, which are in `Appender`. `StdioFails` covers all calls whose
results the code ignores and sets `failed`; `LockThrows`, the mutex, does not.

The records of each stream are checked, not those of the file: two file appenders have a
buffer each, and nothing keeps a piece that leaves one of them from landing within a
record of the other.

### LogLine

`open` is the stack of LogLines of one thread. `Appended` is
`InlineBuffer::append` with its two places; `Copied` writes where `memcpy` would,
also outside the array, so that the type invariant is what says that it does not.
`Insertions` is what the `ostream` makes of an append that throws: `badbit`, and
nothing inserted any more. `PrintfText`, `PrintfNull`, `PrintfError` and
`PrintfThrows` are the exits of `LogPrintf`.

### LoggerManager

`EnterFirst`, `EnterReady` and `BuildThrows` are the guard of the local static,
`BuildRoot`, `AttachStdout`, `PublishRoot` the constructor, `Lock` ... `Emplace` the
body of `getLogger`, `GetRoot` the unlocked `getRoot`. `roots` holds the `m_root` of
every logger made, which `Logger` reads without a lock (`logger.cc:105`).

### Pattern

`Char`, `Ends`, `Escape`, `Directive`, `ConfiguredDirective`, `BraceFails` are the
branches of the loop of `Formatter::parse` (`formatter.cc:317-374`), one step each
round; `End` is what follows the loop, with the search for null items.
`CreateFormatItem` is the table of factories: an unknown directive becomes a null
item, which the constructor rejects only after the whole pattern has been read.
`StartFormat`, `ItemAppends`, `DateFails`, `AppendThrows` and `FormatReturns` are
`Formatter::format`, which walks the items. An item names what it appends; the
fields are not rendered, and the date item's cache is `DateTime`.

The reference reading does not scan: it cuts the pattern into tokens anywhere
(`Splits`) and takes the items from the tokens (`ItemsOf`), so that a counter that
goes astray in the scan shows as a difference.

### DateTime

`Compare`, `LocaltimeFails`, `Strftime`, `StrftimeFails`, `Store`, `AppendDate` are
the statements of `DateTimeFormatItem::format` with its early returns. A date is a
pair of format and second, or `Other` for whatever `strftime` leaves when the date
does not fit in the twenty bytes. `Uses` says which formats a thread gets to:
the cache is the thread's own, so a thread with one format is not touched by what
another thread mixes.

### ThreadName and Utf8

`SetThreadName`, `SetThreadNameEmpty` are the two halves of `SetThreadName`
(`thread_utils.cc:127-138`). `Initialise` is the initialiser of a thread's copy
(`thread_utils.cc:111`): a `thread_local` at namespace scope may be initialised when the
thread first uses it or at any time before, so it is an action of its own that must come
before the thread's first call, and others may name the thread until then. `Spawn` starts
a thread, which inherits its native name on Linux and has none on Windows.
`NamedByOthers` is external: a debugger or a library names the thread, for the system.
`BeginStatement` takes the view (`log_line.cc:31`), `Submit` reads it
(`log_line.cc:36-50`). Between them the thread may do anything, as an argument of the
statement may; `stale` says that its own copy was replaced meanwhile, and a record of
a stale view reads `Freed`, which is never the name. This is what the code leaves
open, so `NameIsOwn` excludes a statement that renames its own thread and nothing
else: it says that this is the only case.

`asked` is the name the system was last asked to give a thread, in the system's own
units: bytes on Linux, on Windows the UTF-16 that `Unicode`, not the code, makes of a
text. `source` is its value when the copy was last read from the system, and
`unanswered` says that the system failed in that reading: `RestoresName` compares the
copy with these, and accepts no name only where there is none to be had.

A world is a platform with the names used in it; `MCThreadName` has one for each text
to be converted, so that the conversions are checked where the program does them:
every text a thread is given on Windows is converted to a wide string and, by
`SetThreadName("")`, back.

`Utf8` follows `string_utils.cc`: `First` is the classification of the first byte,
`DecodesAt` the conditions under which `DecodeUtf8CodePoint` succeeds, `StringToWString`
and `WStringToString` the loops, as recursive functions over the offset. `Unicode` does
not decode: it lists, for each kind of character, the ranges its bytes may be in, cuts
the text wherever the pieces are characters (`Readings`), and computes the value from
the positions.

### Spinlock

`TestAndSet` and `Test` are the two loops of `lock`; the inner one is a read that
decides nothing, so that another thread may come in between. `try_lock` is the same
test-and-set without the wait. The client is `tests/test_mutex.cpp`: `Reset` ...
`Check` is its main thread with the three latches, `CountReady` ... `CountFinished` a
thread of it, and `++g_Counter` is a load and a store. Memory is sequentially
consistent: the flag is set with acquire and cleared with release, and the counter is
touched only between the two, so no weaker execution is visible if `MutualExclusion`
holds. Where glibc is used the class is a wrapper of `pthread_spin_lock` and not
modelled.

## 3. The runs

| Run | Checks | Bounds |
|---|---|---|
| `MCLogger_config` | `TypeOK`, `ListFrozen`, `CallOK`, `NoLateWrite`, `Delivers`, `CallsReturn` | one thread logs and syncs, one reconfigures, 2 calls each; two loggers, two appenders, two formatters; failures |
| `MCLogger_quiet` | `QuietDelivery`, `VerdictHeld`, `DrainCovers` | three threads, 1 call each: one logs, one logs, drains or sets a level, one adds or removes an appender; every combination of levels, the named logger with a list of its own and with none |
| `MCLogger_off` | `OffSilences`: **violated** | one thread that sets levels and logs |
| `MCAppender_crash` | `TypeOK`, `RecordsWhole`, `PromisesKept`, `AppendsToOneLog` | file; three threads, 1 call each, a crash of the process and a power loss in either order, everything may fail |
| `MCSharedOutput_write` | `RecordsWhole`, `PromisesKept`, `EachStreamIsOneLog`, `CallsReturn` | file and stdout; two appenders, two threads, 2 calls between them, 2 crashes, everything may fail |
| `MCLogLine_text` | `TypeOK`, `MessagesWhole`, `HeapOnlyWhenLong` | an array of 2 bytes, printf array of 3, nesting of 2, messages of up to 5 bytes, failures |
| `MCLoggerManager_race` | `OneLoggerPerName`, `FallbackReady`, `NamesAreKept`, `CallsReturn` | three threads, 1 call each, three names and the empty one, failures |
| `MCPattern_read` | `TypeOK`, `ReadsPattern`, `LiteralsMerged`, `OnlyDatesMissing`, `Terminates` | all patterns of up to 5 characters over percent sign, braces, two directives and a letter that is none, and four longer ones; one record, failures |
| `MCDateTime_mixed` | `DateIsOwn`, `SecondIsOwn` | a thread with one format that always fits, a thread with two of which one does not; three seconds, of which one is 0; failures |
| `MCDateTime_long` | `ReuseIsExact`: **violated** | one format that does not fit in one second |
| `MCThreadName_names` | `NameIsOwn`, `RestoresName`, `WideConversionAgrees`, `NarrowConversionAgrees`, `TypeOK` | some 500 small worlds: one thread, 2 calls and one text each on Windows; one thread and 3 calls, or two threads and 2, for the names on Linux; failures |
| `MCSpinlock_count` | `MutualExclusion`, `NothingLost`, `CountIsExact`, `Finishes` | four threads, 0, 3 or 6 increments, 2 runs of the benchmark |

Why the bounds are enough. Each hazard needs one thread on each side and one call
of each. Where a call meets what an earlier one of the same thread left behind (a
reconfiguration after a reconfiguration, an append after a restart) there is a
second call; in `MCLogger_quiet` and `MCLoggerManager_race` a third thread plays
that part. Two loggers are the whole hierarchy: a root has no root
(`RootAssumption`, established by the manager), so a fall back goes one level deep.
An appender listed twice and a root without appenders are one call away from the
initial lists of `MCLogger_quiet`.
Two chunks are the smallest record that can be torn. The array sizes of LogLine
are chosen so that pieces end before, at and behind each of them. Three seconds
are an earlier, a current and a later one; one of them is the 0 with which the cache
starts. The texts of `MCThreadName` have each byte at the ends of the ranges UTF-8 has
for it (first, second, other), alone, in front of and behind other characters; the
wide strings each unit at the ends of the surrogate ranges, alone and in pairs. Names
on Linux are of fifteen bytes, of more, with a NUL, and with a character across the
limit. Four threads with no, three and six increments are less than one, one or none,
and one or two for each; the second run of the benchmark starts from what the first
has left. Five characters are a configured
directive with one character in the braces, or any two of the shorter tokens next
to each other; the longer patterns have a token behind a configuration. Where a property has a theorem below,
the bound does not matter at all. In `MCAppender_crash` the crash and the power loss have
a bound each: what one of them leaves is what the other, and a restart, find. The largest
runs are that one and `MCLogger_quiet` (some 700,000 and 1,100,000 states, 3 and 2 minutes).

The bounds are constants: `MaxCalls`, `MaxCrashes`, `MaxDepth`, `MaxLines`,
`MaxText`, `MaxRecords`, `Runs`, and the `calls` of a world. Deadlock is checked in all runs but `MCThreadName_names`, where nothing waits and a
world simply comes to the end of its calls: the steps `Quiet`, `Rest`, `Stopped` and `Over`
stand for a program with nothing left to do, and a thread that is stuck inside a
call is not covered by them.

**Fairness.** `FairSpec` says of each thread that a step of its call that stays
possible is taken: `WF_vars(Work(t))`. It is what the scheduler gives a runnable
thread. `Work` has no step of failure (nothing has to throw) and no call (nobody
has to log), and a thread that waits for a lock is not promised it: that it gets
the lock is what `CallsReturn` shows, with finitely many calls per thread.
Whether `std::shared_mutex` lets a writer in when new readers keep coming is
the platform's business and not covered. `Pattern` has one thread, and its
`FairSpec` says that `parse` and `format`, once begun, go on: `WF_vars(Parse)` and
`WF_vars(Format)`. An exception is not forced there either. `SharedOutput` says the same of its threads
(`WF_vars(Work(t))` in `Spec`), where calls and failures are not forced and a crash
ends all calls. `Spinlock`'s `FairSpec` is weak fairness for each thread and for the main
thread: a thread that spins is scheduled now and then, and a latch that is open lets
its waiter go on. No strong fairness is needed, since the increments are finitely many.

**What the runs absorbed.** What stdout appenders promise, and that every call of an
appender returns when operations fail, is in `MCSharedOutput_write`, where one or two
appenders are used; `PromisesKept` is proved for both kinds of appender. `DateIsOwn` for
threads with one format is in `MCDateTime_mixed`, beside a thread that mixes formats.

`EachStreamIsOneLog` is the refinement of `AppendLog` by each stream. It is stated as
its initial condition and its step rather than as `Log(s)!Spec`, because TLC takes no
temporal formula under a quantifier over streams.

### What disagrees

* `MCLogger_off`. `log_level.h:21` calls `LOG_LV_OFF` the level that turns logging
  off. The test is `<`, so a statement *at* level OFF passes a logger at OFF. The
  macro takes any level, and `LogLevel::FromString` makes OFF of every name it does
  not know.
* `MCDateTime_long`. The comment at `formatter.cc:127-130` says that within a second
  the last conversion can be reused. When a date is too long for the cache (with
  `%B %d %H:%M:%S`, a date in September but not one in May), `strftime` has
  overwritten the text and the function returns with `last_second` still naming the
  earlier second; a record of that second which is formatted later, such as the
  outer one of two nested statements, gets the overwritten text.

Mixed date formats are announced as unsupported (`formatter.cc:142`);
`MCDateTime_mixed` shows what remains true of them.

## 4. The proofs

Proved with TLAPS for all values of the constants, from the named assumptions of
each module (which say that parameters have their types, and for `Logger` that the
root has no root):

| Theorem | States | Along |
|---|---|---|
| `LoggerProofs!TypeCorrect` | `TypeOK` | the inductive invariant is `TypeOK`, `ListFrozen` and `CallOK` together: the type of `sink` needs the rendered text and the listed appender to be there, which `CallOK` and `ListFrozen` say, and both need the type |
| `LoggerProofs!ListsAreFrozen` | `ListFrozen` | a step of the walk keeps the list; an exclusive step has no reader in that logger |
| `LoggerProofs!CallsAreConsistent` | `CallOK` | as above, with `setFormatter` waiting for readers |
| `LoggerProofs!RemovalIsFinal` | `NoLateWrite` | a list changes only while nobody has the logger's lock shared, and whoever is half-way through it has |
| `LoggerProofs!DrainsCover` | `DrainCovers` | appender by appender (`Draining`): those the walk has passed have flushed, or synced, all they held when the call began, and no later step takes that back |
| `LoggerProofs!QuietStatementsDeliver` | `QuietDelivery` | what the tests passed so far have settled stays settled while the configuration is the same (`Decided`), and the walk has written its share to every appender (`Delivering`): counting the copies of a record needs that its number is its own (`Named`) |
| `LoggerProofs!VerdictsHold` | `VerdictHeld` | what a thread has found of the loggers it has passed is in `seen` (`Judged`), and a record that is in a sink has come by one logger, its own or, after an empty list, the root |
| `LoggerProofs!LoggerImplementsDelivery` | `Delivers` | the job of a thread and the course of its call are read off the live configuration and its `pc`; every step is a step of `Delivery` or leaves it alone |
| `AppenderProofs!TypeCorrect` | `TypeOK` | with the bounds of `osEnd` and `diskEnd` and the meaning of the mutex |
| `AppenderProofs!PromisesAreKept` | `PromisesKept` | the mutex excludes; what a thread holds between its steps is whole; a promised record is below the mark it was promised for |
| `AppenderProofs!RecordsStayWhole` | `RecordsWhole` | chunk by chunk (`WholeAt`): the mutex lets one thread at most be half-way through a record, and its first half is then the last chunk; a crash cuts where `cuts` says |
| `AppenderProofs!OneLog` | `AppendsToOneLog` | `Lines` of a stream that grows by a chunk grows by at most that record, and only by a whole one while the mutex is held and nothing has failed, so the step that completes a record is the `Write` of the abstract log; a flush or an `fdatasync` gives it what it says; a crash cuts `Lines` where it cuts the chunks |
| `SharedOutputProofs!TypeCorrect` | `TypeOK` | with: stdio's buffer of a stream has chunks of that stream only, and who is in the middle of a record has the stream's lock (`FlowOK`) |
| `SharedOutputProofs!RecordsStayWhole` | `RecordsWhole` | chunk by chunk in what each stream has been given (`Content`), which a flush does not change and a write of another stream does not touch; an unfinished last chunk has a thread that holds stdio's lock, or has lost its end to a crash |
| `SharedOutputProofs!PromisesAreKept` | `PromisesKept` | nothing given to a stream, to the system or to the device is taken away (`Grows`), and a call about to return has seen to what it promises (`Ready`) |
| `SharedOutputProofs!StreamsAreLogs` | `EachStreamIsOneLog` | the ends of a stream's records in the output, in stdio and on the device are three sequences that only a step of the stream's own appenders, `Fdatasync` and a crash can change: each of these is a step of that stream's `AppendLog` |
| `LogLineProofs!TypeCorrect`, `MessagesAreWhole`, `ShortStaysInline` | `TypeOK`, `MessagesWhole`, `HeapOnlyWhenLong` | lemmas about `View` after `Appended`, for both places of the text; then one step per action |
| `LoggerManagerProofs!TypeCorrect`, `NamesAreUnique`, `FallbackIsReady`, `NamesStay` | `TypeOK`, `OneLoggerPerName`, `FallbackReady`, `NamesAreKept` | the map is injective on what it holds, and a logger under construction is in no map |
| `FormatterProofs!TypeCorrect`, `LiteralsAreMerged` | `TypeOK`, `LiteralsMerged` of `Pattern` | together with: during the scan the last item is a directive, no formatting before acceptance, no null item after it |
| `FormatterProofs!ReadsEveryPattern` | `ReadsPattern` | at each moment the part already read has a reading that tells the items so far (`ToldOK`), and every reading of the whole pattern has a token where the scan is (`ForcedOK`): so there is no other reading, and a scan that fails is of a pattern that has none |
| `FormatterProofs!OnlyDatesAreMissing` | `OnlyDatesMissing` | the line is drawn from the items passed so far, in order and without repetition, all of them but dates (`LineOK`) |
| `FormatterProofs!SecondsAreOwn`, `DatesAreOwn` | `SecondIsOwn`, `DateIsOwn` of `DateTime` | the cached text is of `last_second` or is `Other`; in a thread with one format that always fits it is never `Other` once `last_second` is not 0 |
| `SpinlockProofs!TypeCorrect` | `TypeOK` | with what the latches count: the threads that have not yet passed them |
| `SpinlockProofs!Excludes`, `LosesNothing` | `MutualExclusion`, `NothingLost` | the flag is set while a thread is inside, and one at most is; what it has loaded is still the counter when it stores |
| `SpinlockProofs!CountsExactly` | `CountIsExact` | what is stored and what the threads owe add up to `g_target` (`CountOK`); a sum over threads is the number of pairs of a thread and an increment it owes (`Todo`), and the shares of `OperationsForThread` deal the numbers up to `g_target` out to the threads |
| `ThreadNameProofs!ReadsWhatItWrites`, `ReadsUnitsAgain` | what `AppendUtf8` writes for a code point is read again by `DecodeUtf8CodePoint`, anywhere in a text; the same for the units of a wide text, of either size | six bits taken off by `Follow` are put back by `Shifted`, ten bits in each half of a pair; one case for each length |
| `ThreadNameProofs!WideAgrees`, `NarrowAgrees` | for every text: the conversion accepts what the Unicode standard accepts, makes what the standard makes of it, and the other conversion leads back | both loops are walks over a text whose step depends only on what is ahead; where the step of one reads what the step of the other has written, the walks mirror each other; the tables of the standard and the arithmetic of the code are compared by number of bytes |
| `ThreadNameProofs!WideConverts`, `NarrowConverts` | `WideConversionAgrees`, `NarrowConversionAgrees` | the two above, with `TypeCorrect`: every name is a text of bytes, every native name a text of units |
| `ThreadNameProofs!TypeCorrect` | `TypeOK` | with the types of the ghosts (`Types`); a name cut at fifteen bytes or at a NUL is one the system can have |
| `ThreadNameProofs!OwnName` | `NameIsOwn` | a view goes stale only in a statement that renames its own thread; until then it shows the name there was when it was taken (`Views`) |
| `ThreadNameProofs!RestoresTheName` | `RestoresName` | the native name is what the system keeps of what it was asked (`Names`), and the copy is a reading of it; the wide text that the code makes is the one `Unicode` makes (`WideAgrees`), and a native name that is no text has a lone surrogate (`NarrowAgrees`) |

Every safety property, action property and refinement that a passing run checks is
proved. Only model-checked are the liveness properties: `CallsReturn` of `Logger`,
`LoggerManager` and `SharedOutput`, `Terminates`, `Finishes`. Liveness under fairness,
and `ENABLED`, are out of the prover's reach.

So are the induction theorems of the library, which take an operator as a parameter.
Where a proof needs an induction over data it goes by a least counterexample instead: a
set of numbers that is not empty has a least member, by `WFMin` of
`WellFoundedInduction` (`Least` and `ByAppending` in `SharedOutputProofs`). That is how
the recursive functions `Lines` (`Appender`), `Within` (`SharedOutput`), `Apart`
(`Pattern`) and the two conversions of `Utf8` are reasoned about: first that a function
with the equations of the definition exists on every prefix, then that it is the only
one. No module here has a `RECURSIVE` operator.

`FormatterProofs` extends both modules of the formatter, `Pattern` and `DateTime`; the
names of `DateTime` (`DateInit`, `DateSpec`, ...) are chosen for that.

Two assumptions say what a program is, and the proofs need them: `SharedOutput` has at
least one appender, and the names that others give a thread in `ThreadName` are ones its
platform can have (`Native`).

The type invariants of `LoggerManager`, `SharedOutput` and `Spinlock` are proved and have no run.

## 5. The plan

Done, in this order: Logger with Delivery; Appender with AppendLog; LogLine;
LoggerManager; DateTime; Pattern; their proofs; SharedOutput; Spinlock with its proofs;
ThreadName with Utf8; the proofs of the conversions; `DrainCovers` and `QuietDelivery`;
the refinement of `AtomicLog` by `Appender`; the reading of patterns; the names of threads;
SharedOutput and its refinement.

To come: the theorems about `Appender` and `Logger` could be joined, by showing that the
sinks of `Logger` take steps of `AtomicLog` only; and the induction by a least
counterexample, which four proof modules state for themselves, could be stated once.

### Not modelled

* `LogLevel::ToString` is a table. `LogLevel::FromString` (`log_level.cc:26-49`) is a
  look-up for names of up to six characters, its array; what it does with a longer one
  is undefined, so a model would have nothing to say of it.
* `SystemUtils`: `GetElapsedTime` counts from its own first call, which is the first log
  statement, not from the start of the service as `system_utils.h` has it; there is
  no step in it that another could disturb. `GetThreadId` and `GetFiberId` are
  constants.
* `Singleton` is one local static, the protocol that `LoggerManager` has.
* The destruction of statics at exit: the order across translation units is the
  linker's.
* The Debug build's aborts, the wording and layout of records, build files, and the
  tests other than `test_mutex.cpp`, which are demonstrations.
