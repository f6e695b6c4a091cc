# Kotoha IME: models, checks and proofs

TLA+ models of the Kotoha Japanese input method (the Rust workspace under `src/crates/`), the TLC runs that check them
on small instances, and TLAPS proofs of their main properties for every value of the constants. `PROJECT.json` lists
components, runs, mutants, hazards, findings and theorems, and maps every definition to the lines it models.

Run from this directory, for instance:

    tlc -workers 2 -config MCConversionSystem.cfg MCConversionSystem
    tlc -workers 2 -config MCStorage.cfg Storage
    tlc -workers 2 -config MCRankedWorker.cfg MCRankedWorker
    tlapm RankerProofs.tla

## 1. The system

`kotoha-bin` is one process: it reads keys from the ibus daemon over D-Bus, converts romaji to kana, asks rankers for
candidates while the user types, and commits what the user picks. `kotoha-dict` and `kotoha-kanji` are command lines;
the first one edits the same SQLite file from other processes.

    ibus daemon --call--> KotohaEngineService (listener thread)
                              | bridge channel: IBusKey (with a reply channel), FocusOut, Reset, Disable
                              v
    signal handler --shutdown channel--> engine loop thread: LinuxReactor.recv -> KotohaEngine
                              ^                     |  RankRequest (id, kana, mode, token)
                              | worker channel      v
                              +------ kotoha-ranker-worker thread --> Ranker::rank --> HybridRanker's own threads
    KotohaEngine --HostBridge--> D-Bus signals to the daemon (preedit, lookup table, commit)
    KotohaEngine --LearningPort--> SqliteLearningCacheStore --+
    kotoha-dict  ---------------> SqliteUserVocabStore -------+--> kotoha.db

### Inventory

| Component (crate, files) | State it keeps | Operations | What is hard | Modelled by |
|---|---|---|---|---|
| Conversion engine (`kotoha-engine-core/src/engine`: `mod`, `transitions`, `preedit`, `candidates`, `learning`, `commit_history`) | `EngineState`, preedit, candidates and highlight, active request, id seed, enabled, focused, history | `process_key_event` (typing, backspace, space, navigation, return, escape), `focus_in/out`, `reset`, `enable`, `disable`, `apply_candidate_update` | late answers, a worker that is gone in the middle of a handler, a screen that must follow the state | `KotohaEngine`, `CommitHistory` |
| Ranker worker (`engine/worker.rs`, `worker_channel.rs`, `event.rs`) | current request, window buffers, consecutive panics | receive, `rank`, one or two coalescing windows, report, catch a panic, leave | cancellation between any two steps, silent rankers, panics, errors | `RankerWorker`, `EngineChannels` |
| Host bridge, IBus lookup table (`host_bridge.rs`, `kotoha-engine-ibus/src/lookup_table.rs`) | preedit, rows and visibility on the screen | `update_preedit`, `update_candidates`, `show/hide_candidate_window`, `commit_text` | no feedback: the engine never reads it back | `HostBridge` |
| Cancellation token (`cancel/std_token.rs`) | flag, wakers behind a mutex | `cancel`, `is_cancelled`, `CancelledFuture::poll` | lost wakeups | `CancellationToken` |
| Reactor, engine loop, main, signal handler (`kotoha-engine-reactor-linux`, `kotoha-bin`) | three channels, threads and their ends | `recv`, dispatch of an event, shutdown, joins | disconnection of one of several producers, order of the shutdown | `ProcessLifecycle` |
| IBus service and listener (`kotoha-engine-ibus/src/service.rs`, `listener.rs`) | per-call reply channel, shutdown flag | `process_key_event` with its 100 ms timeout, `focus_in/out`, `reset`, `enable`, `disable` | answers after the timeout, calls behind a queue | `ProcessLifecycle` |
| Database and migrations (`kotoha-storage/src/database.rs`, `migrations.rs`) | tables and indexes, `user_version` | `Database::open`, `apply_migrations` | several processes, a death between statements | `Database` |
| User vocabulary (`user_vocab/sqlite.rs`) | rows, `AUTOINCREMENT` counter | `insert` (duplicate check, quota check, INSERT), `delete_by_id`, `delete_by_surface_reading` | check and insert are atomic in one process only | `UserVocab` |
| Learning cache (`learning_cache/sqlite.rs`) | rows with frequency and time | `record_choice`, `evict_lru`, `evict_to_cap` | three statements without a transaction, a clock in seconds | `LearningCache` |
| Hybrid ranker (`kotoha-ranker-hybrid`: `lib`, `merge`) | a thread per request, with the dictionaries' rows and the cache hits it has found; a sink per request | `rank` (spawn), two pushes with five looks at the token, `merge` | threads that outlive their request, a ranking that replaces another under the user's eyes | `MergeCandidates`, `HybridRanker`, `RankedWorker`, `RankerPort` |
| Romaji converter (`kotoha-core/src/romaji`) | the letters held back | `push`, `normalize`, `flush`, `convert` | letters that are no rule, the same text typed and converted whole | `RomajiRules`, `Romaji` |
| Input context (`kotoha-core/src/input`) | mode and its origin, direct buffer, the converter's letters | `input_char`, `commit`, `cancel`, `toggle_mode`, `set_mode`, `reset` | five ways out of a mode, a limit in bytes | `InputContext` |
| Command lines (`kotoha-cli`) | none of their own | `kotoha-dict add/remove`, lines of `kotoha-romaji` | several processes on one file | `Storage`, `InputContext` (in part) |
| Sanitizing, kana, kanji backends, dictionaries, adapter, D-Bus types, discovery, paths, validation | none, or read-only files | pure functions, calls into libraries | | not modelled (section 8) |

What makes each component correct: the **engine** offers candidates for the present text only, commits once and what
is highlighted, leaves nothing on the screen or in flight when it goes to rest; the **worker** answers every request
that is still wanted, never after an error, and finishes with every request; the **token** loses no wakeup; the
**process** tells the daemon the truth about keys, respects Disable and FocusOut in the order they were sent, and ends
when it should; the **storage** gives a connection the whole schema, keeps its limits as far as the code promises,
never reuses an id, and keeps what it has just recorded; the **ranker** gives each window rankings of its own request
only, in order and without a surface twice, and its second answer takes nothing away that the first one offered; the
**converter** always gets from letters to kana, in the same way typed and converted whole; the **input context** never
lets the letters of one mode come out in another.

## 2. Modules

| Module | What it is |
|---|---|
| `EngineChannels` | what the engine and the worker share: requests, events, the set of fired tokens, candidate updates |
| `HostBridge` | the screen: preedit, rows, visibility, and the calls that change it |
| `CommitHistory` | the bounded history sent with each request (`push`, oldest entries popped whole) |
| `KotohaEngine` | one action per call into the engine; a call is one step, because the loop thread owns the engine |
| `RankerWorker` | the worker thread; a step is what happens between two points where the engine can be observed |
| `ConversionSystem` | engine and worker interleaved, all properties of the pair |
| `ConversionSession` | the abstract specification: compose, ask, offer, choose, abandon |
| `MCConversionSystem` | the small instance of `ConversionSystem` |
| `CancellationToken` | tasks and calls of `cancel`, one step per access of flag, lock and waker list |
| `ProcessLifecycle` | the five threads of `kotoha-bin`, their channels and the daemon |
| `Database`, `UserVocab`, `LearningCache` | the file and the two tables, one step per SQL statement |
| `Storage` | the three composed: one engine, any number of command lines, failures and deaths |
| `MergeCandidates` | `merge` as operators: weights, bonus of the learning cache, order, deduplication, cut |
| `RankerPort` | the worker with any ranker that keeps the port's contract, and an engine reduced to its sends and tokens: the contract between the two compositions |
| `HybridRanker` | the threads of `rank()` below that worker, their looks at the token, their backends and sinks |
| `RankedWorker` | worker and threads together: the properties, and `RankerPort` as the abstract specification |
| `RomajiRules`, `Romaji` | the table of rules, and what one more letter does to the letters held |
| `InputContext` | the two modes around the converter, one action per call |
| `MCRankedWorker`, `MCInputContext` | small instances of the last two |
| `ConversionTypes`, `ConversionPipeline`, `ConversionProofs` | proofs about `ConversionSystem` |
| `CancellationTokenProofs`, `ProcessProofs`, `StorageProofs` | proofs about the token, the process and the storage |
| `RankerProofs`, `InputContextProofs` | proofs about `RankedWorker` and `InputContext` |

`ConversionSystem` EXTENDS `KotohaEngine` and `RankerWorker`, which both extend `EngineChannels`; it implements
`ConversionSession` through an INSTANCE with the mapping `phase <- state`, `text <- preedit`, `committed <- commits`,
and `offered` the candidates outside Idle. `Storage` EXTENDS `UserVocab` and `LearningCache`, which extend `Database`.

Two compositions share the worker. `ConversionSystem` has it between the engine and *any* ranker: each window may
receive any of the updates in the constant `Pushes`, at any time, or none. `RankerPort` has the same module
`RankerWorker` between a reduced engine and any ranker, and `RankedWorker` puts the threads of `HybridRanker` in the
ranker's place. The property `KeepsThePort` says that this refines `RankerPort`, provided the rankings the merge can
make are among `Pushes` (`PortAssumption`). That is the assumption under which `ConversionSystem` is checked and
proved. The other half is `KeepsItsSide`: `ConversionSystem` refines `RankerPort` too (`Readings` are the preedits,
`issued` is the id seed), so that the reduced engine stands for the real one. Each side is shown to keep its half under
a step of the other, one step at a time: what is proved of the worker above the hybrid ranker holds with this engine,
and what is proved of the engine holds above this ranker.

### State and steps

*Engine.* Variables carry the fields of `KotohaEngine` (`state`, `preedit`, `items`, `highlight`, `active`, `seed`,
`enabled`, `focused`, `history`) and two records of what left it: `host`, the screen, and `commits`. A handler is one
action with everything it calls: `Dispatch` is `dispatch_rank_request` with its send that may fail,
`ViewAfterDispatch` what it does to the screen; `EndConversion` is the common part of focus_out, reset and disable.
Text is data: a kana is a value, a candidate is a surface with the reading it was computed for. Keys the engine
forwards change nothing. Unsafe surfaces are a set; the filter is applied where the code applies it.

*Worker.* `phase` is the place in `worker_loop` / `handle_one_request`. Rankers push any allowed update at any time of
a window, or nothing; windows close at any time; `rank` may fail and anything may panic. `PanicLimit` panics in a row
end the thread, which takes its receiver with it in a step of its own.

*Process.* A key is consumed or forwarded; the queue of the bridge, the waiting call and its reply channel, the flags
of the engine, the worker's breaker, the two halves of the shutdown (`Signal`, `SendShutdown`), the two-step end of
the loop (reactor dropped, then engine dropped) and the joins of `main` are kept. The connection dispatches calls one
at a time. The engine may panic over any event (`LoopPanics`): the loop's arguments are then dropped as at a normal
end, and `main`, whose join reports the panic, returns without telling the listener (`JoinFailedLoop`). Variables
`wants` and `unwanted` are history: what the daemon last asked for and the keys it sent while off.

*Storage.* SQLite runs one statement at a time and commits it by itself; the crate opens no transaction (the comment
at `database.rs` 83-85 says so). So a statement is a step. The mutex of `Database` makes a process one sequential
caller, hence `at[p]`, where process `p` is between statements. `ProcessEnds` may happen at any of them and
`StatementFails` at any statement of a store (busy, disk full). `Ticks` and `StepsBack` move the clock that
`record_choice` reads before it takes the lock. `known`, `steppedBack` and `lapses` are history.

*Ranker.* `thread[id]` is the place of the thread of request `id`, named after what comes next: it asks the
dictionaries, pushes their merged rows, asks the model if there is one (`hasLlm`: the process of `main.rs` has none)
and pushes the merge of everything. Between these it looks at its token, in five places. Backends answer one of the
sets in `Answers`, fail (which counts as no rows) or panic (which ends the thread). `sent[id]` is everything pushed
into the sink of `id`, of which the worker has taken the first `pushes` entries; a push into a sink whose receiver is
gone ends the thread. Threads of earlier requests run on beside the present one. `late` counts pushes made after the
token had fired (history). Scores are the code's floating-point scores in hundredths, so that the weights 0.95, 1.0
and 0.5 are integers; a NaN is not among them.

*Letters.* A letter is a one-character string, a buffer a sequence of letters, the trie the set of keys in `RULES` and
of their beginnings. `Settle` is one round of the code's loops, `Normalize` the rounds until the letters left wait for
more (the recursive function `Rounds`), and `Letters` converts a text letter by letter (a recursive function too). What
the proofs use of the table is `RulesAssumption`, a closed formula that TLC evaluates in the run `text`. The
context keeps `mode`, `origin`, the letters held (`pending`), the *bytes* of the direct buffer and what the last call
answered. `typed` and `shown` are history: the letters since the converter was last empty by a call, and their kana.

## 3. Runs

| Run | Question | Bounds | Size |
|---|---|---|---|
| `core` (`MCConversionSystem.cfg`) | engine and worker: 9 invariants, 2 action properties, the refinements of `ConversionSession` and of `RankerPort`, every wanted request is answered, every request leaves the worker | one kana, three surfaces (one unsafe, lengths 1 and 2), 3 requests, preedit of 2, updates of each kind, 2 pushes a request, history of 2 characters, 2 panics | about 170 000 states, half a minute |
| `ranker` (`MCRankedWorker.cfg`) | windows hold their own rankings, at most one late push, rankings in order and at most two of them in an answer, nothing vanishes, and the worker with this ranker keeps the port's contract | 2 requests of 2 readings, 3 surfaces of which 2 fit, 2 pushes, 2 panics, with and without the model, ties and a surface named twice | under two minutes |
| `text` (`MCInputContext.cfg`) | letters held are stable, typed as converted whole, vowels always land; the types hold the byte limit and that only the buffer of the mode is in use | 19 letters that reach every branch of the conversion, a capital, chars of 3 and 4 bytes, 4 letters between two commits, a direct buffer of 5 bytes | seconds |
| `token` (`MCCancellationToken.cfg`) | no lost wakeup, every future of a fired token resolves | 3 tasks, 2 calls of `cancel` | seconds |
| `process` (`MCProcessLifecycle.cfg`) | keys reported truthfully, off means off, signals and ends of the loop, a panic included, lead to the end of the process | 2 keys, bridge of 3 events, 1 request, 1 output, 2 panics, both ways to start | about 0.9 M states, a minute |
| `storage` (`MCStorage.cfg`) | schema, quota, ids, cache limit, recency, version | engine and 2 command lines, 3 words and quota 1, 3 choices and limit 1, `evict_lru(0)`, a clock of 2 values, 4 calls | about 4.5 M states, over a minute |

Six further runs refute one statement each and are the findings of section 6.

**Why the bounds are enough.** The interesting cases need few objects: one request in the worker, one queued behind it
and one being issued; two rows so that order and highlight matter and a third that is filtered; a history that holds
one long or two short entries, so that it overflows by less and by more than it holds; a panic limit of 2, so that the
counter both resets and trips. In `process`, a key can wait for an answer while another is queued behind a Disable. In
`storage`, limits of 1 reach the full and the overfull table with two processes past the same check, three words let
an id be removed and a new one given meanwhile, and a clock of two values has ties and a step back. In `ranker`, two
requests are a thread that was left behind and the present one; three surfaces of which two fit make the cut, a tie, a
duplicate with another score and a row that the model or the learning cache lifts over others. In `text`, the longest
key has four letters, so four letters between two commits reach every key and every way to leave one; longer texts
only repeat from a buffer that is a beginning of a key. A buffer of 5 bytes takes one char of 3 or 4 bytes, not two,
and one of 3 with two letters. Each bound is a named constant with an assumption, and the proofs hold for all values.
`MaxPushes`, `MaxRequests`, `MaxPreedit`, `MaxEvents`, `MaxOutputs`, `MaxClock`, `MaxCalls` and `MaxTyped` bound
otherwise unbounded counters; `MaxChars` (200), `PanicLimit` (5), `VocabMaxRows` (50 000), `CacheMaxRows` (10 000),
`TopK` (10) and `MaxDirectBytes` are constants of the code with small values.

Deadlock is checked in `storage`, `core` and `text`, where a caller can always call. It is off for the token (all is
resolved), the process (it has ended) and the ranker (all requests are sent and answered), which may stop.

**Mutants.** Every property of every passing run has a mutant: an operator next to the original (named in a comment
"Mutant: ...") that changes it as a plausible bug would. With it in place TLC refutes the property in the same run.

## 4. Fairness

- `ConversionSystem!FairSpec`: the worker thread is scheduled (`WorkerReceive`, `WorkerExits`), `rank()` returns, fails
  or panics in the end (`LeaveRank`), each window has a deadline (`LIVE_WINDOW`, `COMMIT_WINDOW`, `COMMIT_SECOND_WINDOW`), and the engine
  loop comes back to its channel (`HandleOutput`). The user and the host owe nothing.
- `CancellationToken!Fairness`: threads inside `poll` and `cancel` run on, the mutex is fair enough that one that keeps
  asking gets it (SF), and an executor polls a woken task. Nobody has to call `cancel`.
- `ProcessLifecycle!FairSpec`: a message in the shutdown channel stays ready and `select!` picks among the ready
  channels at random, so it is taken in the end; the threads that end the process run, a loop that panicked included. The daemon, the user and the
  worker owe nothing.
- The storage has no liveness property: `busy_timeout` makes every call end, with success or failure.

## 5. Proofs

All theorems are checked by TLAPS with Z3, Zenon and LS4, for every value of the constants that satisfies the named
assumptions (`TextAssumption`, `PushAssumption`, `ProcessesAssumption` and so on, which TLC evaluates in the runs).

**Conversion.** `ConversionTypes` proves the types together with what they need (`TInv`: the panic counter, the
highlight inside the list). The properties themselves are not inductive: that an answer belongs to the present preedit
depends on the request it answers. `IInv` adds the *pipeline*: ids are handed out in order (`IdsIssued`), a request is
in one place only and has no answer before its first window closes (`IdsDistinct`), an error is the last answer
(`ErrorIsLast`), whatever is pending and unwanted has its token fired (`UnwantedAreCancelled`), and the active id is
tied to the present preedit from the request through the worker's buffers to the event (`ReadingsMatch`). `ScreenInv`
then has what the screen and the states say about each other. From `IInv` follow the invariants (types and the
index bound of the highlight come from `TInv`), that a commit is the highlighted candidate, and that the system implements
`ConversionSession`, step by step. That offers only grow needs one invariant more (`ChoiceStands`): the list on offer,
the answers under way for it and the worker's buffer each begin with the one before, because the second window appends
to the first; and the safe rows of a longer list begin with the safe rows of a shorter one (`SafeOnlyGrows`), since
the filter looks at one row at a time. `PickIsOnScreen` uses it: the screen shows a beginning of the list Enter picks
from, and all of it once the highlight has moved (`ShownInv`), because the answer that is not drawn (finding 3) puts
the highlight back on the first row. So rows may be missing on the screen, but none is committed unseen.

That the engine keeps its side of the port (`EngineKeepsItsSide`) needs two facts more: the request the engine waits
for is the last one it sent (`ActiveIsLast`), so that `cancel_active` fires the token of the last request or of none,
and a preedit stays within its bound (`PreeditFits`), so that a request is for one of the port's `Readings`.

The commit history is a list with a sum over it. All sums of suffixes are differences of one running sum, whose
existence, like all induction here, comes from the least number of a set of numbers. So the suffixes that fit are the
last ones without a gap, and `Push` keeps the longest of them: nothing that still fits is dropped
(`PushKeepsWhatFits`), and the bound holds for good (`HistoryIsBounded`, which `commit_history.rs` states in a comment).

**Token.** `TypeOK` contains the mutual exclusion. `NoLostWakeup` follows from two inductive facts: whoever sleeps
unwoken has left its waker, and once the token has fired, a waker that is registered, or about to be by a task that
looked at the flag too early, has a call that comes for it.

**Process.** The strengthening: a key has at most one event in the queue and no result yet (`QueuedOnce`), an answer
under way is the engine's result for the key that waits (`ReplyIsResult`), and for each position of the queue whether
the engine will take keys when it gets there (`OffBefore`, `OffWhenUnwanted`).

**Storage.** Three parts. `SchemaInv`: a process that has created part of a migration is the only one that has, and
the version is then the one before it, because the first object of a migration can be created once only; so whoever
sets a version sets the next one. `VocabInv` counts: rows plus processes between check and insert stay below quota
plus the number of command lines; ids are at most the counter. `CacheInv`: rows have distinct ids and keys, the excess
is exact while a call evicts, the row just recorded is the newest one if the cache is overfull, and times do not
exceed the clock unless it was set back. That eviction removes the right *number* of rows (`VictimsCounted`) is a
counting argument: the number of older rows is a bijection from the rows to an interval.

**Ranker.** `RInv` says what a thread has found and pushed where it stands (`FoundInv`, `SinkInv`), that no thread has
started before its request was taken (`StartInv`), how late its pushes can be (`PushInv`), and that the worker's
buffers are the last ranking it took from the job's sink (`WindowInv`), whatever threads of earlier requests still do.
From it follow that windows hold their own rankings, that at most one push is late, and that every step is one of
`RankerPort` or leaves it alone. The ranking itself is defined by position: a row stands where as many rows are ahead
of it. That this *is* a sequence rests on a lemma about finite total orders (`RanksAreAnInterval`), by which rankings
are in order, without a surface twice and within the cut (`RankingsAreInOrder`). The same theorem follows them through
the windows (`AnswerInv`): an answer to the engine is one ranking or two in a row, so it has at most twice `TopK` rows,
and only an answer of two windows can name a surface twice (finding 4). `NothingVanishes` compares two
rankings of one thread: its rows only grow (`GrowInv`), more rows never lower the best score of a surface, and a row
that falls out leaves a full ranking of better ones behind it.

**Input context.** The conversion is recursion: `Rounds` over the letters held, `Letters` over a text. The first section
of `InputContextProofs` gets induction and the existence of such functions from the least number of a set of numbers
(`LeastNumber`, `StepInduction`, `Recursion`): each round, and each letter taken off, leaves less. With them come the
equations of both functions, and that rounds end in letters which wait for more (`RoundsStop`). Such letters are the
beginning of a key, so converting them again gives them back (`HeldLettersStay`). What is typed is converted as a whole
(`TypingIsConverting`): the kana that are there already never change what a letter does (`RoundsBehind`), and the
inductive invariant `TextInv` ties the letters held to the text since the converter was last empty. A vowel lands
(`VowelsLand`), because a buffer that ends in one is a key or loses a letter before it. Two facts about the conversion
alone follow: what is left of a text is not changed by another conversion (`ConvertIsIdempotent`), and a text may be
cut anywhere (`ConvertIsAssociative`). The table enters only through `RulesAssumption`: keys are short, none begins
another, vowels are keys and end the keys they are in.

Only model-checked are the liveness properties, because fairness and ENABLED are outside what TLAPS proves:
`ActiveIsAnswered`, `RequestsAreFinished`, `FiredResolves`, `SignalEndsProcess` and `LoopEndEndsProcess`. Every
invariant, every action property and all three refinements that the passing runs check are proved. The modules with
theorems contain no RECURSIVE operator; where the code recurses or folds, the models have recursive functions.

## 6. Findings

Each is a statement of the repository that a run refutes; `PROJECT.json` quotes it.

1. `DisabledIsIdle`: when the send of a request fails, backspace and escape overwrite Idle with LiveConverting and open
   the candidate window of an engine that has just disabled itself (`transitions.rs` 133-136 and 260-263).
2. `NoStaleCandidates`: the callers clear the candidates before the dispatch, so the dispatch finds nothing to clear on
   the host, and the next window shows the old rows under a new preedit (`mod.rs` 179-181).
3. `ShownIsHeld`: the answer of the second window replaces the engine's list in CandidatesShown without a redraw; the
   rows on the screen and the list Enter picks from differ (`mod.rs` 183-185).
4. `NoDuplicateSurfaces`: the second window's rows are appended to the first's without the ranker's own deduplication.
5. `LoopRunsUntilStopped`: the reactor reports Disconnected as soon as one producer is gone, so that the worker's
   circuit breaker ends the whole process instead of disabling the engine.
6. `OpenNeverCollides`: migrations run outside a transaction and without IF NOT EXISTS. Two processes that open a fresh
   file at once collide, and after a death between a CREATE and the PRAGMA no open succeeds any more. What *does* hold,
   and is proved, is that nobody ever works with half a schema.

Met on the way: FocusIn and Enable are answered with a log line (documented stubs, `service.rs` 93-101), so that an
engine started as `main.rs` starts it takes no key; `set_mode(Direct)` out of a transient Direct keeps the direct
buffer, where `context.rs` 25-28 says that it is emptied at every step from transient to sticky; backspace over the
last kana leaves `candidates.items` filled in Idle; and `handle_escape` has a branch for CandidatesShown without a
preedit that is never taken. The last two are harmless. The lookup table is always sent with its cursor on row 0 (`kotoha-engine-ibus/src/types.rs`
200-201, 224 and 232), so that navigation never moves the highlight the user sees, although
`docs/specs/_uncategorized/p3-a-ibus-engine.md` (line 433) has `update_candidates` show it; the model has no cursor, and
`PickIsOnScreen` says only that the row picked is among those shown.

## 7. What the properties mean where the code promises less than its comments

- `QuotaHolds` allows one row more per command line beyond the first: "check + INSERT を同一 lock 下で" is a lock of one
  process. The proof shows that this is the most it can cost, whatever the number of processes.
- `CacheBounded` counts the call in progress and calls that lapsed between upsert and eviction; the next call that ends
  well repairs all of them.
- `RecordedIsKept` excepts a clock that was set back and lapsed calls: then a call may evict the row it has recorded.
- A key call that times out is reported as forwarded although the engine may still consume the key; the repository's
  IBus document (section 6.2) accepts that. `ConsumedWasHandled` is the direction that is promised.

- `TypedAsBatch` is about Hiragana between two calls that empty the converter; a text in several modes has no batch form.
- `NothingVanishes` is about the rankings of one request. What the worker makes of the second one is finding 4.

## 8. Not modelled

- Sanitizing (its verdict is a constant, its use is modelled), kana tables, key mapping, path resolution, validation of
  texts: pure functions of their arguments, for which unit tests are the better tool.
- Kanji backends and dictionaries: calls into llama.cpp and Sudachi, and read-only files. The ranker's model has them
  answer, fail or panic.
- The engine adapter and the learning port: forwarding and conversion of error types.
- D-Bus types, proxies, address discovery and the factory: serialisation without state. A D-Bus signal that fails is
  logged and forgotten by the code; in the models every signal arrives.
- `kotoha-dict list` and `show`, `kotoha-kanji`, and the parsing of arguments. Lookups and lists in the storage, which
  change nothing, and the mock stores, which are for tests.
- `recv_timeout` of the reactor, which nothing calls; the wiring of `main.rs` before the threads start, with the
  fallback to a stub ranker (which pushes nothing, a case the port allows).
- A loss of power under `synchronous = NORMAL`: only processes die.

About a third of the lines under `src/crates/` are program text; the rest are tests and comments. What the map leaves
out of it is for the most part the code listed here.

## 9. Plan

Done, in this order: (1) `EngineChannels`, `HostBridge`, `CommitHistory`, `KotohaEngine`, `RankerWorker`,
`ConversionSystem`, its abstract `ConversionSession` and its proofs, because everything a user sees passes through
them; (2) `CancellationToken`; (3) `ProcessLifecycle` with its proofs, later with a panic of the loop; (4) `Database`,
`UserVocab`, `LearningCache`, `Storage` with their proofs; (5) `MergeCandidates`, `RankerPort`, `HybridRanker`,
`RankedWorker`, the refinement of the port and their proofs; (6) `RomajiRules`, `Romaji`, `InputContext`; (7) the
proofs of `OffersOnlyGrow` and `PickIsOnScreen`; (8) the proofs of the conversion of letters from an assumption on the
table; (9) the engine's side of the port, which closes the argument from a key to a ranking; (10) the commit history.

Left:

1. A host bridge whose signals may fail, and what the next calls repair.
2. One module with the engine above the threads of `RankedWorker`. It would show nothing new about either, but would
   state as one theorem what section 2 argues from `KeepsItsSide` and `KeepsThePort`.
