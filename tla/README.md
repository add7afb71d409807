# TLA+ models of market-engine

market-engine captures a live market feed on one machine: it journals the raw
frames, builds order books from them, computes features, lets a paper bot trade
on them behind a risk kernel, and answers questions over MCP. This directory
holds TLA+ models of that program, TLC configurations that check them on small
instances, and proofs that TLAPS checks for every instance. `PROJECT.json` maps
each definition to the source lines it translates and lists runs, hazards,
findings and theorems.

    tlc -workers 2 -config feed.cfg MCEngine     # model-check one run
    tlapm EngineProofs.tla                       # check proofs

## 1. The system

    exchange --frames--> source --append/ack--> writer task --> journal file
                           |                        ^               |
                           | events (bounded FIFO)  | flush,        | replay
                           v                        | shutdown      v
                        event task --lock--> engine |          replayed engine
                                               ^    |
                           MCP server --lock---+  supervisor (run_source)

| Component | State | Operations |
|---|---|---|
| domain (`domain.rs`) | none | the canonical events |
| order book (`order_book.rs`) | two maps from price to size | `apply_snapshot`, `apply_changes`, `top`, `is_crossed` |
| features (`features.rs`) | none | `from_top` |
| feed quality (`quality.rs`) | a state out of seven, time of the last book update, last heartbeat sequence, gap count | `observe_heartbeat`, `observe_contiguous`, `accept_snapshot`, `accept_delta`, `mark_quarantined`, `refresh_staleness` |
| bot and account (`bot.rs`) | mid prices per product; positions, cash flow, fills | `on_features`, `fill` |
| risk kernel (`risk.rs`) | kill switch, two counters | `evaluate`, `trigger_kill_switch` |
| engine (`engine.rs`) | all of the above per product, last status per source | `handle`, `refresh_staleness`, `trigger_kill_switch`, `snapshot` |
| journal (`journal.rs`) | file, write buffer, command queue | `open`, `append`, `flush`, `shutdown`; `next_record`, `read_all` |
| Coinbase source (`source/coinbase.rs`) | connection, backoff, frame in hand | `run`, `run_session`, `decode_message` |
| mock source (`source/mock.rs`) | position in a fixed sequence | `run` |
| replay (`replay.rs`) | an engine of its own, a summary | `replay_coinbase_journal`, `summarize_journal` |
| MCP server (`mcp.rs`) | call times of the rate limiter, the line in hand | `serve_stdio`, `handle_request`, five tools |
| supervision (`main.rs`) | where the run is, cancel flag, first error | `run_source`, `run_offline_mcp` |

How they interact. One source per process appends each frame to the journal and
waits for the answer before it decodes the frame and sends the event into a
bounded channel. The event task alone takes events out and calls
`Engine::handle` under the write lock; every 2.5 s it refreshes staleness. MCP
calls take the same lock. At the end the supervisor sets a watch value, joins
the source, flushes and shuts the writer down, and awaits the event task.

What is hard, and what correctness means:

* *Engine and feed quality.* Snapshots, deltas, heartbeats, statuses and timer
  ticks in any order. Whoever reads VALID reads a sound book; features never
  outlive the book they came from; only a snapshot ends a quarantine; a stale
  book is noticed although no event arrives.
* *Trading.* Limits hold over sequences of orders; an order fills at the quote
  that triggered it; the kill switch also stops events already in the channel.
* *Order book.* Several entries for a price within a message.
* *Journal.* Errors and crashes between the three pieces of a record, between
  buffer, file and disk, and callers that wait when the task returns.
* *Journal file.* Several processes open one journal, die with its lock, and
  read it while it grows.
* *Replay.* A second engine that lacks the timer and the source's own statuses,
  and that goes on from run to run where the live one starts anew, has to come
  to the same books.
* *MCP server.* One answer to each request, in order; a limit that holds at its
  boundary; a kill switch that only a confirmed request triggers.
* *Live run.* Frames, events and statuses of several connections under way at
  once; journal before publication; shutdown in the right order; a cancel that
  is seen everywhere.

## 2. Modules

| Module | Models | Uses |
|---|---|---|
| `Domain` | `domain.rs`: products, sides, levels, changes | |
| `Lists` | two folds over sequences: what a set selects, and a sum | |
| `OrderBook` | `order_book.rs`, `features.rs` as operators | `Domain` |
| `OrderBookLoops` | the loops of `order_book.rs` step by step | `OrderBook` |
| `FeedQuality` | `quality.rs` as operators | `Domain` |
| `PaperTrading` | `bot.rs`, `risk.rs` as operators | `OrderBook`, `FeedQuality` |
| `Engine` | `engine.rs`: one action per event kind, refresh, kill switch | `PaperTrading` |
| `TradingDesk` | what the engine promises the owner of the account | |
| `MCEngine` | instances of `Engine` | `Engine` |
| `Replay`, `MCReplay` | `replay.rs`: a second engine fed from the journal, beside the live one | `Engine` twice |
| `Journal` | `journal.rs`: writer task, sink, buffer, crashes | |
| `DurableLog` | what a journal promises | |
| `JournalFile` | `journal.rs`, `replay.rs`: the lock, the file and its readers | |
| `Mcp` | `mcp.rs`: server, rate limiter, client's pipes | |
| `Capture` | a run: source (Coinbase or mock), writer, event task, supervisor | |
| `WriteAhead` | what capturing promises: journal first | |
| `ListLemmas`, `OrderBookLemmas` | facts about `Lists` and `OrderBook` that the proofs share | |
| `EngineProofs` | theorems and proofs about `Engine` and `Replay` | |
| `OrderBookLoopsProofs`, `JournalProofs`, `JournalFileProofs`, `CaptureProofs`, `McpProofs` | theorems and proofs about the module each is named after | |

**Engine.** `products` is the map of `ProductState`, where an absent product
equals a default one. A handler runs under the write lock, so it is one action:
`HandleSnapshot` is the whole `BookSnapshot` arm including
`maybe_run_paper_bot`, and so on. `AfterSnapshot`, `AfterDelta`,
`AfterHeartbeat`, `AfterReset` and `AfterRefresh` give the product an arm leaves
behind. An event carries the time its source received it at (`stamp`), which
lies between that of the event before and the wall clock (`now`): the channel is
FIFO and may lag. Decimals are naturals in ticks; the mid price, and all that is
computed from it, is counted in half ticks, and quotients are kept as exact
numerators, so nothing is rounded (the code rounds at 28 digits). The clock does
not run backwards.

**OrderBook and OrderBookLoops.** The engine's model wants the effect of a
message in one step, so `OrderBook` states it in closed form (the last entry for
a price decides). That this is what the loops compute is checked, and proved for
messages of any length, with `OrderBookLoops`, which runs them entry by entry.

**Journal.** A record is three `write_all` calls. The model counts those pieces,
the header being the first, and keeps three marks: `written` by the task, `filed`
in the file, `synced` on disk. `BufWriter` moves pieces to the file at a `Put` or
a flush; a failed write or a crash cuts the file between two pieces or inside one
(`ragged`). Length and checksum are taken to detect what is torn. Dropping the
receiver drops the queued commands and with them the answers their callers wait
for. Opening an existing file reads it to its end first.

**Replay.** The replaying engine is `INSTANCE Engine` over variables of its own.
Frames are journaled in the order in which their events reach the live engine,
so the replay is kept in step: after each frame it is what a replay of the
journal up to there yields. `HandleOwnStatus`, the timer (`Refresh`), the clock
(`Wait`) and the kill switch happen to the live engine alone. Every run appends
to the same file (`main.rs:191`) and a replay reads all of it (`replay.rs:65`),
but each run has a new engine: `EndRun`, at any point, discards the live engine
(a normal end or a crash), `ReplayUnhandledFrame` is a frame that the ended run
had journaled and not handled, and `StartRun` starts a later run. Frames that do
not decode and torn journals, on which a replay fails, are left to `Capture` and
`Journal`.

**JournalFile.** The file is the sequence of `write_all` pieces with the process
that wrote them. `open` is four steps, as in the code: open, lock, length, then
header or validation. A buffer drains piece by piece, which is what a reader can
see of a write; the reader is `next_record`, one piece at a time, and holds no
lock. `Kill` frees the lock and may leave a torn piece. `Journal` sees one
process and looks at what is durable; `JournalFile` sees several and justifies
the single writer that `Journal` assumes.

**Mcp.** A line is known by the branch it takes in `serve_stdio`,
`handle_request` and `call_tool`; all ways of failing an argument check are one.
The server handles one line, writes and flushes its answer and only then reads
on. `allow` is `CallTool` (the time is taken), `Expire` (one turn of its loop)
and `Grant` or `Refuse`. The pipes hold `PipeSize` lines; either end may be
closed. `owed` lists what the client waits for, against which the answers are
compared: by the rules of JSON-RPC but for one kind of line. An invalid request
without an id would be owed an error with a null id; the code takes it for a
notification and is silent (`mcp.rs:118`), and `IsOwed` follows the code there.
A request whose id is an explicit `null`, which the code answers, is left out.
Of the engine only the kill switch appears.

**Capture.** `source` is the place of the Coinbase source in `run` and
`run_session`, one value per await. Statuses go through the same channel as
frames. The writer is seen as its callers see it. The engine is reduced to the
connection its book stems from (`basis`), which is what decides whether two
connections can be mixed; the module `Engine` has the rest. Frames are
distinguished by what the decoder makes of them. `SelectFails` is the early
return of `run_source`, which drops the sender of the cancel value.
`ConsumerPanics` is a panic in the handler of a snapshot or a delta, the only
ones that compute with decimals; it drops the channel's receiver. In
mode `UntilSourceStops` the source is the mock source: `MockFrame` makes the
snapshot and then `MockEvents` deltas, which take the same way through writer and
channel, and `MockFlush` ends it.

## 3. What is checked

| Run | Instance | Question |
|---|---|---|
| `feed` | 2 products, 3 prices, 3 snapshots, 3 deltas, clock to 1 | the feed quality machine and the books |
| `trading` | 1 product, 4 prices, 3 fills, clock to 1 | bot, risk, account, `TradingDesk` |
| `replay` | 1 product, 3 prices, heartbeats to 2, clock to 2, age limit 1, any number of runs | a replay of all runs rebuilds the live books; staleness is noticed |
| `order_book_loops` | messages of up to 2 entries, 2 prices, 2 sizes | loops equal closed forms; features bounded |
| `journal` | 2 callers, 3 records, queue of 1 | durability, alignment, calls return |
| `journal_file` | 2 processes, 3 records, buffers of 3 pieces, a reader | one journal, no leaked lock, true summaries |
| `capture` | 2 connections, 3 frames, 2 mock events, channel of 2, all four modes | journal first, no mixed books, complete return, last book replayed, a stopped run ends |
| `mcp` | 2 ids, pipes of 1, 2 calls per window of 2 ticks, clock to 3 | limiter, answers, kill switch |

Bounds and why they are enough. The engine's products share nothing but the
source's status, the account and the clock, so two of them show all interplay;
three prices give sound, locked, crossed and one-sided books; a clock with as
many ticks as the age limit plus one shows both sides of it, and lag of the
channel is a choice of `at` below `now`. `Lookback` is 2 instead of 20: the
window is full, slides and is reset by nothing. `trading` prices lie so that a
move can be over the threshold both ways, a notional over the limit, and a
position at it. Counters stop at `CounterMax` = 1 or 2, in place of `u64::MAX`,
which puts saturation in reach. `MaxSequence`, `MaxTime`, `MaxFills`,
`MaxEntries`, `MaxSessions`, `MaxFrames` and `MaxPieces` bound what only grows. Three records
let a crash cut the file behind, inside and before a record of an earlier
process; two callers let one wait behind another's failure. Two connections and
a channel of two let events of both wait together. With a window of two ticks
and a clock to three, calls fall inside a window, exactly one window apart and
beyond; pipes of one line fill up, and three requests can be under way (read,
being answered, answered). Two processes are enough for every race on the lock,
since it admits one.

Fairness. `replay`: weak fairness of the refresh alone, because `select!` polls
its branches in random order and so serves the interval however busy the channel
is. `journal`: weak fairness of the writer's own steps; failures and crashes
have none, and `EveryCallReturns` speaks of calls whose command is in the queue,
not of callers that still wait for room in it. `capture`: weak fairness of the steps of the four tasks, strong
fairness of the cancel branch (each turn of the loop polls it in random order),
and weak fairness of `Connect`: the exchange answers. That last one is an
assumption about the environment: `connect_async` has no timeout and is not
selected against the cancel value. Arriving frames, lost connections, errors,
panics and interrupts are never fair. `mcp`: weak fairness of the server, and of
the client's taking of answers; without the latter a full pipe stops both, as it
does in the code, which does not read while it writes. `CHECK_DEADLOCK FALSE`
stands where the system may stop: a run is over, a server has ended, or a torn
journal cannot be opened.

Refinements. `Engine` implements `TradingDesk`: positions move by one order, on a
quote that is trusted after the step, within the limit, never after a halt.
`Journal` implements `DurableLog`: what is lost is lost from the end and was in
no checkpoint. `Capture` implements `WriteAhead`: what the engine has applied is
a prefix of what the journal decodes to. `Replay` compares two instances of
`Engine`: while the live one has a book of the current connection, the replayed
one has the same book, whatever earlier runs left in the journal. In the first
run of a journal it has the same quality and features too, except that only the
live one can be marked stale. In a later run the replay may trust less: heartbeat
numbers start anew with each live engine (`quality.rs:57`), not in the replay, so
a number that an earlier run had passed quarantines the product in the replay
alone, until the next snapshot. It never trusts a book that the live engine
distrusts for another reason than its age. What they do not agree on without a
live book is `capture_replay`, below; and `LastBookIsReplayed` of `capture` shows
that it goes one way: a book that a run still has is the one its replay ends with.

## 4. Where code and documentation differ

Four runs check a sentence of the documentation and end in a counterexample.

* `stale_fill`: "recently updated" is judged at the event's receive time, not
  at the time of the fill (`engine.rs:227`).
* `journal_torn`: after a crash inside a record, flushed records can no longer
  be replayed, nor the journal reopened (`journal.rs:198`, `:243`).
* `capture_no_writer`: a capture without a writer goes on for ever
  (`source/coinbase.rs:66`). With a valid configuration and no cancel, the source
  of a run whose writer died ends neither normally nor with an error: after the
  append that fails it reports "disconnected", backs off and opens another
  connection. `MaxSessions` = 2 ends the connections of the counterexample, so
  that it closes its loop with attempts that fail; in the program each further
  connection comes to an append that fails.
* `capture_replay`: the statuses that drop a book are not journaled, so a
  replay may end with a VALID book that the run had quarantined.

## 5. What is proved

`OrderBookLemmas` shows the types of the book operators for arbitrary finite or
infinite sets of prices and sizes, and that a two-sided uncrossed book has
features within their bounds. `EngineProofs` proves of `Spec`, for every value
of the constants under the assumptions named in the modules (prices and sizes
are positive naturals, `None` is none of the values it stands beside, the
snapshots and deltas are well typed):

* `TypeOK`, `ValidBookIsSound`, `FeaturesTrackBook`, `RiskLimitsHold` and
  `AccountReconciles` as invariants;
* `HardInvalidLatched`, `KillSwitchHalts` and `FillsOnlyAtCurrentQuote` as
  action properties;
* `ImplementsDesk`, the refinement of `TradingDesk`.

`OnlySnapshotsRecover` there is the comment on `accept_snapshot` ("the only
operation allowed to clear a hard-invalid state") for each method of
`FeedQuality`, `observe_contiguous` included, which nothing calls yet.

The inductive invariant is `EngineInv`. It says of each product
(`SoundProduct`) that it is well typed, that a VALID one has a snapshot, a book
that is not crossed and a last update that is not later than `stamp`, and that
its features are those of its book or none; and of the account and the history
(`TradingInv`) that they are well typed and within the limits. None of these is
inductive alone: that features match the book after a heartbeat or a refresh,
which do not look at the book, needs the equation before the step; that a trade
leaves a sound product needs `lastBookAt` to be at most the old `stamp`, which
never decreases; that a fill keeps the position's limit needs the position to be
an integer and the features that priced the order to be those of a real book, so
that the order is well typed. Each `After...` operator maps a sound product to a
sound one (one lemma each), the actions cite those lemmas, and the action
properties and the refinement use `EngineInv` for the state before the step.
`AccountReconciles` compares the account with the sum of all its fills; `Total`
of a longer history is the old one plus the fill (`TotalAppend`).

`EngineProofs` also proves `ReplayRebuildsLiveBooks` of `ReplaySpec`. Two instances of
`Engine` have two copies of every operator; `SameCode` shows that the copies
compute the same. `ReplayInv` adds to `EngineInv` that the replayed products are
sound and that each pair of products agrees (`Agree`): the replay has heard what
the live engine has (`Heard`), and, while the live one has a snapshot, it has the
same book. The first half is why a snapshot is enough to bring them together
again whatever the live engine went through alone: the number decides the next
quarantine and no reset forgets it. In the first run the two numbers are equal;
later the live one is none or at most the other, so that what the live engine
refuses is refused by the replay, and that is all `SameBook` asks for then. A new
engine satisfies `EngineInv` at any time (`NewEngineIsSound`), which gives the
step `EndRun`.

`OrderBookLoopsProofs` proves of `LoopSpec` the four invariants of the run, for
messages of any number of entries, prices and sizes, from any book the loops
build: `LoopTypeOK`, `LoopsAgree`, `RestAgrees` and `FeaturesBounded`. Both
closed forms are instances of one (`Merged`: a side after those entries of a
message that are in a set), and `LoopInv` says that what is left of the loop
makes of the book so far what the closed form makes of the book before the
message. `MergedHead` is the heart of it: putting the first entry into the side
and then merging the others is merging all of them, whether a later entry names
its price again or not. A snapshot's loop runs over bids and then asks, of which
each side takes its part (`LeftPartMerged`, `RightPartMerged`).

`JournalProofs` proves `TypeOK`, `SafeSurvives`, `AcceptedIsWhole`,
`RecordsAreAligned` and `ImplementsDurableLog` for any clients, records and
capacity. `JournalInv` ties the marks to the records: the stream has as many
records as were begun among the pieces written (`StreamMatchesPieces`), and only
within an append is a record incomplete, namely the one the command is about
(`TaskIsInStep`). Without the latter a completed record could not be said to be
the one acknowledged. The arithmetic of pieces and records is in `NextPiece` and
`MorePieces`. Under the refinement the last piece of a record appends it, a sync
is a checkpoint, a crash or failure loses a tail, and all else stutters.

`JournalFileProofs` proves `TypeOK`, `FileIsOneJournal`, `LockIsHeldByAWriter` and
`SummaryIsTrue` for any number of processes and files and buffers of any length.
`FileInv` says that whoever is past the lock holds it and that what it found out
about the file is still so (`Exclusion`), that the file and then the writer's
buffer go on as a reader expects (`WritersInStep`), and what the reader has
counted up to its position (`ReaderInStep`).

`CaptureProofs` proves `TypeOK`, `NoMixedBooks` and `NoBookOffline` for any
capacity, sessions and frames. Both speak of the head of the channel, so
`ChannelInStep` speaks of all of it: between any event that makes a book and a
later delta of another connection there is a status that resets the book
(`DeltasMeetTheirBook`); the next event to be sent would find the book of the
current connection or none; and none while the source connects or waits, which
is why the statuses that are sent there are what keeps connections apart.

The same module proves `CompleteOnReturn`, `MockRunIsComplete`,
`ImplementsWriteAhead` and `LastBookIsReplayed`. `CompletionInv` adds to the
above that nothing is skipped: what the engine handled, then what the channel
holds, then what the source is about to publish is what the journal decodes to
(`NothingSkipped`); once the event task has panicked only the first of these is
still a beginning of it. `EndInStep` says that an event task that is done leaves
an empty channel behind a source that is done, and that a run returns only
behind both; and `MockInStep` counts the frames of a mock run, which is cut
short only by an error. Under the refinement an `append` that succeeds adds to
the log, a handled event is the next one that decodes, and all else stutters.
`LastBookIsReplayed` follows from `CompleteOnReturn` and
`BookIsOfWhatWasHandled`: whatever reconnects and statuses lie behind, a book
the engine has is the one that the frames it handled lead to
(`LastOriginAppend`), since a status only takes a book away.

`McpProofs` proves `TypeOK`, `RateBounded`, `RefusedOnlyWhenFull`,
`AnswersMatchRequests` and `KillSwitchIsDeliberate` for every limit, window,
client and size of the pipes. `LimiterInv` relates the deque to the history of
calls: the deque is the end of the history (`DequeIsSuffix`), what it forgot is
at least a window older than the time that counts (`ForgottenIsOld`), and no
call lies ahead of that time. `RateBounded` is not inductive alone: when a call
is let through, the one `Limit` places before it must be among the forgotten
ones, which follows from the length of the deque. `ConversationInv` goes through
what the client waits for: first the answers under way (`AnswersInOrder`), then
the requests not handled yet (`RequestsInOrder`), nothing else; and every line
under way that asks to kill was confirmed by the client (`KillsAreConfirmed`).
One assumption is needed: `None`, which stands for no answer, is none.

`ListLemmas` has what these proofs need of `Selected` and `Total`: type, empty
sequence, one element more at either end. Both are recursive functions, and the
lemmas about them go by the least natural number for which they would fail
(`LeastNatural`, `Induction`), because the library's induction theorems take an
operator as a parameter, which the provers cannot instantiate.

Only model-checked: liveness, which is beyond the prover (`StaleNoticed`,
`EveryCallReturns`, `StopIsHonoured`, `MockRunEnds`, `EveryRequestIsAnswered`),
and the four counterexamples of section 4. Every other property of the passing
runs is a theorem.

## 6. Plan

All components with state of their own are modelled, and the safety properties
that are checked are proved. What could follow: what the abstract specifications
imply by themselves; the byte counts and time range of a summary; decimals that
are rounded and that overflow, which `ConsumerPanics` stands for now.

## 7. What is not modelled

Command line, logging, configuration and path handling; the text of JSON-RPC
messages, the single argument checks and tool descriptions; the text of reasons and details; JSON
parsing, of which only the outcome counts; identifiers (UUIDs); display fields
(`last_update_at`, level counts, `last_heartbeat_at`); `fees`, which nothing
changes; the byte counts and time range of
a summary; rounding and overflow of decimals; a clock that jumps.
The durability of the directory entry of a new journal is left to the file
system.
