# A verification development for IPMB

IPMB (`src/`) is a C11 library and three command line tools that parse,
validate, route, journal and replay binary messages of industrial devices. This
directory holds TLA+ models of the parts of the library that keep state, the
TLC configurations that check them on small instances, and TLAPS proofs of
their main properties for every instance. All paths below are relative to the
repository (`src/session/...` is the library's own `src` directory).

## The system

The library is sequential: it has no thread, lock, callback into itself, timer
or network, and nothing survives the process. Everything hard about it is in
three places.

* **Pointers that outlive a call.** An event log keeps pointers into a session
  tracker that goes on freeing them; a ring's checkpoint keeps the pointers of
  a ring that goes on freeing them; a migrate keeps a pointer into an array
  that its next line may move; a match keeps a pointer into an array that grows
  while it is scanned. Each is right for some orders of calls and wrong for
  others.
* **Calls that fail halfway.** Every operation may find `malloc` returning
  NULL between two of its assignments, and most callers drop the status.
* **Boundaries of integers and buffers.** Widths, wraps, lengths that are
  checked against one base and used against another.

So the "actors" of the models are the caller, who makes legal calls in any
order, and the allocator, which may refuse or may hand a freed address out
again.

### Inventory

| Component | State | Operations | Uses / used by | Hard part | What makes it correct |
|---|---|---|---|---|---|
| Session tracker `session/session_tracker.c` | chain of heap entries, `count` | init, upsert, find, terminate, free | used by event log, replay | half-done upserts, reuse of freed entries | the chain owns the heap; one entry per session; it is a map |
| Event log `replay/event_log.c` | growing array of snapshots, each an array of pointers into the tracker | init, snapshot, summarize, free | reads the tracker | pointers outlive entries; a slot is counted before its array exists | a pointer is good until its session ends; snapshots are whole |
| Replay engine `replay/replay_engine.c` | private tracker and log, summary | replay_journal, replay_bytes | tracker, log, journal | statuses dropped; summary read at the end through old pointers | the summary is a function of the journal; nothing leaks |
| Ring window `session/ring_window.c` | slots with buffers, head, one checkpoint of pointers | init, append/advance, checkpoint, rollback, free | none | rollback to pointers append has freed; failed checkpoint | sound until it wraps between checkpoint and rollback; a sliding window |
| Checkpoint store `session/checkpoint_store.c` (rule: `session/consistency_checker.c`) | growing array of items with growing buffers | append, migrate, free | none | a pointer kept over a realloc, an off-by-one, a lost buffer | appends are kept; migrates bounded |
| Journal `session/journal.c` | records with payload copies | parse, free | byte reader; replay | failure in the middle of a list | all records or none |
| State snapshot `replay/state_snapshot.c` | none | capture | tracker's entries | taken between two calls | what it copies only moves on while the session lives |
| Frame reader `protocol/frame_reader.c` | message with frames | parse, free, first_frame | byte reader, checksum; tools, security | failure in the middle, limits, CRC order | accepts exactly the well formed messages; all frames or none |
| Field decoder `protocol/field_decoder.c` | register map | decode, free | endian | range checked against one base, copied from another | reads stay inside the payload |
| Transport layer `protocol/transport_layer.c` | reassembly buffer | parse fragments, reassemble | endian | 32-bit wrap, overlap, gaps | writes stay inside the buffer, in the order of the list |
| Telemetry extractor `telemetry/extractor.c` | batch of points | extract, free | byte reader | two copies per item, failure between them | all points or none |
| Histogram, sample buffer, time series `telemetry/*.c` | bins; growing buffers | init, add, push, free | none | bound checked before an offset is added; growth | counts are conserved, bytes are kept |
| Rule lexer, parser, compiler `routing/rule_*.c` | AST, bytecode | lex, parse, compile, clone, free | route VM | defaults, signed values of unsigned fields | the code means what the rule says |
| Route VM `routing/route_vm.c` | stack, pc | evaluate | compiler's code, frames | stack limits, operands that skip | terminates, never leaves its stack or code |
| Match table `routing/match_table.c` | growing array of rules; results of one evaluation | add, evaluate, free | VM | pointer into a growing array, scores and priorities compared | the highest score wins |
| Codecs `codec/*.c` | none | encode, decode | endian | truncation, runs, widths | decode inverts encode |
| Utilities `util/*.c` | reader position | read, load, store, varint | everything | widths | reads stay inside, varints round-trip |
| Checksum `util/checksum.c`, `protocol/crc_table.c` | a running sum | sum a block, extend a sum | frame reader | bit order, the seam of two pieces | the remainder of a division; damage within four bytes is found |
| Storage `storage.c` | growing array of blocks | put, free | none | growth, failed copies | an index stays good |
| Security score `security.c` | none | score | messages | none | a sum over frames |
| Schema registry `protocol/schema_registry.c`, catalogs `protocol/protocol_spec.c`, `session/session_catalog.c` | constant tables | look up a field, an entry | none | a scan that only a row without an id ends; indexes of any size | a lookup is exact |
| Symbol table `routing/symbol_table.c` | none | number of a field's name | nothing calls it | none | agrees with the compiler |
| Diagnostics, ownership names, other tables | none | print, names | none | none | tables |
| Tools `apps/*/main.c`, fuzz programs `fuzz/*.c` | a file, a buffer, what the library gave them | parse, route, inspect, exercise | library | early returns, a file that changes while it is read | every exit releases what is owned, nothing is used that is not |

## Modules

| Module | Models | State in the model / in the code | Actions / functions |
|---|---|---|---|
| `SessionMap` | abstract: a partial map from session ids to what is known of a session | | |
| `SessionTracker` | `session/session_tracker.c` | `heap` (addresses to entries), `list` (the chain of addresses) / `head`, `next`; `count`, `status` | `Upsert...` on a known and a new session, with each allocation failing / `ipmb_session_upsert`; `Terminate...` / `ipmb_session_terminate`; `FreeTracker` |
| `EventLog` | `replay/event_log.c`, extends the tracker | `log` (snapshots: a length and addresses), `logCap` | `Snapshot` with its two allocations / `ipmb_event_log_snapshot`, `FreeLog`; every tracker call interleaves |
| `ReplayEngine` | `replay/replay_engine.c`, extends the log | `journal` (the records so far), `event_count`, `hashed`, `phase` | `Replay(record)` is one turn of the loop with the whole call it dispatches to; `Finish` summarizes and frees; `Crash` is a read through null |
| `SlidingWindow` | abstract: the last N values appended | | |
| `RingWindow` | `session/ring_window.c` | `segments`, `lengths`, `head`, the `snap_...` arrays, a heap of buffers | init, append (and advance), checkpoint, rollback, free |
| `CheckpointStore` | `session/checkpoint_store.c`, `consistency_checker.c` | `items`, `capacity` | append and migrate, both over `FindOrAdd`; free |
| `MatchTable` | `routing/match_table.c` | `rules`, `capacity`; the results and `best` of one scan | add with clone; a scan is one action per rule; free |
| `RouteVM` | `routing/route_vm.c` | `pc`, the stack | one action per instruction |
| `RouteTool` | `rule_parser.c`, `rule_compiler.c`, `apps/ipmb-route` | the rule's text, AST and code, then the machine's state | parse, compile (each emit may fail), the machine's instructions on that code, report |
| `Reader` | `util/byte_read.c` | a position | reads of a known total length |
| `MessageReader`, `TelemetryExtractor`, `RegisterMap`, `Fragments`, `JournalParser` | the five parsers: `protocol/frame_reader.c`, `telemetry/extractor.c`, `protocol/field_decoder.c`, `protocol/transport_layer.c`, `session/journal.c` | the structure filled in, the position, the allocated blocks | a header action, one action per item, each with every error path; free |
| `Inbound` | the callers of the five (`fuzz/full_pipeline_fuzzer.c`, the integration test, the tools, `ipmb_replay_bytes`) | which of them is at work, on which frame | parse a message, decode each frame's payload by one of three decoders, free; or parse a journal |
| `AllOrNothing` | abstract: what a parser of a counted array promises | the phase, the claimed number of items, the blocks allocated | start, an item with all its buffers, finish when none is missing, fail, release |
| `Codecs`, `Varint` | `codec/*.c`, `util/varint.c` | input, position, output | the decoders are loops with one action per pair, token or read; encoders are functions |
| `Stores` | `telemetry/histogram.c`, `sample_buffer.c`, `timeseries.c`, `storage.c` | bins; an array and its capacity | init, add, free; push, add, put, free |
| `AppendOnly` | abstract: what a growing store promises | the values, the place last told, whether the last call failed | put, fail, clear |
| `RuleLexer` | `routing/rule_lexer.c` | the text, the place in it, the tokens | one action per token |
| `Endian`, `Checksum` | `util/endian.c`, `util/checksum.c` over the polynomial of `protocol/crc_table.c`; the comparison in `frame_reader.c` | two sums, the sender's and the receiver's, as sets of bits | seed or extend, one shift of one bit, add a byte (damaged or not), return, compare |
| `Registries` | `protocol/schema_registry.c`, `protocol/protocol_spec.c`, `session/session_catalog.c` | the place of a scan, the entry returned; the tables are functions of the row's number | find, one step of the scan, an entry of a catalog |
| `Utilities` | the leaves above side by side; they share nothing, and a behaviour uses one | which | |
| `Drivers` | `apps/*/main.c`, `fuzz/*.c` | what the program has left to do, what it owns, what it measured and read of its file | a program is a term of calls that may fail, branches and loops; one action per step of it |
| `ReplayEngineProofs`, `RingWindowProofs`, `CheckpointStoreProofs`, `MatchTableProofs`, `InboundProofs`, `UtilitiesProofs`, `ProgramProofs` | the theorems about the modules they are named after (and those these extend); `ProgramProofs` is about `RouteVM`, `RouteTool` and `Drivers`; the run-length and delta codecs of `Codecs` are in `InboundProofs`, with what else makes something of bytes from outside | | |
| `Recursion` | induction, recursion, sums and remainders, for the proofs | | |
| `MC...` | instances for TLC: symmetry sets, payloads, inputs | | |

### Conventions

* **Memory.** An address that is freed may be handed out by the next
  allocation; this is how stale pointers become wrong answers rather than
  nothing. `realloc` and `malloc` may return NULL at any call when
  `AllocMayFail` holds, and the models follow the code's error path with what
  it leaves half done.
* **Undefined behaviour** is a choice: the outcome the build usually produces
  (the old bytes, the bytes of whoever got the address, a wrapped sum), or a
  state from which nothing more is claimed. Properties called `...Explained`
  say exactly what a caller must have done for that state to be reached.
* **Inputs** are revealed as they are read: a header, a record or an
  instruction is any of a small set at the moment the loop reaches it. No loop
  of the library looks ahead or back, so this loses nothing.
* **Auxiliary variables** (marked in their declarations) record what callers
  put in or were promised; no guard of an action of the code reads them, bounds
  apart.
* A definition commented as a *mutant* is a plausible bug in the definition
  that follows it. It is used by nothing; each property has been seen to fail
  with one of them in place.

## What the checks show

All runs but one pass; bounds are named in the modules and set in the `.cfg`
files. `TypeOK`s of the core are proved (below) rather than run.

| Run | States | Properties and what they say |
|---|---|---|
| `session_tracker` | 120 177 | `ChainOwnsHeap`: every allocated entry is in the chain once and `count` is its length, after failed upserts as well. `EntriesOnlyGrow`: an entry's bytes and updates are only appended to while it lives, and so a captured state only moves on. `ImplementsMap`: the tracker is a `SessionMap`, in which a failed upsert may leave an empty session. |
| `event_log` | 154 939 | `SnapshotsHold`: a pointer in a snapshot leads to its session until that session was ended. `SnapshotsWhole`: a snapshot lists each session once, all of them, or has no array at all. |
| `replay` | 709 880 | `SummaryFollowsJournal`: with no failed allocation and no session ended after a checkpoint that saw it, the summary is a function of the journal, and is made of the values at the *end* of the journal rather than at the checkpoints. `BadReadsExplained`: a read of a freed entry or of a null array has one of those two causes. `NothingLeft`: a finished replay leaves no entry and no snapshot. |
| `ring_window` | 60 756 | `WindowSound`: slots are live, distinct and hold what they should until a rollback brings back a freed buffer. `UndefinedExplained`: a double free needs a rollback to a checkpoint that was overwritten since, a copy from null one that failed. `BuffersOwned`: until a rollback the slots own exactly what is allocated. `ImplementsWindow`: without one the ring is a `SlidingWindow`. |
| `checkpoint_store` | 111 596 | `AppendsKept`: no session has two items, so that the lookups from the front and from the back agree, and one nothing was migrated to holds its bytes within its capacity, whatever else happened, and so appends alone are never undefined. `MigratesBounded`: a migrated one is one byte over at most and never holds another's bytes. `FailuresForgetOnlyDestination`. |
| `checkpoint_consistency` | | expected violation, see Findings |
| `match_table` | 180 890 | `HighestScoreWins`: the answer has the highest score, and the first such, unless a pointer went stale. `UnsoundExplained`: that takes two matches and an array that moved, or a sum over an int. `AddedRulesMatch`: the rules that can match are those whose add succeeded. |
| `route_vm` | 72 363 | `StaysInside`: stack and code are never left, `pc` apart, which an operand may push past the end once. `AnswersAtEnd`: the answer is the top of the stack at an END. `Terminates`. |
| `route_tool` | 9 128 | `DecidesAsWritten`: a compiled rule decides what its text says, with the fields numbered as the symbol table numbers them: for values below the sign bit of the value itself, for the others of the value as a signed int. |
| `inbound` | 29 299 | `MessageWhole`: an accepted message has as many frames as claimed, each with its payload, and they fill the buffer one behind the other without leaving it; a count without an array is left only by an error found between the two. `OverreadBounded`: a register field is copied from behind the payload by no more than the length of header and table. `FragmentsPlaced`: later fragments win, gaps are zero. `OverflowExplained`: a fragment outside its buffer needs a 32-bit wrap. `NothingLeft`: every path of the callers frees everything, but for the array of a message without frames when `ipmb-route` exits early. `AllOrNothingParsed`: four parsers implement `AllOrNothing`: they return `IPMB_OK` only when the array and the buffers of every item that the header claims are there, an error only when nothing is left to free, and what they returned the caller's free releases to the last block. |
| `utilities` | 400 571 | `RleRoundTrip`, `DeltaMeaning`, `VarintFaithful`, `BitsInOrder`: each decoder returns what its bytes mean by a definition without a loop, on truncated and malformed input as well, and inverts its encoder. `SamplesCounted`: bins count their samples unless an offset carries one past the end. `ImplementsAppendOnly`: the three arrays keep what was put in, where it was put, and a call that reports a failure has changed nothing. `WordsInOrder`: the tokens are the text's words in order, cut, and no more than there is room for. `CrcIsRemainder`: the bit loop is division of polynomials, over pieces of a block as over the whole. `DamageFound`: damage within two neighbouring bytes, of the block or of its stored sum, is refused, and nothing else is. `LookupExact`: a lookup finds the field of that id in the registry of 4499, and otherwise ends at the end of the table. |
| `drivers` | 1 484 | `OwnsWhatItUses`: no program uses, or releases, what it does not own at that point, and at its exit it owns nothing, but for `ipmb-route`, which leaves the array of a message without frames. `ReadsFit`: no more is read from a file than the buffer holds, while the file changes as well, and nothing but whole files is looked at; the one exception is the fuzz programs' own `main` on a stream whose length cannot be taken. |

### Bounds

Each bound is the smallest that reaches the case it is there for: three
sessions, so that an entry is unlinked at the front, in the middle and at the
end; as many addresses as sessions, so that freed ones are reused at once; five
records, so that a journal can establish, checkpoint, terminate, establish
again and checkpoint; first capacities of one or two, so that arrays grow more
than once; ring appends twice the slots, so that a wrap meets a rolled back
slot; three rules, so that two match before the array moves; codes of twelve
bytes over a stack of four, so that RANGE finds it empty, short, enough and
full; widths of a few bits, so that sums, runs and groups exceed them; limits
of two items with counts of three; two tokens of two characters and texts of
three words; files of none, one and two bytes, so that one can grow and shrink.
Real constants are used where nothing is gained from others: 4096 bytes of rule
code, the polynomial and the 32 bits of the checksum, the 4499, 900 and 260 rows
of the tables and their 16-bit codes. Blocks for the checksum are short (three
bytes and the four of the sum), which the theorem about damaged bytes makes
up for. What is not covered is what needs the other real constants, such as the
memory of a message of 1024 frames.

### Fairness

No specification assumes fairness but `RouteVM`'s `FairSpec`, which says that
the machine's loop goes on (weak fairness of its step): it is a loop of a
sequential function that waits for nothing. The library has no other process
whose progress could be asked for.

### Findings

* `checkpoint_consistency`: `ipmb_checkpoint_migrate`
  (`session/checkpoint_store.c:69-73`) leaves `used` one above `capacity`, which
  `ipmb_check_checkpoint_consistency` (`session/consistency_checker.c:5`)
  rejects. One append and one migrate suffice.
* Without a run of its own: `docs/FORMAT.md:7` (like `docs/SECURITY.md:7` and
  `docs/FUZZING.md:7`) says that a message contains "one or more" frames, and
  `ipmb_parse_message` (`protocol/frame_reader.c:55`) accepts one that claims
  none. `MessageWhole` therefore allows it, and the array that `ipmb-route`
  leaves behind (`NothingLeft`, `OwnsWhatItUses`) is that of such a message.

### Where the code goes wrong and the properties say when

Five hazards are limited by a condition of a property rather than excluded by
it, because the code does run into them: the buffers that a rollback forgets
(`BuffersOwned` holds until the first rollback), a migrate whose source has
moved (`AppendsKept`: only in a store something was migrated in), a best match
that has moved (`HighestScoreWins` as long as none was read, `UnsoundExplained`
for when), samples carried past the last bin by an offset (`SamplesCounted`),
and the length of a stream (`ReadsFit`, its one exception). Such a property
shows that nothing short of its condition does harm.

## What is proved

The proofs hold for every value of the constants: any number of sessions,
addresses, snapshots, records, slots and appends, under the named assumptions
of the modules (`...Assumption`), which TLC evaluates in the runs.

| Module | Theorems | Inductive invariant and why |
|---|---|---|
| `ReplayEngineProofs`, tracker | `TypeCorrect`, `ChainOwnsHeapAlways`, `OneEntryAlways`, `EntriesOnlyGrowAlways`, `TrackerImplementsMap` | `TrackerInv` is the three invariants together: that an unlinked entry is in the chain once needs both others, and the refinement mapping, which picks *the* entry of a session, needs uniqueness. |
| log | `LogTypeCorrect`, `SnapshotsHoldAlways`, `SnapshotsWholeAlways` | `LogInv` adds to `TrackerInv` that the auxiliary record of what each snapshot saw has the log's length. The step that matters is a tracker call that frees and one that allocates: an address that leaves the chain is marked stale in the same step (`StaysAllocated`). |
| engine | `ReplayTypeCorrect`, `NothingLeftAlways`, `BadReadsExplainedAlways`, `SummaryFollowsJournalAlways` | `ReplayInv` carries `LogInv` through the loop; `Finish` frees both. `CauseInv` relates the journal to the heap: a session in the tracker is one the journal established and has not ended (`KnownAreLive`), and each snapshot saw only such sessions (`SeenWereLive`); so a stale address means that the journal ends a session it checkpointed. `MirrorInv` says that without a failed allocation the whole state is a function of the journal so far: the chain lists the live sessions, the latest established first (`IsChain`, `TrackerMirrors`), each with as many updates as upserts since, and the log has a snapshot for every checkpoint, of the sessions that were live then, in the chain's order then (`CheckpointsTo`, `SnapshotMirrors`, `LogMirrors`). A snapshot without stale addresses then reads the chain's present values, which is what the summary adds up. |
| `RingWindowProofs` | `RingInvariant`, `TypeCorrect`, `WindowSoundAlways`, `UndefinedExplainedAlways`, `SafeUntilWrappedAlways`, `BuffersOwnedAlways`, `RingImplementsWindow` | `RingInv` adds that the two checkpoint arrays come and go together, that the checkpointed slots whose buffers were not freed since still hold what they held (`SnapshotSound`), and that until N appends no slot from the head on was ever used (`Unwrapped`). None of the four is inductive without these. For the refinement, `Contiguous` adds that the slots in use are all of them or those before the head, so that an append moves the window by one (`At` counts slots around the end of the array). |
| `CheckpointStoreProofs` | `TypeCorrect`, `UniqueSessionsAlways`, `AppendsKeptAlways`, `MigratesBoundedAlways`, `FailuresForgetAlways` | `StoreInv` says of every item what was written to its session (`Sound`), of the array that `find_or_add` hands on as of the store's own (`Good`), and that a session without an item has nothing written to it. The growth of a buffer is a loop, modelled by a recursive function: `GrowExists` gives a function that solves its equation, `GrowEnds` shows that any such ends with a capacity that is enough, by the pigeonhole principle instead of induction. |
| `MatchTableProofs` | `TypeCorrect`, `HighestScoreWinsAlways`, `UnsoundExplainedAlways`, `AddedRulesMatchAlways` | `MatchInv` says during a scan what the matches so far are matches of (`ResultsPassed`) and that the best of them is the first with the highest score among the rules passed (`BestWins`), as long as the scan is sound; at its end all rules were passed. |
| `ProgramProofs`, machine | `VMTypeCorrect`, `StaysInsideAlways`, `AnswersAtEndAlways`, `EndsSoonerAlways` | `VMInv` is the two with the types: the checks in front of an instruction bound what it reads and pushes. One lemma for all instructions that go on, one for all that fail. The measure is `TurnsLeft`, one for each byte of code not yet passed and one for the missing END: no instruction takes `pc` back (`ExecuteGoesOn`), so every turn makes it less (`EndsSooner`), and it is never above `MaxLen + 1` (`TurnsBound`). |
| tool | `DecidesAsWrittenAlways` | `ToolInv` says what each phase has made of the rule, and while it runs at which instruction of its code the machine is and what the ones before it left on the stack (`AtCompare`, `AtRange`, `Running`), up to the truth of what the rule says of the field as an int (`Says`). At the end that is compared with what it says of the field itself, below and from the sign bit on. Hypotheses: four places of stack and fifteen bytes of code, which a range needs; the code has 64 and 4096. |
| drivers | `OwnsWhatItUsesAlways`, `ReadsFitAlways` | `DriversInv` says that what the program has left to do is safe (`SafeTo`): the states it can get to are in a set that is closed under steps and in which each step is one it may take, which includes that no program stops without an exit. That the programs are safe to begin with is shown by the rules of a Hoare logic for their steps (`Leads`): one rule for each kind of step, one for sequences (`Then`), one for loops (`Anys`, from `Loop`), one for tables that may own an array (`Tables`). `ReadsFile` and `StandaloneEnds` are the two ways in which the programs read a file. |
| `InboundProofs` | `MessageWholeAlways`, `OverreadBoundedAlways`, `FragmentsPlacedAlways`, `OverflowExplainedAlways`, `NothingLeftAlways`, `ParsersAreAllOrNothing` | `InboundInv` is one invariant for each of the five parsers, that of its loop (the items before the one it is at are whole and own their blocks, those from it on own none, its position is within the input; so when it has passed the last, the blocks are all of those that `AllOrNothing` asks for), and `StageInv`, which says what each stage of the callers has already freed. `FramesFill` says of a message that there is a numbering of bytes in which each frame ends where the next begins; that the recursive `end` of the property is this numbering is by `Induction`. |
| `UtilitiesProofs` | `DamageFoundAlways`, `LookupIsExact`, `RegistryTypes`, `StoresImplementAppendOnly`, `SamplesCountedAlways`, `LexerKeepsOrder`, `VarintFaithfulAlways`, `BitsInOrderAlways`, `CrcIsRemainderAlways` | Checksum, with `Burst` at most 4, as many bytes as the sum has: from the first damaged byte on, the sums with and without the damage differ in a bit that no later damage can reach (`Differs`, the last part of `SumsInv`), because a turn of the loop is linear (`BitStepLinear`) and a bit that goes out at the bottom puts one in at the top (`StepsApart`); a stored sum of which byte k is damaged differs from the right one in no bit behind that byte (`ChangedStored`), so the two cannot meet. Five bytes could be damaged to the same sum, so the bound is the right one. Registry: the rows behind the scan's place have other ids, and the place is at most that of the row without one (`ScanInv`). Stores: what is used fits into the array (`ArrayInv`), with the growth loop as in `CheckpointStoreProofs`. Histogram: the property is inductive with the types (`HistInv`); the work is in the sum that is one larger when one more is counted (`CountedAtOneMore`) and in the counter that wraps (`CountsOn`). Lexer: the tokens are those of the words that start before the place the loop is at, the n-th being the word with n - 1 starts before it (`LexInv`); a finite set of starts is counted up as the loop passes each. Variable-length integers: what is left of a value behind some groups is a quotient, and there is one way only to write a number as a multiple of a weight and less than that weight (`RestOnce`); so the groups that were read are those that would be written (`EncodesDecoded`), unless the last is superfluous or leaves the width. Bits: a bit of a byte is a bit of the number (`BitOfNumber`), and a remainder gains its next bit when the modulus is doubled (`OneMoreBit`). Division: the sum is the 32 bits of what is left of the block from the bit on the loop is at (`CrcInv`), since a turn of the loop is a step of the division seen one bit further (`TurnDivides`), and a byte changes nothing of the division before it (`RestOfAppended`). That the older table's values are sums over their indices is that the loop is linear (`ByteStepLinear`) and four of the values are computed (`OneBitTurned`). |
| `InboundProofs`, codecs | `RleRoundTripAlways`, `DeltaMeaningAlways` | Run-length: the decoder stands at a border between two runs of the encoder, its output being the data up to there (`RleInv`); what the encoder makes of the data is what it makes of the two parts at a border (`EncodedInParts`). Delta: after p tokens the value and the number of copies are what the first p tokens mean (`DeltaInv`), by how a sum gains its last term (`ValueOfOneMore`, `CopiesOfOneMore`); that wrapping at every token is wrapping once is `WrappedTwice`. |
| `Recursion` | `Induction`, `LeastNumber`, `RecursiveExists`, `SumTakesOut`, `SumOfOneMore` | Induction for a *set* of numbers, from the pigeonhole principle for finite sets: it takes no operator as a parameter, so it can be cited. `RecursiveExists` shows that what a recursive definition over `0 .. n` stands for exists. `SumTakesOut` shows the same of the library's sum over a finite set, which is defined by recursion over sets, and that any term may be taken out of it first. The growth loops' function (`GrowExists`, `GrowEnds`) and remainders are here too. |

The theorems of `UtilitiesProofs` and those about codecs are about the
specifications of the single leaves (`CrcSpec`, `RegistrySpec`, `StoresSpec`, `LexSpec`, `RleSpec`,
`DeltaSpec`, `VarintSpec`, `BitSpec`), of which `Utilities` is the choice of one.

Only model-checked:

* `Terminates`, because it is liveness. That the machine takes no more than a
  bounded number of turns is proved (`EndsSoonerAlways`); that it takes the next
  one is the fairness of `FairSpec`, under which only TLC's run joins the two.

## What is not modelled

* **Hashes** are what is mixed into them, in order; whether a received message's
  checksums are right is a choice in `MessageReader`, and what that choice is
  worth is `Checksum`.
* **Printing and formatting** (`diagnostics.c`, `diagnostics_structured.c`,
  `telemetry/report_formatter.c`, `routing/rule_explain.c`) and names of
  statuses. Of reading files only lengths are modelled (`Drivers`).
* **Pure functions without a state or a caller whose answer would matter**:
  `security.c` adds up over the frames of a message, which `MessageWhole` says
  are there; `rule_analyzer.c` counts bytes; `ownership_model.c` names the
  values of an enumeration.
* **Stubs** (`protocol/profile_registry.c`, `routing/policy_planner.c`,
  `storage_index.c`), which check their arguments, and **tables nothing reads**
  (`protocol/protocol_catalog.c`, `routing/rule_catalog.c`,
  `telemetry/sensor_profiles.c`).
* **Tests** are callers: the orders of calls they make are among those the
  models allow.
* **Initialising twice, using before init and after free**, which the library
  leaves to its callers: the models make the calls its tests and drivers make,
  in any order.

Some modelled files are not among the sources that `CMakeLists.txt` builds
(`schema_registry.c`, `consistency_checker.c`); they are modelled as what a
program that does link them gets. In the schema registry's rows the offsets go
up by four while some fields are eight bytes long, so such a field overlaps its
neighbour; nothing in the repository decodes by these rows, and no property is
about it.

## Plan

Done, in this order: tracker, log, replay (the library's central path, with
its proofs); ring window (with proofs); checkpoint store; match table; route
machine (with proofs) and tool; the inbound parsers; codecs; stores; the
checksum, the lexer, the registries (with proofs); the programs around the
library; then the proofs of the match table, of what replay reads, of the
checkpoint store and of the stores' refinement; then induction in a form that
can be cited, and with it the proofs of the inbound parsers, of the ring's
refinement, of the replay's summary, of the lexer and of the histogram; then
sums over finite sets, and with them the proofs of the codecs, of the
variable-length integers and of the bit reader; then that the checksum is the
remainder of a division, by induction over the places of the block; then that
`ipmb-route` decides as its rule reads, and rules for programs of calls, with
which the tools and fuzz programs are proved; then that damage of as many
neighbouring bytes as the checksum has is found; then a measure for the
machine's loop.

Left: the lexer's tokens as `RouteTool`'s text, once texts of characters are
small enough for both to be checked together.
