# SignalScope-S3 in TLA+

SignalScope-S3 is a CAN gateway on an ESP32-S3. It sits between two buses, passes
every frame from one to the other, may change frames on the way by rules, keeps a
dictionary of the latest frame of each identifier, decodes signals with a DBC file,
replays recorded logs, and is driven from a browser over HTTP. The web pages it serves
hold a good part of the logic: one drives the gateway, the others edit the curves, maps,
mappings and behaviour profiles of OpenHaldex, a device whose firmware is not in the
repository. This directory holds TLA+ modules that model gateway and pages, TLC
configurations that check them, and proofs that TLAPS checks. Line numbers refer to
`src/`; those of JavaScript files are in `src/data/assets/js/`, abbreviated FU
(openhaldex-firmware-ui.js), OV (openhaldex-firmware-overrides.js), LU
(openhaldex-legacy-ui.js), BB (behavior-builder.js), and in `src/data/signalscope.js`.

```
tlc -config RulePath.cfg MCRulePath        # a run; all of them are in PROJECT.json
tlapm MutationEngineProofs.tla             # the proofs
```

Contents: 1 the system, 2 how modules correspond to code, 3 the runs, 4 bounds,
5 fairness, 6 proofs, 7 disagreements with the documentation, 8 other observations,
9 what is not modelled, 10 plan.

## 1. The system

**The device.** Two FreeRTOS tasks share the program's objects. There is no lock anywhere.

* The **CAN task** (`canRuntimeTask`, main.cpp:801-872) is woken by a 200 microsecond
  timer. Each round it polls bus A and bus B into a ring (`pollCanIngress`,
  622-642), drains the ring through `GatewayCore::forwardFrame`, lets the replay
  engine inject frames, and once a second rolls the statistics.
* The **UI task** (`uiRuntimeTask`, main.cpp:874-879) serves one HTTP request at a
  time and then waits 5 ms. All changes of configuration are made by its handlers.

They meet in atomics (rule modes and values, the pointer to the active rule table,
the observation mode and table, the pointer to the DBC database, sequence counters of
the frame cache) and in plain fields that both of them write (the replay engine, the
changes watch, the signal cache). Calls run from `forwardFrame` (gateway.cpp:154-226) to
all others: `hasRulesForFrame` and `isObserved` decide between the direct path and the
active one, `applyFrameMutations` changes the frame, `decodeObservedFrame` fills the
signal cache, then the frame is sent and shown to the frame cache and the changes watch.

**The pages.** A page has one thread. Its handlers run until they await an answer; there
other handlers run, the user acts, timers poll, and answers come in any order or not at
all. What a handler read before an await may be old after it.

| component | state | operations | hard because | correct when |
|---|---|---|---|---|
| gateway, ingress (core/gateway, main.cpp) | ring, counters, windows | push, drain, forward, inject, roll | two buses share one bounded ring; a pass can overfill it | frames are kept in order or counted as dropped; the buses take turns; figures add up |
| mutation engine (core/mutation_engine) | staging area, shadow, two tables, modes, values | stage, clear, revert, commit, remove, clear rules, set mode or value | slots are reused; the tables are swapped under a running frame; single shots are spent by one task and armed by the other | it is a draft and a live set of rules; a frame sees one table; a shot is fired once |
| frame cache (core/frame_cache) | open-addressed table, a sequence counter per row | update, snapshot | reader copies rows while the writer writes | no torn row; one row per key; the rows say what happened |
| changes watch (core/frame_changes_watch, main.cpp) | table of marks, session, baseline | start, fix, compare, reset; observe | marks, dictionary and baseline are read one after the other with frames in between | the baseline holds exactly the bytes that did not move |
| observation (core/observation_manager) | mode, key set | set, clear; test | read per frame, changed in several steps | frames are decoded if observed |
| signal cache, DBC lifecycle (core/signal_cache, main.cpp) | database, cache, decode_all, file in flash | upload, unload, boot; decode | parsed in place, reset while decoding, power may fail | cache and database agree; nothing outlives its database |
| replay engine (core/replay_engine) | log, cursor, due time | load, start, stop, tick | UI and CAN task write the same plain fields; the clock wraps | the log is sent in order and stops when told |
| SignalScope page (signalscope.js) | rule rows, buttons, database, watch | stage, commit, toggle, remove, upload, observe, watch, poll | each click is several requests; polls overtake clicks; rule ids are reused | a row's buttons act on its rule; at rest the page shows the device |
| its table and editors | live table, pause, filter, selection, form, bit editor | status, pause, select, edit, stage | editors, form and polls write one another's fields; two byte orders | what is staged makes the frame that is shown |
| OpenHaldex requests (FU) | API base and its sources | fetch, fall back, reload | all requests share the base that one of them changes | all pages talk to one device; the origin is tried |
| curve pages (FU) | points, rows, settings | edit, load, save, poll | rows that are typed but not read; settings shared by three pages | at rest the rows show the device's curve; other settings are kept |
| setup page (FU, OV) | inputs, slots, mappings, signal lists, profile | load, pick, assign, add, remove, save | two scripts with their own copies on one page | leaving the page loses nothing that its second script keeps |
| map page (LU) | table, selection, file list, current map | edit, shape, load, save, delete, export, import | a save is two posts; texts need not fit | an exported map comes back; what is saved is what was shown |
| behaviour builder (BB) | profiles, rules, alerts | edit, load, save, toggle, import, export | ids are clamped, removed and referred to; a field is sent in another form than it is kept in | rules have profiles; nothing in force is lost by saving |
| theme shell (app.js, config.js) | window, menu, backdrop, configuration | resize, open, close, set, reload | three listeners change one menu | a backdrop is under an open menu only |
| DBC parser (core/dbc_parser) | tables filled by a text | parse, clear | line formats | tables hold what the text says |
| signal codec (core/signal_codec) | none | extract, insert | two byte orders, sign, scaling | page and device read bits alike |
| bus statistics, CPU load | counters and windows | roll | rounding, wrap | figures add up |
| persistence (fs/persistence) | a stub | begin | nothing reads it back | |
| HTTP and JSON (main.cpp) | none of its own | handlers | argument parsing | |
| home, wifi, logs, diagnostics, CAN view (FU, LU) | lists to print | poll, start | overlapping reads | |

## 2. Modules

Each action is one handler or method (modules about sequential behaviour), one load
or store of shared state (modules about the two tasks), or what a page's handler does from
one await to the next (modules about pages). Definitions have the names of
the functions and fields they stand for, so that `ApplyCommit` is `applyCommit` and
`queue_head` is `queue_head_`. `PROJECT.json` maps every definition to its lines. A
definition `XMutant` is a faulty version of `X`, kept to show that the property it is
listed with notices the fault.

| module | models | grain |
|---|---|---|
| `RuleSet` | what the rules API promises: a draft and a live set | abstract |
| `MutationEngine` | core/mutation_engine.cpp as its handlers use it | a call |
| `RulePath` | the same engine between UI and CAN task, and the fast-path test of the gateway | a load or store |
| `FrameCache` | core/frame_cache.cpp: probing, the sequence lock, retries | a load or store; a row's body and its metadata are two steps |
| `BoundedFifo` | what the ingress queue promises | abstract |
| `Gateway` | polling, ring, forwarding, replayed frames, windows | a frame |
| `Replay` | core/replay_engine.cpp between both tasks | a load or store |
| `ChangesWatch` | core/frame_changes_watch.cpp and its handler | a load or store |
| `DbcLifecycle` | upload, unload, boot, observation, decoding, flash | a load or store |
| `ScopePage` | the SignalScope page's dialogue with main.cpp: rules, database, observation, watch | a request sent, served, answered or lost |
| `ScopeEditor` | the page's live table, mutation form and bit editor, and the engine's writing of a REPLACE | a handler |
| `PageCalls` | what OpenHaldex pages share: one page is open, requests overlap, the user acts | |
| `FirmwareApi` | `request` and `initApiBase` (FU): base, fallback, reload | a request, an answer |
| `CurvePage` | the speed, throttle and rpm pages (FU) | a handler up to its await |
| `SetupPage` | the setup page with both of its scripts (FU, OV) | a handler up to its await |
| `MapEditor` | the map page (LU) | a handler up to its await |
| `BehaviorBuilder` | the behaviour builder (BB) | a handler up to its await |
| `Shell` | menus and configuration of the theme (app.js, config.js) | an event |
| `WebPages` | the pages from `ScopeEditor` to `Shell` together: which one is open | |
| `...Proofs` | theorems (section 6) | |
| `MC...` | the constants of the runs | |

Composition. `MutationEngine` implements `RuleSet` and `Gateway` implements
`BoundedFifo`, each by an `INSTANCE ... WITH`, checked as a property and proved. `RulePath`
contains `forwardFrame`'s decision as well as the engine, `ChangesWatch` contains the frame
dictionary, `Gateway` takes rules and observation as the free choice of a path,
`DbcLifecycle` contains observation, rules and replay as far as a change of database
concerns them, and `ScopePage` is page and device with a network between them. `WebPages`
joins the pages that talk to the OpenHaldex device: they share `calls`, the requests under
way, and each page has its own state.

Abstractions. Rules write a *set* of bits, so that overlap and order matter but not
their arithmetic; in `ScopeEditor` they write numbers, bit by bit. In `RulePath` a rule is
its *edition*: two stagings of a slot differ only in that. In `DbcLifecycle` a signal's
value is the database that decoded it and a database describes one message. In `Replay` a
frame is its position in the log. Tables that are found by hashing are maps, but for
`FrameCache`, whose subject hashing is. The OpenHaldex device keeps what it is sent; after
a request that threw, nobody knows whether it has. In `ScopePage` the status handler answers
with the state it finds when it is served; a request may be served long after it
was sent and its answer seen longer after that. In `MapEditor` texts are sequences of lines of
numbers. In `BehaviorBuilder` a condition is its signal and its switch.

Memory order. Atomics are modelled as sequentially consistent and the plain fields of
a row in program order. For the sequence lock that is an idealisation: the code has
acquire and release on the counter and plain accesses to the row, and the C++ standard
allows more.

## 3. Runs

Ten runs whose properties hold:

* **mutation_engine**. `OneRulePerIdentity`; `ShadowMatchesTable`: the active table is
  the compilation of the shadow that revert and remove start from. `AppliedInStageOrder`:
  every range before every raw mask (`RangesBeforeMasks`), and rules of one kind in the order first
  staged (`FirstStagedFirst`), as long as the sequence numbers last. `RemovalTouchesOneRule`:
  removing a rule leaves bits, mode and value of the others. `ImplementsRuleSet`: only commit,
  remove and clear change the live rules, whatever is done to the draft in between.
* **rule_path**. `FrameSeesOneTable`: a frame that is under way when a commit swaps the
  tables ends with the rules it began with. `FiresOncePerArming`: however arming,
  disarming, commits and frames interleave, a single shot fires at most once.
* **rule_path_live**. `ArmedRuleFires`: the precheck does not hide an armed rule for good.
* **frame_cache**. `NoTornRow`: every row of a snapshot is one that stood in the
  table. `OneEntryPerKey`: no key gets a second row behind a collision.
  `SettledRowsListed`: a row that no update touched during the snapshot is in it.
  `EntriesAreTrue` (`HoldsLastFrame`, `ChangesRelateToPreviousFrame`): rows hold the last
  frame, and what they say changed is relative to the one before, as far as both are long.
* **gateway**. `CountsAddUp` (`FramesConserved`, `GaugeCoversRing`, `WindowsAddUp`): each frame read
  is forwarded, queued or counted as dropped, and depth and frame rates on the status page do not
  understate. `FramesInOrder` (`ImplementsFifo`, `OrderPreserved`): nothing overtakes.
  `DropsNeedAFullBurst`: only a pass that reads as many frames as the ring holds may drop.
  `BusesTakeTurns`: while a frame waits on one bus, no more than a poll's share is read from the
  other, over however many passes, and no more than two shares between two drains. No fairness
  is needed to say that a bus which never falls silent keeps nothing waiting.
* **replay**. `UndisturbedReplayInOrder` and `StopsWithinOneFrame`, wherever the clock wraps.
* **changes_watch**. `StableBytesStood`: no byte that moved in a frame observed
  from start to end is in the baseline (`MovedBytesAreNotStable`), and dictionary and watch, two
  tables of their own, have the same keys (`SameKeysTracked`). `DroppedBytesMoved`: conversely
  bytes left out did move, unless a reset met a frame in flight or a watch was restarted.
* **dbc_lifecycle**. `CacheTellsDbc`: between requests the cache lists, index by index, the
  signals of the database installed last, through unloads, power failures and boots that try
  one file after the other; the database is that one too or, after an upload that failed,
  empty under a cache that still lists the old signals (`IndexesAgree`); with all frames observed
  and no request in the way, every signal of a frame is decoded (`ObservingAllDecodes`); at most one
  value is of another database than its name, and none, valid, if no frame met the replacement
  (`ValuesMatchNames`).
  `NothingOutlivesItsDbc`: rules and replays of one database do not run under the next.
* **scope_page**. `RowActsOnItsRule`: a row's buttons act on the rule it shows, however old the
  answer it was made from, unless that row's own slot was given to another rule; and a rule in
  force alters frames only if a mode was asked for it, unless a request met it in its slot that
  was meant for another. `LoadedIsObserved`: a
  database loaded from the page is observed. `PageConverges`: once user and network
  rest, rows, buttons and database shown are the device's and stay so.
* **web_pages**, each page from its opening. `ReplaceMakesTheFrameShown`: a REPLACE staged as the
  editor stands makes the frame the bit editor shows, in both byte orders. `TableShowsLatest`,
  `PausedTableStands`: only pausing holds the table back, and it does. `ProfilesAreSound`: rules
  and default refer to profiles and the device's default is exclusive, also after an
  import. `SaveLosesNothing`: saving and loading shows the builder as it was, with the release
  rates that are in force. `AlertsStay`: nothing
  but editing alerts changes the device's. `CurveIsShown`: when no load or save is under way the rows show
  the device's curve, unless they were typed into since or a request failed or was
  overtaken. `SettingsKeepOthers`: saving settings leaves another page's key as it is unless it changed
  after it was read, and the shared ones unless their box is older than their last change.
  `MapTextRoundTrips`, `SavedAsIsShown`: an exported map comes back, and what is saved under a
  name is what was on the page at the click. `SelectedSlotExists`, `ProfileKeepsPage`: there is always
  a slot to act on, and as long as the browser takes what is written, leaving the page loses none of the
  second script's mappings and slots and no input that it was the last to write.
  `BaseIsRemembered`, `OnlyRacesGiveUp`: all pages talk to one device, and a request gives up
  without trying the origin only in a race. `BackdropHasMenu`: no backdrop is left behind.

Two runs end in a violation: section 7. Type invariants are not checked by runs of their own: they are
conjuncts of the inductive invariants that section 6 proves. Deadlock is checked in all runs but web_pages, where a page may rest with the user's steps spent.

## 4. Bounds

| run | bounds | why enough |
|---|---|---|
| mutation_engine | 2 slots, 4 requests over 2 keys, 3 stagings | slots run out and are reused after a cleared staging area while the table still holds their rules; a dynamic rule, a static one and a raw mask overlap. `MaxStages` caps sequence numbers |
| rule_path | 2 slots, 2 editions (symmetric), mode single shot | a commit keeps, replaces or drops a slot between two rules of a frame |
| rule_path_live | 2 slots, 1 edition | order of modes only |
| frame_cache | 2 entries, 3 keys with one home, frames of no byte and of one, timestamps modulo 7, 3 updates during and before a snapshot | keys collide, the table fills, four retries fail, timestamps wrap, a longer frame follows a shorter |
| gateway | ring of 3, so 2 frames; polls of 2; 3 frames per bus; 1 replayed; rates capped at 2 | as in the code, where 128 and 128 meet 127, one bus may leave no room for the other, and the ring wraps; a bus with 3 frames waiting exceeds its share, which without the cap of a poll `BusesTakeTurns` notices |
| replay | array of 3, logs of 2 and 4 frames, all three loop modes, clock modulo 4 | the long log is cut; due times wrap within a log |
| changes_watch | 2 keys, 2 entries, payloads of 0, 1 and 2 bytes, 3 frames, 3 sessions | payloads grow and shrink; start, fix and reset each meet a frame |
| dbc_lifecycle | files of 1 and 2 signals and one that does not parse, 2 loads, 1 power failure, writes cut short, a packaged file that parses or not | a longer database follows a shorter one and vice versa; boot finds half a file; power fails during boot |
| scope_page | 2 rules for 2 slots, one rule in either slot at the start, 2 handlers at a time, 2 clicks, 1 loss | a poll or a second click overtakes a click between any two of its requests; a slot changes its rule |
| web_pages | 2 requests at a time; 3 steps of the user (map 2; 3 edits in the scope's editors; the shell is unbounded); 4 ids and profiles, 3 rules; an axis of 0..4; maps of 2 by 2; 4 slots; 2 bytes of 2 bits, floats of 3 | two requests cross; ids collide and wrap, lists fill; bins and rows are typed out of range; a signal crosses the byte boundary, another is too long for a float |

Every constant that bounds a behaviour (`MaxStages`, `MaxUpdates`, `MaxFrames`,
`MaxReplay`, `MaxSessions`, `MaxLoads`, `MaxBoots`, `MaxHandlers`, `MaxClicks`, `MaxFaults`,
`MaxCalls`, `MaxUserSteps`, `MaxEdits`) is in the guard of the action it
bounds and named as a bound where it is declared. Polls of a curve page overlap each other and
everything else, as far as `MaxCalls` goes.

## 5. Fairness

* `WF(CanTask)` (`RulePath`): the task has a core to itself, loops for ever
  and is woken by a timer. In `RulePath` that includes that frames keep coming, which
  `ArmedRuleFires` presupposes.
* `WF(UiStep)` (`RulePath`, `Replay`): a request that was begun is finished; nothing
  makes a client send one.
* `WF(Tick)`, `WF(BeginTick)` (`Replay`): the CAN task ticks again and finishes the
  tick as long as its loop lets it. Time is not assumed to pass within a tick.
* `WF(Poll)`, `WF(Serve(h))`, `WF(Finish(h))` (`ScopePage`): the page's timers fire, the device
  answers what reaches it, and the browser runs handlers whose answers are there. Nothing is
  assumed of the user or of the network; losses are bounded by `MaxFaults`, that is, they end.
* `Gateway`, `FrameCache`, `ChangesWatch`, `DbcLifecycle`, `MutationEngine`, `WebPages`: safety only.

One timing assumption is a guard. In `RulePath` the action `BeginFill` waits until the
frame that was under way at the last swap is over (`~late`). The code has no such test:
it relies on requests being at least 5 ms apart (main.cpp:874-879) and a frame taking
microseconds. Without it `FrameSeesOneTable` would fail, since there are two tables only.

## 6. Proofs

TLAPS proves these for every value of the constants that satisfies the assumption named in the
module. Each theorem is an invariant or action property of the specification, and follows
from an inductive invariant, since few of the properties are inductive by themselves.

**`MutationEngineProofs`** (at least one slot and sequence number, requests typed, 0 a value).
Neither `OneRulePerIdentity` nor `ShadowMatchesTable` is inductive: remove rebuilds
the staging area from the shadow and commits it, so uniqueness must hold of the shadow too,
and the table must be *the* compilation of the shadow. `EngineInv` joins types, the exact
count, distinct identities in staging area and shadow, and `table = Compile(committed)`; `Core`
is the part a step has to re-establish. From it: `EngineTypes`, `StagedCount`, `RuleIdentities`,
`ShadowIsActive`, `UniquePriorities`, `RemovalIsLocal`, and `StageOrder`, which assumes
`MaxStages < SeqModulus`: while the sixteen bits have not wrapped, a rule's sequence number
orders it by its birth; `RangesFirst` needs no such bound. `EngineIsRuleSet` is the refinement: with `HeldInv` (only what clients
may ask for is held) every operation maps to one of `RuleSet`'s or to a stutter. The two facts
`StagedCountExact` and `PrioritiesUnique` are stated by theorems only.

**`RulePathProofs`**. `TableInv` says which table the frame works on: if nothing was swapped
since it began, the active one, of which the writer keeps away; if something was, no writer starts
before it ends. `ShotInv`: a single shot that a mode promises has been armed and not
fired, but for the one about to be spent. From them `FramesSeeOneTable` and `ShotsFireOnce`.

**`FrameCacheProofs`**, for any table size, keys and hash function. `NoTornRow` rests on what
the counter says at each step of both tasks: `WriterInv` (an odd counter belongs to the row the
writer is in), `ReaderInv` (what has been copied agrees with the row while the
counter is the one remembered), `ProbeInv` (where a key is, no earlier place of its probe
is free). With types and `OneEntryPerKey` these are inductive. From them: `CacheTypes`,
`SnapshotsAreWhole`, `OneEntry`. `ListingInv`: an entry that was complete when a snapshot began and
has not been opened since keeps its even sequence, so the copier never runs out of attempts at it.
`TruthInv`: what an entry says is the last frame of its key, field by field, the entry being
written having those fields of the new frame that the writer has passed. From them
`SettledAreListed` and `EntriesTrue`.

**`TrafficProofs`**, first part, `Gateway` for any ring, polls and traffic. `BurstInv`: the ring is empty when a pass
starts, so it holds no more than the pass has read. `TurnsInv`: what a waiting bus has
been passed over by was read in this pass or, once it has had its turn, the one before. `QueueInv`: what waits of a bus is in order
and after all that was sent. Lemmas about `%` say what the ring holds, place by place, after a frame
is put in or taken, which is the refinement of `BoundedFifo`. From them: `FiguresAddUp`,
`OnlyBurstsDrop`, `BusesInTurn`, `RingIsFifo`.

Second part, `Replay` for any array, logs and clock. `LoadInv` says what the loader has filled and
where the cursor is by where both tasks stand; `OrderInv` adds that while nothing disturbed the
replay the next frame is the expected one; `StopInv` counts what follows a stop. From them:
`UndisturbedInOrder`, `StopLetsOneOut`.

**`ChangesWatchProofs`**, for any keys, payloads, frames and sessions. `KeysInv`: both tables take
a key in the same frame or not at all. `KnownInv`: what was last shown of a key is what its entry
compares with. `SeenInv`: how far the marks of the frame in hand have come. `MarksInv`: what moved
is marked in the present session, and not in the baseline. From them `StableBytesDidNotMove`. The
converse, `DroppedBytesDidMove`, needs `CleanInv`: as long as no reset has met a frame and the watch was not
started while it ran, the marked bytes of a key are among those the window has seen
moving. The proof corrected the property: a key whose first frames have no
payload is known with no bytes, so "known" is no test for "seen before"; the history
variable `seen` is, and the run now has a frame without payload.

**`DbcLifecycleProofs`**, for any files, of which any are packaged. `DependInv` says under
which load rules and replay were begun, by how far a handler is. From it `DependentsAreOfThisDbc`.
`DbcInv` follows boots, loads and frames through the signal cache: up to the reset the names are those of
the database installed before and from then on, index by index, of the next, while the database in
between may be wrecked (`IndexInv`); `decode_all` follows the mode (`ModeInv`); a frame that
runs while nothing else does has decoded all indexes it has passed (`DecodeInv`); one that meets no
replacement writes a value under the name it was decoded by (`MatchInv`), and of those that do only
the one with a definition in hand can store it under another, once (`StrayInv`). From it `CacheTells`.

**`ScopePageProofs`**, for any rules, slots, handlers, clicks and losses. `PageInv`: what the device holds,
what an answer lists and what a row of the page names are rules that their slot has been given
(`HeldInv`, `Held`), and a handler waits at each step for what that step may carry (`HandlersInv`). What
was held is only ever added to, so a late answer stays true of it, and meeting another rule takes
two in the same slot (`MistakenInv`). `ArmedInv`: the mode of a slot that is on was asked for what is
staged in it as well as for what is in force. From it
`RowsActOnTheirRules` and `DialogueTypes`. `ObservedInv`: until it is observed, a loaded database
has a handler whose next request asks for that. From it `LoadedIsDecoded`.

**`WebPagesProofs`**, for pages with any number of requests at a time. `ShellInv` (a backdrop
means that the menu's button was used and nothing closed it), `RequestsInv` (a request that no
other has overtaken was sent to the base in use), `SettingsInv` (what a request has read or is going
to post is the device's, unless the device changed since), `ShownInv` (rows not in doubt are the device's curve or
a load is on its way that will show it), `SetupInv` (types of both scripts'
lists, and the profile is the page), `InputsInv` (inputs that only the second script wrote are its mappings). From them `BackdropsHaveMenus`, `OneBase`,
`RequestsTryTheOrigin`, `RowsAreTheCurve`, `SettingsAreKept`, `SlotIsSelected`, `ProfileIsPage`.

* *Map.* `MapInv`: the page's map has its size and bounds, whatever was read, imported or typed, and a save
  whose first post was not overtaken has made the device's map the one it carries. From it
  `MapsComeBack`, where `ImportedMap` says what reading an exported text gives, and `SavesAreShown`.
* *Builder.* `BuilderInv`: what the page holds is in normal form (`Normal`), what the device holds has a
  default profile that is exclusive (`Storable`), as has what a save carries. What is sent of a release
  is a fixed point of reading it back.
  From it `ProfilesStaySound`, `SavesAreLossless` and `AlertsSurvive`. Assumed is that the device
  starts with what a page has saved and that limits leave room for the starter set; files may hold anything
  of the right shape.
* *Table.* `TableIsLatest` is inductive; `PauseHolds` is a property of each step.
* *Bit editor.* `EditorInv`: payload and range are well formed, and unless the user has typed since
  the bits were rendered, the value is the number they spell. That the device then writes the
  same bits is `FrameIsKept`, about operators only. Both loops are reduced to one
  reading of the bits from the top (`Spelt`): the page's Motorola loop is that reading, its Intel
  loop adds up to the same number (`ReadIsSpelt`), and the device's shifts undo it bit by bit; in
  between the number survives float, clamping and two's complement (`StagedIsRead`). From them
  `ReplacesAreExact`, for every frame size, range and answer. It assumes that an answer lists a frame
  key once, which `OneEntry` shows of the device.

The loops of the program are recursive functions on an interval of numbers. That such a function
exists and obeys its equation is the lemma `Recursion`, with the step as a function, since the
library's theorems take it as an operator; induction is the lemma `UpTo`, over the set of numbers for
which the claim holds, or the choice of a least counterexample (`LeastOf`).

Every safety property that a run checks is stated by a theorem. Only model-checked: liveness
(`ArmedRuleFires`, `PageConverges`), which is out of the prover's reach.

## 7. Disagreements with the documentation

* **replay_loop**: README.md:33 says web traffic cannot starve CAN forwarding. Starting
  a log of one frame with `loop_raw` does: its due time is always now, and `tick` does
  not return (replay_engine.cpp:136-157).
* **dbc_failed_upload**: ARCH.md:98-99 says that a successful parse replaces the
  database. A failed one does too: the text is parsed into the one in use, and the
  handler answers 422 (main.cpp:1280).

## 8. Other observations

Seen while modelling, most of them reached by a model, and kept as remarks.

On the device:

* Numbers. The stage sequence wraps after 65535 stagings and a new rule then sorts before
  old ones (mutation_engine.cpp:795; `SeqModulus = 3` shows it). A due time that wraps past zero
  is due at once and, in a loop, again (replay_engine.cpp:136). A frame whose timestamp
  is zero counts as no frame (frame_cache.cpp:42-45). A snapshot is sorted by a raw
  timestamp, so rows from before a wrap come first (117).
* Rules. Staging over an active rule moves its value and mode before any commit, and a
  slot that was cleared while active is given to another rule together with the mode
  of the first (mutation_engine.cpp:113-119, 155-160). A mode request between staging a rule in a
  slot and the commit sets the slot's mode, so the staged rule comes up armed (411-418). A commit disarms dropped slots before it
  swaps tables, so a frame in between sees neither set (267-273). "Set all mutations to On"
  (data/index.html:349) is undone for a single shot that a frame has just read: its spending is
  stored over it (344). Slots are looked up by range only (main.cpp:1368).
* Frame cache. After a shorter frame, a longer one's mask compares the bytes past it with an older
  frame's (frame_cache.cpp:51-57). A row is listed, all zero, between its making and its first frame
  (frame_cache.cpp:142).
* Replay. Loading or starting during a tick moves the cursor under it (replay_engine.cpp:142), and a
  start that comes while a log ends is undone (145).
* Changes watch. A reset that meets a frame may leave a row of zeros that counts
  as seen (frame_changes_watch.cpp:127); a start while watching keeps the marks of silent keys (107, 142).
* DBC. After an upload that does not parse, `/api/signal_cache` goes on listing the signals of the database
  before, which nothing decodes any more (main.cpp:1280-1283). An unload wipes the database that a frame may be decoding with (main.cpp:1312-1316);
  a value decoded during a reset is stored under a new name, one at most, and a frame may mark a value as valid
  that the reset has just zeroed (signal_cache.cpp:131-139); after an unload
  the next boot loads the packaged database (main.cpp:1327, 263-278). A specific observation turns
  `decode_all` off and nothing subscribes signals, so nothing of it is decoded
  (signal_cache.cpp:117; ARCH.md:60-61). From SPECIFIC to ALL the table is emptied before
  the mode changes (main.cpp:1846).
* Cores. main.cpp:52-53 pins the CAN task to core 1 and the UI task to core 0; ARCH.md:4-5
  and README.md:30-31 say the reverse. The models do not depend on it.

On the SignalScope page (signalscope.js):

* Rules. A request names a slot, so a stale row acts on the rule that has its slot now, staged or in
  force (1250). A mode click leaves the remove button enabled (1375), so both may be under way. A
  row of the diff that fails half way leaves staged bytes that the next commit takes along
  (1582); a failed removal reverts another handler's staging. The buttons for all mutations stay disabled after their
  request was lost (1317).
* Editors. For a scaled signal the page puts the raw value where the device takes a physical one, so
  an unchanged REPLACE changes the frame (762; mutation_engine.cpp:141). The form takes ranges of up
  to 64 bits, but the device reads the value as a float (main.cpp:177, 993), which keeps 24: a longer
  REPLACE is rounded, so `ReplaceMakesTheFrameShown` holds for `FloatBits` only. The signal picker falls back to
  the first signal after a status that was not decoded.
* Dialogues. A late answer to Fix after a Reset shows a dead diff. An upload that times
  out leaves a database that nobody observes.

On the OpenHaldex pages:

* API base. A failed request reads the shared base again, so in a race it gives up though the origin
  answers (FU 294). A post that timed out may be applied by both devices, and what was loaded
  from one may be saved to the other.
* Curves. Typed settings are overwritten by the 1.5 s poll. Remove after a rejected save takes another point
  and forgets typed edits (FU 1267), and what is typed while a save is under way is lost when its reload
  arrives (FU 1165). A load that a save has overtaken leaves the old curve on the page. Saving one
  setting posts all, so another page's change is undone (FU 1171); disableThrottle and disableSpeed are posted
  from this page's boxes, however old, and before the first poll a box shows its default (FU 1183-1187).
  Polls overlap, so an older answer may fill the boxes last (FU 1305).
* Setup. The second script is not told of mappings the first has loaded, so assigning one input
  rewrites the others (OV 384). A removed and an added slot may share a key, and assigning goes to the first
  (OV 420). A signal's key depends on which script rendered last. An input that the first script has assigned is
  in no profile, so it is lost on leaving the page unless it was saved in the device (FU 2039). A profile
  that the browser refuses to store is lost without a word (OV 48-54).
* Map. An import reports "saved" although saving failed (LU 810). Saving under a name is two posts,
  between which another handler's map may become the current one (LU 681).
* Behaviour. A load that arrives while editing replaces the edits (BB 391). Clamping may give two
  profiles one id. A release is sent as its rate, zero when it is off (BB 933): a rate typed and then switched
  off comes back as 120, and a release that is on with a rate of zero comes back off. A builder trimmed to two profiles and
  one rule like the old default is taken for it and replaced by the starter set on loading (BB 431).
* index.html loads config.js, vendor.min.js, app.js, the firmware script and signalscope.js. The pages
  that load the other scripts are not in the repository; the models take FU before OV.

## 9. Not modelled

* **DBC parser**: a long scanner of text. **Bus statistics, CPU load**: counters and windows like the
  gateway's, and idle counters of the scheduler. **Persistence**: a stub.
* **HTTP and JSON**: routing, arguments and wording. What handlers do to the components
  is in those components' modules.
* **Latency figures, drivers, access point, timers**: hardware and measurement.
* **Home, wifi, logs, diagnostics, CAN view**: pages that poll and print, or start something and show its
  answer. **About and help**: text. **Vendored scripts**: not this program's.
* Of the codec, scaling and the clamping in signal_codec.cpp: arithmetic on floating point.
* Inside modelled parts: `registerDynamicSignalRule`, `subscribeSignal`, `addSpecific` and
  `removeSpecific`, which nothing calls; generation counters of signals; the sort of a snapshot; CSV
  exports and replay controls of the SignalScope page; charts, live traces and the heat map; the basic
  settings box of the behaviour builder (BB 740-832), which saves the HTML's defaults if it is used before it
  has loaded; widgets of app.js (262-677) that only initialise third-party components; the short-lived cache
  of `getRuntime` (FU); `loop_counter_` of the replay engine, which nothing reads.

## 10. Plan

Written in this order, the path of a frame first: `MutationEngine` with `RuleSet` and
its proofs, `RulePath`, `FrameCache` and its proofs, `Gateway` with `BoundedFifo`,
`Replay`, `ChangesWatch`, `DbcLifecycle`; then the pages, `ScopePage` and `ScopeEditor` first, the
OpenHaldex pages and the shell; then the theorems of the remaining device modules and of the pages.
What could follow:

1. `ObservationManager` in detail: two tables, hash chains, and the swap under a frame,
   implementing the key set that `DbcLifecycle` uses.
2. `DbcParser` over tokens, and an upload through parser and lifecycle.
3. Theorems: that `RulePath`, task by task, implements `MutationEngine`'s commit and modes; what
   `PageConverges` needs besides fairness.
4. The runtime cache of the OpenHaldex pages and the home page's use of it.
