# A specification of phone-agent

phone-agent runs a language model and a small agent around it on a phone.  An
Android app (`android/app`) and a resident native process (`runtime`) talk through
files of one directory; the native side keeps sessions, memories and a plan, asks
the model for steps, runs tools, and feeds the model's KV cache with as little
re-prefilling as it can.

This directory holds TLA+ modules of that program, TLC configurations that check
them on small instances, and TLAPS proofs for every value of the constants.

## The system

| part | code | state it keeps | operations | talks to |
|---|---|---|---|---|
| app: screen | `MainActivity`, `ChatTranscriptView` | `inferenceRunning`, the list of turns | send, stop, refresh lists, handle an event | client |
| app: client | `AgentClient` | the poller's offset, stamp and unfinished line | `send`, `call`, `writeAtomic`, `cancelCurrentTurn`, `pollLoop` | files |
| app: installer, bridge script | `RuntimeInstaller`, `gemma4-d8400-bridge.sh` | pid and ready files | start, reap, stop | runner |
| service loop | `agent_service.cpp`, `run_agent_service` | the files | claim, dispatch, respond, clear the sentinel, emit | runtime |
| runtime | `agent_runtime.cpp` | `needs_full_prefill_`, `last_prompt_had_tools_`, the locals of `run_turn` | `handle`, `run_turn`, `compact_history` | all below |
| sessions | `agent_session.cpp` | `turns_`, `meta_`, `index_`, and their files | create, open, append, compact, remove, rename | runtime |
| memory | `agent_memory.cpp` | records, the search index, two files | add, search, prune, forget, save, load | runtime |
| planner | `agent_planner.cpp` | steps and their statuses | set, update, note a tool, finish | runtime |
| tools, router, prompts | `agent_tools`, `agent_intent`, `agent_prompt` | none | resolve, run, classify, parse | runtime |
| driver | `gemma4_hybrid_runner.cpp` | `cached_messages_`, the engine | `generate_full`, `generate_delta`, `sync_transcript`, `reset_conversation` | MNN |
| MNN | `3rd/mnn-src` (vendored) | the KV cache, the text it compares prompts with | `response`, `syncPromptCache` | |

What makes it hard:

* the app's main thread, its workers and its poll thread, the bridge and the runner
  share a handful of files without locks, and each process can die and be started again;
* a stop is a file without an addressee, looked at in a few places;
* the event log is followed by its length and by the time stamp of another file;
* a turn may be nudged, rescued, refused, described, wrapped up and overwritten;
  what is shown, what is stored and what is in the KV cache are three things kept
  equal by hand;
* every request of the sessions and of the memory writes several files one after the
  other, and the process may be killed between any two of them;
* turns are numbered by counting lines, ids of sessions and of memories by a sequence
  that is stored apart from what it numbers.

`PROJECT.json` lists each of these hazards at its line with the properties about it.

## The modules

| module | models | lines up on |
|---|---|---|
| `SessionTranscript` | one session on disk and in memory | `agent_session.cpp`, `render_history`, `compact_history` |
| `TurnLog` | what a session promises; `SessionTranscript` implements it | its callers |
| `SessionIndex` | the list of the sessions, its file and their directories | `agent_session.cpp`, the session requests of `agent_runtime.cpp` |
| `FileProtocol` | the request, answer and stop files between app and runner | `agent_service.cpp`, `AgentClient.java`, `MainActivity.java`, the bridge |
| `EventTail` | the event log from the runner to the poll thread | `AgentClient.pollLoop`, the bridge, `append_line` |
| `TurnLoop` | one turn, `run_turn` | `agent_runtime.cpp:1116-2270` |
| `MemoryStore` | the records of the memory and their two files | `agent_memory.cpp` |
| `Planner` | the statuses of the plan's steps | `agent_planner.cpp` |
| `TurnTools` (`TurnToolsMC`) | `MemoryStore` and `Planner` composed: the tools of a turn, the memory requests, deaths | `agent_tools.cpp`, `recall`, `write_memories`, `run_turn` |
| `LlmDriver` (`LlmDriverMC`) | the driver over MNN's prompt cache | `gemma4_hybrid_runner.cpp:756-1570` |
| `Conversation` | `TurnLoop` and `LlmDriver` composed: prompts, anchors, compactions | `render_history`, `compact_history`, the KV decision of `run_turn` |
| `*_proofs` | theorems about the module they extend | |
| `SequenceLemmas` | what the proofs about lists share: induction over positions, recursive functions, pieces | |

A definition whose comment begins with "Mistake:" is a plausible bug of the definition
after it.  None is part of a specification; replacing the right definition by the
mistaken one makes some property fail, which shows that the property depends on it.

### SessionTranscript

`log` (with `unterminated`: its last line has no newline) and `metaFile` are
`turns.jsonl` and `meta.json`; `turns` and `meta` are the copy the process works on.
One action per operation: `Open`, `Recreate` (`create` with an id that exists),
`BeginTurn`, `CheckBudget`, `AppendTurn` and its failure, `PostTurn`,
`CompactRequest`, `AbortTurn`, `Crash`.  A turn is its number and an identity; the
summary is the set of turns it stands for, so that "the model sees every turn once"
can be stated; `ended` keeps the turns whose `turn_end` was emitted.  `harm` records
that a line was cut short or the session created a second time: all but one of the
properties promise something only of a transcript that was not harmed.

* `ContextExact`: a turn is in the summary exactly when the prompt hides it.
* `WindowVerbatim`: the newest `recent_turns_min` turns are never hidden.
* `EndedTurnsKept`: a turn whose `turn_end` was emitted survives any crash.
* `TurnsNumbered`, `SummaryOnlyGrows`: the numbers, the summary.
* `OrderKept`: no turn is listed twice or out of order, after any harm.
* `KeepsTurnLog`: the refinement.  `TurnLog` has three actions, store a turn, fold a
  prefix, and fail; the map takes the file as the log and `meta.json` as the summary,
  so every rewrite, restart and death must be a stutter.
* `UnharmedInv`: the inductive invariant of the proofs.

Run `Transcript`: five turns, torn lines, reused ids and crashes anywhere.  The window
is 2, as shipped; the threshold is 4, the default of `agent_config.h` (the shipped
`agent-config.json` sets 8, but no caller lets it decide, see below).  Five turns give
two compactions, the second over turns the first one hid.

### SessionIndex

`disk` is the directory `sessions/`: the directories, each one's transcript (the set of
the start times of its turns) and `meta.json`, and `index.json`.  `index`, `sequence` and
`meta` are the store in memory.  The operations of the store (`Create`, `OpenStore`,
`RemoveStore`, `RenameStore`, `PersistMeta`, `Load`) are operators from a store to a
store that also collect the states the disk goes through, one per file operation.  A
request changes the memory at once and leaves those states in `todo`; `Flush` takes one,
`Crash` drops the rest, and the answer is given with the last.  `promised` holds what the
user may count on then.  An eviction empties a directory and keeps it; a deletion takes
the tree.

* `NothingHidden`: an announced turn is on disk and its session is listed, unless it was
  deleted or evicted.
* `DeletedNotListed`: a deleted session is not listed again before somebody opens it.
* `NamesStick`: a name given by the user outlives turns, compactions and restarts, unless
  it is empty or `New session`: `rename` accepts these, and the next turn takes them for
  the default title (see below).
* `FreshIsEmpty`: a new session starts in an empty directory, also after a lost index.
* `SessionsInv`: types, one entry per session, ids below the sequence, one session open.

The lists are computed step by step as the code does it: an entry is `Inserted` into the
sorted ones, the loop of `create` empties one victim after the other (`Capped`), and
`delete_all_sessions` removes one listed session after the other (`AllRemoved`).

Run `Sessions`: a cap of two, ids up to four (so that two are evicted or rebuilt), seven
readings of the clock, one death between any two file operations, a lost index.
`CHECK_DEADLOCK FALSE`: ids and clock are bounded.

### FileProtocol

`request`, `part`, `response`, `cancel`, `events` are the files; `runner` and
`thread` say where each of the three threads is, one action per system call that
another thread can come between: `writeAtomic` is five of them.  A thread writes to the
file it opened, `opened`, under whatever name that file has by then: both threads may have
the temporary file open, and one's rename publishes what the other is still to write, so a
request may be `empty` or `mixed`.  A turn is its steps: the sentinel is looked at before
each (`Step`, `Cut`) and nowhere else, since at a token it only ends the streaming, and a
generation is followed by another step (`Continue`) or by the end of the turn (`Answer`).
Requests are identities; `dispatched`, `stopped`, `asked` and `heard` are history variables.

* `DispatchedOnce`: no request runs twice, across kills and restarts.
* `NoOldAnswer`: a call never returns a document older than itself.
* `NoStepAfterStop`: once stop was pressed while a turn is in its loop, no further step of
  it begins.  The generation under way may still end as an ordinary answer (see below).
* `StopStopsOneTurn`, `StopsOnlyAsked`: what a stop stops.
* `ProtocolInv`: types, where each request is, which file a thread has open, and that the
  sentinel of a heard stop stays while its turn is in the loop.
* `ButtonComesBack`: `running ~> ~running`, under fairness.

Fairness is weak fairness of the runner, of each app thread and of the event
handler: each is a loop that polls and never blocks for ever (the runner every
`poll_interval_ms`, a call until its deadline of 120 s, a turn until `max_steps`
and `max_tokens_per_step`).  The user is free.  `Calm` restricts the user to one
thing at a time.

* `Protocol` (one turn of two steps, one query, two stops, one kill of the runner, restarts
  of the app, exceptions in `handle`, any user) checks the safety that survives all of that:
  `DispatchedOnce`, `NoOldAnswer`, `NoStepAfterStop`, `ProtocolInv`.  The turn, the worker's
  query and the call of the main thread after the turn meet every pair of steps of two
  threads, and each call finds what the other left behind, `response.json` above all; the
  second step of the turn is there to be prevented by the stop.
* `ProtocolCalm` (two turns of two steps, one fact, one query, one stop, no faults, `Calm`) checks
  `StopsOnlyAsked`, `StopStopsOneTurn` and `ButtonComesBack`; the second turn is there
  for the sentinel the first one leaves behind.  Without `Calm`, `StopsOnlyAsked` and
  `ButtonComesBack` fail (see below).

### EventTail

`log` is `events.jsonl` as a sequence of half lines, the second of which carries the
newline: enough for a line that is read in two pieces and for one a kill leaves
unfinished.  `ready` is `service-ready`, named by the life of the runner that wrote it,
which stands for its modification time.  The bridge removes files, launches and reaps;
the runner truncates the log, says hello, gets ready, writes lines and dies; the app
starts, waits for the ready file and polls (`ReadStamp`, `CheckStamp`, `CheckLength`,
`ReadLog`, one action per look at a file).

* `TailExact`: while the app follows the runner that is up, the listener has got exactly
  the complete lines of the bytes read so far, since the last reset.
* `TailInv`: types, and no event or unfinished line of an earlier runner is mixed with
  those of this one.
* `EveryLineArrives`: a complete line of a runner that stays ready is handed over.

Fairness is weak fairness of `Poll` only: the poll thread sleeps a bounded time and
does nothing else that waits.  Run `EventTail`: three lives of the runner (a restart
met before and after the stamp was read), two events each, three launches of the app.
`CHECK_DEADLOCK FALSE`: all of them are bounded.

### TurnLoop

One action per way through the body of the loop (`Generate`, then
`GenerationFailed`, `NudgeEmpty`, `NudgeBroken`, `NudgeCall`, `RunTool`,
`UnknownTool`, `Draft` or `Native`; a draft is refused by `AskLanguage`,
`AskGreeting`, `AskImage`, replaced by `Describe` or accepted by `Accept`), then one
per stage after it (`WrapUp`, `ShowValue`, `ShowFallback`, `Complete`, `CloseWith`).
The guards are in the order of the code.  What the model writes is one of seven
kinds of output, a text is who wrote it and in which generation, and every check of
a text's wording is a choice.  `PressStop` may come at any place.

* `WithinBudgets`: at most `max_tool_calls` calls, `max_steps + 1` generations.
* `StopSoon`: at most one generation after the stop.
* `ToolsAfterNudge`: a turn for text runs a tool only after a nudge.
* `ShownIsStored`: unless an answer was refused, the transcript ends with the answer
  on the screen.

`Turn` checks them for three steps and two calls, enough for a nudge, a tool and an
answer, a refusal after a tool, and both budgets; deadlock is checked, so no place
of the turn is a dead end.

### MemoryStore, Planner and TurnTools

`MemoryStore` has the records with their ids and pins, the sequence, and the two files
of a save (`memories.jsonl`, then `state.json`).  `Add` is the three rules of
de-duplication in their order (same slot, explicit correction, near duplicate), then a
new record and `Pruned`.  A text is its slot, the value it gives it, its tokens, its
length and whether it is a correction; similarity is computed from the tokens with the
thresholds of the code.  Which unpinned records `prune` drops depends on scores and is a
choice.  `Planner` is the sequence of the statuses of the steps, one operator per method.

`TurnTools` runs both in the order one process does: the memory requests of the app, the
tools of a turn, the extraction and the save at its end, turns that throw (their changes
stay in memory, unsaved), deaths between the two files of a save.

* `OneRecordPerSlot`: at most one record of a kind says what the user's name is.
* `PinnedStay`: what was pinned when a request was answered or a turn ended stays.
* `DeletedStayDeleted`: what was deleted then never comes back.
* `IdNamesOneRecord`: an id that reached the disk names one record for ever, unless two
  saves were cut between their files.
* `PinnedRecalled`: pinned records that fit beside the hits are in the prompt.
* `SomeStepCurrent`: a plan with pending steps has one under way.
* `ToolsInv`: types, unique ids, the cap, at most `max_plan_steps` steps, worked on in
  their order unless the model itself moved one.

Run `Tools`: room for one record and two new ones, so that a new record meets a full,
pinned or unpinned store; two deaths, because the sequence survives one; two steps of a
plan and two calls of a turn.  Four texts: two names, a note and its correction.
`CHECK_DEADLOCK FALSE`: deaths are bounded.

### LlmDriver

A prompt is a sequence of messages.  `kv` is what the KV cache really holds,
`cached` what the driver believes, `engine` what MNN compares with.  Any caller may
generate, anchor (`Sync`) and reset in any order.  `NeverRewinds`: a KV cache in use
is never erased in place (the engine's rewind is what the comments warn of).  It
rests on `DriverInv`, the driver and the engine compare with the same text.
`Driver` checks prompts of up to three messages over two texts: enough for a suffix
of a suffix and for two prompts that part in the middle.  A generation may end with a
cache mismatch or a failed splice there, not with an exception (see below).

### Conversation

The agent as the driver's caller.  `history` are the turns of the transcript; `Prompt`
is `render_history`: the system prompt, then, where `include` (`include_history`) holds,
the summary and these turns, then the current one.  `SwitchHistory` is the config request
that turns `include` around between two turns; it also asks for a full prefill.
`KvHonest`: whenever the driver would prefill only a suffix, every message before it is in
the KV cache (up to what the assistant's messages say, since the transcript keeps cleaned
copies).  `Anchored`: while the history is switched on, the next turn's prompt extends the
anchor, so no turn is prefilled again because two records of the same conversation differ.
With the history off it is not so (`AlwaysAnchored`, see below).

`Conversation` checks both over two turns of images and calculations with failures and
one compaction, the history being switched at any time between turns.  `ConversationFolds`
checks `ConversationInv`, the inductive invariant both are proved from (below), over three
turns of greetings and recalls with the memory off, a verbatim window and a compaction at
either end of a turn (all intents together are too many states).  They leave out a
language nudge, which is what `ConversationStale` is about: a refused answer that is shown
after the loop makes the runtime anchor the driver on an observation that was never prefilled.

## Where the code and its comments part

Two runs keep a counterexample, and `PROJECT.json` quotes the lines:

* `ConversationStale` (`KvHonest`): the anchor just described, `agent_runtime.cpp:2180`.
* `TailReplays` (`NoTurnTwice`): when a runner dies the bridge removes `service-ready` and
  leaves the log; the poll thread takes the changed stamp for a new log and hands the old
  one to the same listener again (`AgentClient.java:154`).

The following were met on the way.  Each has its definition in the module, is excluded by
a named constant, a guard of the property or by not being checked, and is refuted by the
change of configuration given (the definition as the only INVARIANT or PROPERTY).

| definition | counterexample | configuration |
|---|---|---|
| `WindowVerbatim` without `~harm` | `append_line` (`agent_util.cpp:385`) glues a line to the torn one before it; turns are counted short and the summary hides new ones | `Transcript.cfg` |
| the same | `create` with an id that exists (`agent_session.cpp:86`) keeps `turns.jsonl`, and numbers repeat | `Transcript.cfg` |
| `FoldsEnough` | every caller of `compact_history` forces it, so it folds single turns (the repository's `README.md:338` says four) | `Transcript.cfg` |
| `AnswersMatch` | a list refresh of a worker (`MainActivity.java:728`) is answered with the turn's document: a call takes whatever appears (`AgentClient.java:78`) | `ProtocolCalm.cfg` |
| `ButtonComesBack` | a query overwrites a turn the runner has not claimed (`AgentClient.java:233`) | `ProtocolCalm.cfg`, `Calm = FALSE` |
| `ButtonComesBack` | `handle` throws (`agent_service.cpp:69`): an error event, no `turn_end` | `ProtocolCalm.cfg`, `Throws = TRUE` |
| `StopsOnlyAsked` | a stop pressed late is still there for the next turn | `ProtocolCalm.cfg`, `Calm = FALSE` |
| `ShownTurnStops` | the idle loop (`gemma4_hybrid_runner.cpp:1692`) removes the sentinel of a turn still in `request.json`, which then begins its steps | `ProtocolCalm.cfg` |
| `StopEndsTurn` | a stop in the last generation only ends its streaming (`gemma4_hybrid_runner.cpp:1469`, 1569): the turn ends as an ordinary answer | `Protocol.cfg` |
| `WholeRequests` | two threads share `request.json.part` (`AgentClient.java:228`), and a rename publishes a file that is empty, or that both have written | `Protocol.cfg` |
| `AcceptedNamesStick` | `rename` answers ok to an empty name or `New session` (`agent_runtime.cpp:548`), and the next turn replaces it (`agent_session.cpp:210`) | `Sessions.cfg` |
| `AlwaysStored` | a refused answer is shown and never stored (`agent_runtime.cpp:1912`) | `Turn.cfg` |
| `NudgesStayOut` | nudges are messages of the turn (`agent_runtime.cpp:1425`; 1417 says they are not) | `Turn.cfg` |
| `Alternates` | a native answer is pushed twice (1543, 1703) | `Turn.cfg` |
| `NativeAnchors` | a native answer's KV flag is computed again as false (1697), so its anchor is lost | `Turn.cfg` |
| `NoneAfterStop` | a stop in the last step still lets the wrap-up generate (1912) | `Turn.cfg` |
| `AlwaysAnchored` | with the history switched off (`agent_runtime.cpp:775`) the next prompt is the system prompt and its own message; nothing asks for a full prefill, so a turn announced as a delta is prefilled from a new engine | `Conversation.cfg` |
| `NeverRewinds` | the engine throws (`gemma4_hybrid_runner.cpp:1517`) and `cached_messages_` keeps the transcript of the engine before | `Driver.cfg`, `"threw"` added to `Failures` |
| `KvHonest` | a description prefills one message and the turn anchors on all of them (`agent_runtime.cpp:1103`) | `Conversation.cfg`, `Kinds = {"describe"}`, `MaxFolds = 0`, `ReuseImages = TRUE` |

Read in the code, modelled as it is where the module covers it, and stated by no
definition:

* sessions: `rename` dates an entry and does not sort the list, so the next eviction may
  take a newer one (the repository's `README.md:310` and 366 say newest first and oldest
  deleted); the directory of an evicted session stays and is listed again, empty, when the
  index is lost; opening an unknown id creates it, so `open_session` never answers
  "unknown session" (`agent_runtime.cpp:511`), a history request changes the open session
  (591), and a turn in such a session exceeds the cap; after a lost index the id of a
  deleted session can be given again (its tree is gone, so `FreshIsEmpty` holds), and a
  client that still shows the old one opens the new;
* memory: `add` may return the id of a record `prune` has just dropped
  (`agent_memory.cpp:412`); pinned records are "always injected" (`README.md:234`), yet the
  list is cut to `recall_top_k + 4`; two cut saves let an id be given again, which is why
  `IdNamesOneRecord` counts them; what a tool stored is unsaved when the turn throws;
* planner: "Every tool call becomes a plan step" (`agent_runtime.cpp:1873`) holds for the
  first call only: once all steps are done or the last one failed, a call belongs to none; a refused
  `update_plan` fails the step under way; `update_plan` can make a second step active;
  `finish_all` marks pending steps done even of a cancelled turn;
* app: `renderHistory` builds recall and plan events without a `type`
  (`ChatTranscriptView.java:362-379`); `turn_start` is ignored while a block is open, so a
  replayed turn is drawn into the last one; a history call that is given the turn's
  document clears the screen;
* event log: the hello is delivered twice when a runner restarts; the lines of a runner
  that dies before it is ready may be missed.

## What is proved

All theorems hold for any values of the constants within the stated assumptions.

* `SessionTranscript_proofs`: `UnharmedInv` is inductive; from it `ContextExact`,
  `WindowVerbatim`, `EndedTurnsKept`, `TurnsNumbered`, and `SummaryOnlyGrows` as an action
  property.  The invariant adds to them what the files and the memory have in common at
  each place of a turn: the file is numbered by position, the summary covers exactly its
  first `upto` lines, a running process works on a copy of both.  From it too
  `KeepsTurnLog`, the refinement: initial state to initial state, every action to a step
  of `TurnLog` or a stutter.  Once a transcript is harmed nothing is promised but the
  abstract failure.
  `OrderKept` has an invariant of its own, `OrderInv`, over any harm: the lines of the file
  that can be read and the turns in memory are in the order they were given, none beyond
  the turn that is recorded, whatever the torn lines hide.
* `SessionIndex_proofs`: `IndexIInv`, then `SessionsInv`, `NothingHidden`,
  `DeletedNotListed`, `NamesStick` (with its exception) and `FreshIsEmpty` (an action property), for any cap,
  any number of sessions, turns, deaths and losses, under `SessionIndexAssumption` only.
  None of the five is inductive: a kill turns the directory into any of the states a
  request was going through, and a start derives the list from what it finds.  `IndexIInv`
  therefore speaks of all the states in `disk` and `todo`: each is `Sound` by itself (one
  entry per session, ids below the stored sequence, turns and `meta.json` only where there
  is a directory) and `Keeps` what the user may count on now, and the last one what the
  answer will bring, which the list in memory agrees with.  Each operation of the store
  has one lemma, from a store whose states are such to a store whose states are such;
  sorting, evicting and removing one by one are inductions over the positions of the list.
* `FileProtocol_proofs`: `ProtocolInv`, then `DispatchedOnce`, `NoStepAfterStop`,
  `NoOldAnswer`, `StopStopsOneTurn` and `StopsOnlyAsked`, for any number of requests,
  stops, kills and restarts.  `ProtocolInv` says that a request is in one place: unwritten,
  in the temporary file, or in `request.json`; and that what a thread with an open file is
  about to write was not dispatched, so a late write into a published file dispatches
  nothing twice.  `NoStepAfterStop` rests on its last part: nothing removes the sentinel
  between the press and the end of the loop, because a live runner alone clears it, between
  two turns.  `NoOldAnswer` needs that every document was
  written after each call that waits began; `StopStopsOneTurn` that the stopped turns and
  the sentinel together are no more than the presses.  `StopsOnlyAsked` is proved for
  `Calm` and without restarts of the app, where it holds: a press made late, or the
  sentinel `onDestroy` leaves, stops whichever turn comes next.  It rests on
  one request and one turn being on their way at a time: a sentinel either is for the turn
  the user asked to stop, or the runner removes it before it claims a turn, because a query
  always comes between two turns.  Any exceptions may happen, and a kill at any point
  (after it nothing starts the runner but a restart of the app).
* `EventTail_proofs`: `TailInv` and `TailExact`, for any number of lives of the runner,
  events and launches.  While the stamp the thread knows is that of the ready file, the
  complete lines of what it has read of that log are what was handed over, and what follows
  the last newline is the half line it keeps.  That the complete lines of two readings are
  those of both together is an induction over the bytes.
* `Conversation_proofs`, of one turn: `TurnInv`, then `WithinBudgets`, `StopSoon`,
  `ToolsAfterNudge` and `ShownIsStored`.  `TurnInv` counts the generations by the place in
  the turn: after a wrap-up or a description none is left.  `ShownIsStored` needs, at every
  place between an accepted answer and `turn_end`, what the last message is.
* `Conversation_proofs`, of a session, for any number of turns and compactions and whatever
  the driver fails at short of an exception.  The four properties of a turn hold in each of
  its turns (`TurnsOfASession`), and the agent's calls never make the engine rewind
  (`AgentNeverRewinds`), whatever is refused.  `KvHonest` and `Anchored` rest on
  `ConversationInv`, in two halves that do not need each other:
  - `HonestInv`, for `KvHonest`.  Between turns the driver's belief agrees with the KV cache,
    or the next prompt is prefilled from the start.  With the history off that is because
    the next prompt is two messages long and what a turn leaves behind is longer, so that no
    suffix of it is prefilled (`TooLong`).  Within a turn, after a generation the
    driver believes the prompt and what the model said; from an accepted answer on, either
    the KV cache will be given up (`GivenUp`, `LostAnswer`) or the answer shown stands for
    that one generation (`HonestAnswer`), so anchoring on it changes no more than what an
    assistant's message says.
  - `AnchorInv`, for `Anchored`.  Until the answer the prompt and the transcript of the turn
    are the same, and end with a message for the model; after it the transcript is the
    prompt and the answer, or the KV cache is given up.  So with the history on what `sync_transcript` is told
    is what `render_history` makes of the stored turn: `RenderedAppend`, that rendering one
    more turn appends its messages, is the fact about the data.

  Their hypotheses are on the constants, named in the module, and shut out what TLC refutes.
  `HonestRefusals`: a refusal for the language only where all turns are chats, greetings
  and descriptions, and a refused answer about a picture, which ends in a description,
  only where older pictures become notes (otherwise the last row of the table).  With a value, a count, the clock or
  something to remember, a language nudge leads to `ConversationStale`, for the clock and a
  count with `MaxSteps = 3`.  `AnchoredRefusals`: in a session with recalls nothing is
  refused for the language, and a picture only where it becomes a note.  Otherwise the
  runtime's answer, stored before it is refused, is in the transcript and not in the prompt
  (`Anchored` is violated with `Kinds = {"recall"}`, `Refusals = {"language"}`, and with
  `Refusals = {"image"}`, `ReuseImages = TRUE`).  The one gap: with recalls and a language
  refusal TLC finds `KvHonest` kept, because an anchor that misses a message fits no
  prompt and is never used; that argument is not part of the invariant, and
  `HonestRefusals` leaves it out.
* `LlmDriver_proofs`: `DriverInv` and `NeverRewinds`, for any prompts, if the engine
  does not throw.
* `TurnTools_proofs`: `PlanInv` for the planner alone, with `SomeStepCurrent`; then, for
  the composition, `ToolsInv`, `OneRecordPerSlot`, `PinnedStay`, `DeletedStayDeleted`,
  `IdNamesOneRecord`, `PinnedRecalled`, `SomeStepCurrent`, and that only pinned records
  exceed the limit.  The invariant gives the file the shape of the memory (a crash loads
  it back), keeps ids and creation times unique, says that between the two files of a save
  the first is what is in memory, and, for the ids, that every id on the disk is below the
  sequence a restart would derive, up to one cut save.

The prover takes no operator as a parameter, so `SequenceLemmas` states induction with the
set of the positions a fact holds at, and shows that a function defined from `0` to `n` by
its predecessor exists (`Recursion`).  That is enough for loops over a list.  What the
library's own folds, sorts and selections compute stays out of reach, so the modules proved
about write these loops out (`SelectSeq` is left in one mistaken definition).

Only model-checked: `ButtonComesBack` and `EveryLineArrives`, which are liveness under
fairness and out of the prover's reach.

## What is not modelled

* The wording of prompts, answers, titles and notes, the parsing of calls, the intent
  patterns and the JSON codec: text in, text out.  What they decide is a choice.
* Token counts: whether a prompt is over its budget is a choice, so the missing second
  look after a compaction (`agent_runtime.cpp:1293`) is a hazard without a property.
* `extract_slot` and `resolve`: which value a text gives a slot, which tool a name means.
* A `max_tool_calls` of 0, which `TurnAssumption` excludes: one call would run.
* The memory and the session-notes switches of a config request (`MemoryEnabled` is a
  constant of a run; the notes only change the current message) and, in `Conversation`, the
  requests `reset` and `compact`: a compaction comes at either end of a turn there.
* Sessions created under a name the client chose (in `SessionIndex`; one session's files
  meet them in `SessionTranscript`).
* The engine after `reload_llm` throws: the process dies, a kill in `FileProtocol`.
* Device code and pictures (vision and NPU pipeline, canvas, performance monitor,
  benchmark), and MNN itself beyond its prompt cache.

## Plan

Done: the transcript, the list of sessions, the memory, the planner, the tools, the two
halves of the file protocol, the turn, the driver and their composition; the abstract log;
the proofs above, which state every invariant and action property the passing runs check.
Left:

1. `Names` and `SlotValue`: `resolve` and `extract_slot` as operators against a reference
   definition, the second over bytes, where a delimiter can be a part of a character.
2. `ContextBudget`: token counts, compaction before and after a turn.
3. A mailbox of requests and answers that `FileProtocol` implements under `Calm`.
4. `KvHonest` for sessions of recalls under a language refusal, where the anchor is lost.
