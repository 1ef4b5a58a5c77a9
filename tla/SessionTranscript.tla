--------------------------- MODULE SessionTranscript ---------------------------
(***************************************************************************)
(* One conversation of the agent: its append-only transcript               *)
(* (turns.jsonl), its rolling summary (meta.json) and the copy of both the *)
(* running process works on.  Translated from SessionStore                 *)
(* (runtime/agent/agent_session.cpp) and from the places where             *)
(* AgentRuntime drives it: run_turn, render_history and compact_history    *)
(* (runtime/agent/agent_runtime.cpp).                                      *)
(*                                                                         *)
(* A turn is its number and an identity (the started_ms of the code): the  *)
(* text is abstracted.  The summary is the set of the turns whose text the *)
(* model was given to fold.  Whether a prompt is over its token budget and *)
(* whether the summary generation succeeds are free choices.               *)
(***************************************************************************)
EXTENDS Integers, Sequences, FiniteSets

CONSTANTS
    RecentTurnsMin,      \* config.recent_turns_min: newest turns never folded
    CompactionMinTurns,  \* config.compaction_min_turns
    MaxTurns,            \* bound on the number of turns ever started
    WriteFaults,         \* may an append be cut short (kill -9, full disk)?
    ExplicitIds          \* may new_session name a session that exists?

ASSUME TranscriptAssumption ==
    /\ RecentTurnsMin \in Nat
    /\ CompactionMinTurns \in Nat
    /\ MaxTurns \in Nat
    /\ WriteFaults \in BOOLEAN
    /\ ExplicitIds \in BOOLEAN

VARIABLES
    log,           \* the lines of turns.jsonl
    unterminated,  \* the last line of turns.jsonl has no newline yet
    metaFile,      \* what meta.json holds
    turns,         \* SessionStore::turns_
    meta,          \* SessionStore::meta_
    pc,            \* where the process is in run_turn
    current,       \* the turn run_turn is working on
    clock,         \* turns started so far: gives each its identity
    ended,         \* history: identities of the turns whose turn_end was emitted
    harm           \* history: was a write cut short, or a session recreated?

vars == <<log, unterminated, metaFile, turns, meta, pc, current, clock, ended, harm>>

Turn == [index : Nat, id : Nat, image : BOOLEAN]

\* A line that is not a JSON object: read_turns skips it.
Garbage == [index |-> 0, id |-> 0, image |-> FALSE]

Meta == [turns : Nat, upto : Nat, summary : SUBSET Nat]
FreshMeta == [turns |-> 0, upto |-> 0, summary |-> {}]

Running == pc # "down"

TypeOK ==
    /\ log \in Seq(Turn)
    /\ unterminated \in BOOLEAN
    /\ metaFile \in Meta
    /\ turns \in Seq(Turn)
    /\ meta \in Meta
    /\ pc \in {"down", "idle", "rendered", "generating", "ended"}
    /\ current \in Turn
    /\ clock \in Nat
    /\ ended \subseteq Nat

-----------------------------------------------------------------------------
(* The files. *)

\* read_turns: the readable lines, in order.  A file without a torn line is
\* read back as it is.
ReadTurns(file) ==
    LET upto[k \in 0 .. Len(file)] ==
            IF k = 0 THEN <<>>
            ELSE IF file[k] # Garbage THEN Append(upto[k - 1], file[k])
            ELSE upto[k - 1]
    IN  IF \A k \in DOMAIN file : file[k] # Garbage THEN file ELSE upto[Len(file)]

\* append_line opens the file for appending whatever its last byte is, so a
\* line that was left without its newline and the new one become one line.
Glue(file, line) ==
    IF unterminated
    THEN [file EXCEPT ![Len(file)] = Garbage]
    ELSE Append(file, line)

\* An append that stops early: nothing, a part of the line, or the whole line
\* without its newline reached the file.
CutShort(line) ==
    \/ UNCHANGED <<log, unterminated>>
    \/ /\ log' \in {Glue(log, Garbage), Glue(log, line)}
       /\ unterminated' = TRUE

-----------------------------------------------------------------------------
(* What the prompt is made of. *)

\* Mistake: the turn summary_upto names is taken for uncovered.
HiddenBelow(turn) == turn.index < meta.upto

\* render_history skips the turns the summary covers.
Hidden(turn) == turn.index <= meta.upto

\* render_history, first half: a picture stays in the prompt only in the turn
\* that carried it.  An older one is replaced by a text note (the default,
\* reuse_history_images = false).
StripImage(turn) ==
    IF turn.image /\ ~Hidden(turn) THEN [turn EXCEPT !.image = FALSE] ELSE turn

Stripped == [k \in DOMAIN turns |-> StripImage(turns[k])]

\* Mistake: only the turns of the prompt are written back.
RewriteVisible(include_history) ==
    IF include_history /\ Stripped # turns
    THEN /\ turns' = Stripped
         /\ log' = SelectSeq(Stripped, LAMBDA turn : ~Hidden(turn))
         /\ unterminated' = FALSE
    ELSE UNCHANGED <<turns, log, unterminated>>

\* Mistake: the file is opened for appending.
RewriteAppends(include_history) ==
    IF include_history /\ Stripped # turns
    THEN /\ turns' = Stripped
         /\ log' = log \o Stripped
         /\ unterminated' = FALSE
    ELSE UNCHANGED <<turns, log, unterminated>>

\* The rewritten turns replace turns.jsonl (rewrite_turns, an atomic rename).
\* In fresh-context mode, which a config request can switch on and off between
\* two turns, no history is rendered and nothing is rewritten.
RenderHistory(include_history) ==
    IF include_history /\ Stripped # turns
    THEN /\ turns' = Stripped
         /\ log' = Stripped
         /\ unterminated' = FALSE
    ELSE UNCHANGED <<turns, log, unterminated>>

-----------------------------------------------------------------------------
(* Compaction. *)

\* Mistake: one of the newest recent_turns_min turns is a candidate too.
OneMoreCandidate ==
    {k \in 1 .. (Len(turns) - RecentTurnsMin + 1) :
        k \in DOMAIN turns /\ ~Hidden(turns[k])}

\* compaction_candidates: the turns before the newest recent_turns_min that
\* the summary does not cover yet.
Candidates ==
    {k \in 1 .. (Len(turns) - RecentTurnsMin) : ~Hidden(turns[k])}

\* Mistake: candidates.front() instead of candidates.back().
FirstCandidate == CHOOSE k \in Candidates : \A j \in Candidates : j >= k

LastCandidate == CHOOSE k \in Candidates : \A j \in Candidates : j <= k

Larger(a, b) == IF a >= b THEN a ELSE b

\* apply_compaction and its persist_meta.
ApplyCompaction ==
    /\ meta' = [meta EXCEPT
                  !.upto = Larger(meta.upto, turns[LastCandidate].index),
                  !.summary = meta.summary \cup {turns[k].id : k \in Candidates}]
    /\ metaFile' = meta'

\* compact_history: unless forced, a compaction that would fold only a few
\* turns is not worth its cost.  The summary generation may fail or return
\* nothing: then nothing changes.
CompactHistory(force) ==
    \/ /\ Candidates # {}
       /\ force \/ Cardinality(Candidates) >= CompactionMinTurns
       /\ ApplyCompaction
    \/ UNCHANGED <<meta, metaFile>>

-----------------------------------------------------------------------------
(* Requests. *)

\* Mistake: the turn count of meta.json is trusted.
OpenTrustsMeta ==
    /\ pc \in {"down", "idle"}
    /\ turns' = ReadTurns(log)
    /\ meta' = metaFile
    /\ pc' = "idle"
    /\ UNCHANGED <<log, unterminated, metaFile, current, clock, ended, harm>>

\* Mistake: open() starts from an empty meta.
OpenForgetsSummary ==
    /\ pc \in {"down", "idle"}
    /\ turns' = ReadTurns(log)
    /\ meta' = [FreshMeta EXCEPT !.turns = Len(turns')]
    /\ pc' = "idle"
    /\ UNCHANGED <<log, unterminated, metaFile, current, clock, ended, harm>>

\* open() on a session that exists: open_session, history, a turn of another
\* session and then this one again, or initialize() after a restart.
Open ==
    /\ pc \in {"down", "idle"}
    /\ turns' = ReadTurns(log)
    /\ meta' = [metaFile EXCEPT !.turns = Len(turns')]
    /\ pc' = "idle"
    /\ UNCHANGED <<log, unterminated, metaFile, current, clock, ended, harm>>

\* create() with the id of a session that exists: the directory, and with it
\* turns.jsonl, is reused.
Recreate ==
    /\ ExplicitIds
    /\ pc = "idle"
    /\ turns' = <<>>
    /\ meta' = FreshMeta
    /\ metaFile' = FreshMeta
    /\ harm' = TRUE
    /\ UNCHANGED <<log, unterminated, pc, current, clock, ended>>

\* run_turn up to the first rendering of the prompt.
BeginTurn ==
    /\ pc = "idle"
    /\ clock < MaxTurns
    /\ clock' = clock + 1
    /\ \E image \in BOOLEAN :
          current' = [index |-> meta.turns + 1, id |-> clock', image |-> image]
    /\ \E include_history \in BOOLEAN : RenderHistory(include_history)
    /\ pc' = "rendered"
    /\ UNCHANGED <<metaFile, meta, ended, harm>>

\* run_turn's budget check: over budget, the history is compacted once.
CheckBudget ==
    /\ pc = "rendered"
    /\ CompactHistory(TRUE)
    /\ pc' = "generating"
    /\ UNCHANGED <<log, unterminated, turns, current, clock, ended, harm>>

\* The answer is there: append_turn, then turn_end.
AppendTurn ==
    /\ pc = "generating"
    /\ log' = Glue(log, current)
    /\ unterminated' = FALSE
    /\ turns' = Append(turns, current)
    /\ meta' = [meta EXCEPT !.turns = Len(turns')]
    /\ metaFile' = meta'
    /\ ended' = ended \cup {current.id}
    /\ pc' = "ended"
    /\ UNCHANGED <<current, clock, harm>>

\* append_turn when the write fails (a full disk): it returns before it
\* touches the memory; run_turn ignores the result and emits turn_end.
AppendTurnFails ==
    /\ WriteFaults
    /\ pc = "generating"
    /\ CutShort(current)
    /\ ended' = ended \cup {current.id}
    /\ harm' = TRUE
    /\ pc' = "ended"
    /\ UNCHANGED <<metaFile, turns, meta, current, clock>>

\* The check after turn_end: needs_compaction is false while there are no
\* more turns than recent_turns_min.
PostTurn ==
    /\ pc = "ended"
    /\ IF Len(turns) <= RecentTurnsMin
       THEN UNCHANGED <<meta, metaFile>>
       ELSE CompactHistory(TRUE)
    /\ pc' = "idle"
    /\ UNCHANGED <<log, unterminated, turns, current, clock, ended, harm>>

\* The compact request.
CompactRequest ==
    /\ pc = "idle"
    /\ CompactHistory(TRUE)
    /\ UNCHANGED <<log, unterminated, turns, pc, current, clock, ended, harm>>

\* A generation throws (the engine cannot be reloaded): dispatch catches it
\* and the turn leaves no trace in the transcript.
AbortTurn ==
    /\ pc \in {"rendered", "generating"}
    /\ pc' = "idle"
    /\ UNCHANGED <<log, unterminated, metaFile, turns, meta, current, clock, ended, harm>>

\* kill -9 (the bridge's stop_runner, the system, a reboot).  In append_turn
\* the line may be in the file already, and meta.json not yet written.
Crash ==
    /\ Running
    /\ \/ UNCHANGED <<log, unterminated, harm>>
       \/ /\ pc = "generating"
          /\ log' = Glue(log, current)
          /\ unterminated' = FALSE
          /\ UNCHANGED harm
       \/ /\ WriteFaults
          /\ pc = "generating"
          /\ CutShort(current)
          /\ harm' = TRUE
    /\ turns' = <<>>
    /\ meta' = FreshMeta
    /\ pc' = "down"
    /\ UNCHANGED <<metaFile, current, clock, ended>>

-----------------------------------------------------------------------------
Init ==
    /\ log = <<>>
    /\ unterminated = FALSE
    /\ metaFile = FreshMeta
    /\ turns = <<>>
    /\ meta = FreshMeta
    /\ pc = "idle"
    /\ current = Garbage
    /\ clock = 0
    /\ ended = {}
    /\ harm = FALSE

Next ==
    \/ Open
    \/ Recreate
    \/ BeginTurn
    \/ CheckBudget
    \/ AppendTurn
    \/ AppendTurnFails
    \/ PostTurn
    \/ AbortTurn
    \/ CompactRequest
    \/ Crash

Spec == Init /\ [][Next]_vars

-----------------------------------------------------------------------------
(* What must hold.  Every property but OrderKept is about a transcript that  *)
(* was never harmed: no write was cut short and the session was never        *)
(* created a second time.                                                    *)

\* Every past turn of the conversation reaches the model exactly once: as text
\* in the prompt or inside the summary, never both and never neither
\* (render_history skips what compact_history folded, across restarts).
ContextExact ==
    ~harm /\ Running => \A k \in DOMAIN turns :
                  turns[k].id \in meta.summary <=> Hidden(turns[k])

\* "The newest `recent_turns_min` turns always stay verbatim in the context"
\* (agent_session.cpp:313, agent_config.h:42): none of them is hidden.
WindowVerbatim ==
    ~harm /\ Running => \A k \in DOMAIN turns :
                  k > Len(turns) - RecentTurnsMin => ~Hidden(turns[k])

EndedInLog == \A i \in ended : \E k \in DOMAIN log : log[k].id = i

\* A turn the app was told has ended is in turns.jsonl, whatever compactions,
\* rewrites of the file, crashes and restarts follow.
EndedTurnsKept ==
    ~harm => EndedInLog

\* Turns are numbered by their position, and the number announced by
\* turn_start is the one the next position has: no two turns share a number.
TurnsNumbered ==
    ~harm =>
        /\ Running => \A k \in DOMAIN turns : turns[k].index = k
        /\ pc \in {"rendered", "generating"} => current.index = Len(turns) + 1

\* What meta.json records as summarised stays summarised.
SummaryOnlyGrows ==
    [][~harm' => /\ metaFile.upto <= metaFile'.upto
                 /\ metaFile.summary \subseteq metaFile'.summary]_vars

\* README.md:338: "a compaction never folds fewer than `compaction_min_turns`
\* (4) turns at once".
FoldsEnough ==
    [][metaFile'.upto > metaFile.upto =>
         Cardinality(metaFile'.summary \ metaFile.summary) >= CompactionMinTurns]_vars

\* The transcript never lists a turn twice or out of order, in the file and in
\* memory, torn lines and reused session ids included.
OrderKept ==
    /\ \A j, k \in DOMAIN turns : j < k => turns[j].id < turns[k].id
    /\ \A j, k \in DOMAIN log :
          j < k /\ log[j] # Garbage /\ log[k] # Garbage => log[j].id < log[k].id

\* The abstract log this session implements, the file being what counts.
Promised == INSTANCE TurnLog WITH
    Turns <- 1 .. MaxTurns,
    stored <- [k \in DOMAIN log |-> log[k].id],
    folded <- metaFile.upto,
    summary <- metaFile.summary,
    announced <- ended,
    harmed <- harm

\* Rewrites of the file, restarts and deaths at any place are invisible: the log
\* grows by one turn at a time, at its end, by a turn it does not hold, and
\* meta.json only ever moves on over the turns that were folded with it.
KeepsTurnLog == Promised!Spec

-----------------------------------------------------------------------------
(* The inductive invariant behind the properties above. *)

\* The file is numbered by position, by turns that were started.
LogNumbered ==
    /\ unterminated = FALSE
    /\ clock <= MaxTurns
    /\ \A k \in DOMAIN log : log[k].index = k /\ log[k].id \in 1 .. clock
    /\ \A j, k \in DOMAIN log : j < k => log[j].id < log[k].id

\* The summary covers exactly the first `upto` lines, and never the newest.
SummaryExact ==
    /\ metaFile.upto <= Larger(0, Len(log) - RecentTurnsMin)
    /\ \A i \in metaFile.summary : \E k \in DOMAIN log : log[k].id = i
    /\ \A k \in DOMAIN log : log[k].id \in metaFile.summary <=> k <= metaFile.upto

\* A running process works on what the files hold.
MemoryIsFile ==
    Running => /\ turns = log
               /\ meta.upto = metaFile.upto
               /\ meta.summary = metaFile.summary
               /\ meta.turns = Len(turns)

\* The turn under way is the next one, and no line has its identity yet.
CurrentIsNext ==
    pc \in {"rendered", "generating"} =>
        /\ current.index = Len(turns) + 1
        /\ current.id = clock
        /\ clock > 0
        /\ \A k \in DOMAIN log : log[k].id < clock

TranscriptInv ==
    /\ TypeOK
    /\ LogNumbered
    /\ SummaryExact
    /\ MemoryIsFile
    /\ CurrentIsNext
    /\ EndedInLog

\* What TranscriptInv says holds until the transcript is harmed: a kill at any
\* place of run_turn, compact_history or open leaves files and memory that agree.
UnharmedInv ==
    /\ harm \in BOOLEAN
    /\ ~harm => TranscriptInv
================================================================================
