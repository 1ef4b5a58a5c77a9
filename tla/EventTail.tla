-------------------------------- MODULE EventTail --------------------------------
(***************************************************************************)
(* The event log (events.jsonl) between the runner that appends to it and  *)
(* the thread of the app that follows it byte by byte, while the bridge    *)
(* script reaps dead runners and starts new ones with an empty log.        *)
(* Translated from AgentClient.pollLoop, MainActivity.prepareRuntime, the  *)
(* loop of gemma4-d8400-bridge.sh, AgentService and append_line.           *)
(*                                                                         *)
(* A line is two halves, the second of which ends with the newline: enough *)
(* for a line to be read in two pieces, or to be left unfinished by a      *)
(* kill.  service-ready is the life of the runner that wrote it, which     *)
(* stands for the file's modification time, and 0 when it is missing.      *)
(***************************************************************************)
EXTENDS Integers, Sequences

CONSTANTS
    MaxLives,    \* bound on the starts of the runner
    MaxEvents,   \* bound on the events of one runner after its hello
    MaxLaunches  \* bound on the starts of the app

ASSUME TailAssumption == {MaxLives, MaxEvents, MaxLaunches} \subseteq Nat

VARIABLES
    log,       \* events.jsonl: does it exist, and the halves of lines in it
    ready,     \* service-ready
    start,     \* does app-service-start exist?
    runner,    \* how far the bridge and the runner are
    life,      \* the number of the runner
    emitted,   \* events this runner has begun to write
    poller,    \* where the poll thread is
    offset,    \* its offset in the log
    known,     \* knownReadyStamp
    pending,   \* the bytes of an unfinished line it has read
    base,      \* history: where it began to follow the log it is reading
    got,       \* history: the events handed to this listener
    mark,      \* history: how many of them before it began there
    launches   \* history: starts of the app

logVars == <<log, ready, start, runner, life, emitted>>
pollVars == <<poller, offset, known, pending, base, got, mark>>
vars == <<logVars, pollVars, launches>>

\* Event 0 is the hello a runner begins with.
Event == [life : Nat, n : Nat]
Half == [event : Event, last : BOOLEAN]

Alive == runner \in {"loading", "prepared", "hello", "up"}
Polling == poller \in {"stamp", "length", "read"}

TypeOK ==
    /\ log \in [exists : BOOLEAN, halves : Seq(Half)]
    /\ ready \in Nat /\ life \in Nat /\ emitted \in Nat
    /\ start \in BOOLEAN
    /\ runner \in {"dead", "clearing", "bare", "loading", "prepared", "hello", "up"}
    /\ poller \in {"off", "waiting", "begin", "stamp", "length", "read"}
    /\ {offset, known, base, mark, launches} \subseteq Nat
    /\ pending \in Seq(Half)
    /\ got \in Seq(Event)

-----------------------------------------------------------------------------
(* Bytes and lines. *)

NoLog == [exists |-> FALSE, halves |-> <<>>]

\* Does position k end a line that parses: both halves of one event, and
\* nothing between them and the newline before?
EndsLine(halves, k) ==
    /\ halves[k].last
    /\ k > 1 /\ halves[k - 1] = [halves[k] EXCEPT !.last = FALSE]
    /\ k > 2 => halves[k - 2].last

\* The events of the lines that parse; the others are logged and dropped.
Lines(halves) ==
    LET upto[k \in 0 .. Len(halves)] ==
            IF k = 0 THEN <<>>
            ELSE IF EndsLine(halves, k) THEN Append(upto[k - 1], halves[k].event)
            ELSE upto[k - 1]
    IN  upto[Len(halves)]

\* What follows the last newline.
Unfinished(halves) ==
    LET ends == {k \in DOMAIN halves : halves[k].last}
        after == IF ends = {} THEN 0 ELSE CHOOSE k \in ends : \A j \in ends : j <= k
    IN  SubSeq(halves, after + 1, Len(halves))

\* The part of the log from where the poller began to follow it.
Followed(upto) == SubSeq(log.halves, base + 1, upto)

-----------------------------------------------------------------------------
(* The bridge and the runner. *)

\* start_runner: a runner that is alive and ready is reused, any other one is
\* killed, and the ready file is the first of the files to go.
StartRunner ==
    /\ start
    /\ runner \in {"dead", "up"}
    /\ start' = FALSE
    /\ IF runner = "up" /\ ready # 0
       THEN UNCHANGED <<runner, ready>>
       ELSE /\ life < MaxLives
            /\ runner' = "clearing"
            /\ ready' = 0
    /\ UNCHANGED <<log, life, emitted, pollVars, launches>>

RemoveLog ==
    /\ runner = "clearing"
    /\ log' = NoLog
    /\ runner' = "bare"
    /\ UNCHANGED <<ready, start, life, emitted, pollVars, launches>>

\* The script leaves an empty log and starts the runner.
Launch ==
    /\ runner = "bare"
    /\ log' = [exists |-> TRUE, halves |-> <<>>]
    /\ life' = life + 1
    /\ emitted' = 0
    /\ runner' = "loading"
    /\ UNCHANGED <<ready, start, pollVars, launches>>

\* AgentService::prepare, once the model is loaded.
Prepare ==
    /\ runner = "loading"
    /\ log' = NoLog
    /\ ready' = 0
    /\ runner' = "prepared"
    /\ UNCHANGED <<start, life, emitted, pollVars, launches>>

Writes(n, last) ==
    log' = [exists |-> TRUE,
            halves |-> Append(log.halves, [event |-> [life |-> life, n |-> n],
                                           last |-> last])]

MidLine == log.halves # <<>> /\ ~log.halves[Len(log.halves)].last

\* emit, the first bytes of a line: the hello, then the events of the turns.
BeginLine ==
    /\ ~MidLine
    /\ \/ runner = "prepared" /\ emitted = 0
       \/ runner = "up" /\ emitted <= MaxEvents
    /\ Writes(emitted, FALSE)
    /\ emitted' = emitted + 1
    /\ UNCHANGED <<ready, start, runner, life, pollVars, launches>>

EndLine ==
    /\ runner \in {"prepared", "up"}
    /\ MidLine
    /\ Writes(emitted - 1, TRUE)
    /\ runner' = IF runner = "prepared" THEN "hello" ELSE runner
    /\ UNCHANGED <<ready, start, life, emitted, pollVars, launches>>

\* write_ready, after the hello.
WriteReady ==
    /\ runner = "hello"
    /\ ready' = life
    /\ runner' = "up"
    /\ UNCHANGED <<log, start, life, emitted, pollVars, launches>>

\* kill -9 or a crash, perhaps in the middle of a line.
Die ==
    /\ Alive
    /\ runner' = "dead"
    /\ UNCHANGED <<log, ready, start, life, emitted, pollVars, launches>>

\* The bridge's loop finds the runner dead and removes its ready file.
Reap ==
    /\ runner = "dead"
    /\ ready # 0
    /\ ready' = 0
    /\ UNCHANGED <<log, start, runner, life, emitted, pollVars, launches>>

-----------------------------------------------------------------------------
(* The app. *)

\* prepareRuntime asks the bridge for a runner; an app that has replaced the
\* runtime removes the ready file first, so that the runner is not reused.
StartApp ==
    /\ launches < MaxLaunches
    /\ launches' = launches + 1
    /\ poller' = "waiting"
    /\ start' = TRUE
    /\ \E installed \in BOOLEAN : ready' = IF installed THEN 0 ELSE ready
    /\ pending' = <<>> /\ got' = <<>>
    /\ offset' = 0 /\ known' = 0 /\ base' = 0 /\ mark' = 0
    /\ UNCHANGED <<log, runner, life, emitted>>

\* Once there is a ready file pollLoop starts: from the end of the log, then
StartPolling ==
    /\ poller = "waiting"
    /\ ready # 0
    /\ offset' = Len(log.halves)
    /\ base' = offset'
    /\ poller' = "begin"
    /\ UNCHANGED <<logVars, known, pending, got, mark, launches>>

\* with the stamp the ready file has by now.
ReadStamp ==
    /\ poller = "begin"
    /\ known' = ready
    /\ poller' = "stamp"
    /\ UNCHANGED <<logVars, offset, pending, base, got, mark, launches>>

\* Mistake: the bytes of the unfinished line are kept.
RewindKeepsPending ==
    /\ offset' = 0
    /\ base' = 0
    /\ mark' = Len(got)
    /\ UNCHANGED pending

\* The log is followed from its first byte.
Rewind ==
    /\ offset' = 0
    /\ pending' = <<>>
    /\ base' = 0
    /\ mark' = Len(got)

\* Mistake: the log is only followed again when it became shorter.
CheckStampOnly ==
    /\ poller = "stamp"
    /\ known' = ready
    /\ IF ready # known
       THEN base' = 0 /\ mark' = Len(got)
       ELSE UNCHANGED <<base, mark>>
    /\ poller' = "length"
    /\ UNCHANGED <<logVars, offset, pending, got, launches>>

\* A new stamp: another runner, so another log (onLogReset).
CheckStamp ==
    /\ poller = "stamp"
    /\ IF ready # known
       THEN Rewind
       ELSE UNCHANGED <<offset, pending, base, mark>>
    /\ known' = ready
    /\ poller' = "length"
    /\ UNCHANGED <<logVars, got, launches>>

\* No log, or nothing new in it: sleep.  A log that became shorter is another
\* one.
CheckLength ==
    /\ poller = "length"
    /\ IF log.exists /\ Len(log.halves) < offset
       THEN Rewind
       ELSE UNCHANGED <<offset, pending, base, mark>>
    /\ poller' = IF log.exists /\ Len(log.halves) # offset' THEN "read" ELSE "stamp"
    /\ UNCHANGED <<logVars, known, got, launches>>

\* Read up to the end of the file and hand over the complete lines.  A file
\* that is gone, or shorter than the offset by now, yields nothing.
ReadLog ==
    /\ poller = "read"
    /\ LET bytes == pending \o SubSeq(log.halves, offset + 1, Len(log.halves))
       IN  /\ got' = got \o Lines(bytes)
           /\ pending' = Unfinished(bytes)
    /\ offset' = IF Len(log.halves) > offset THEN Len(log.halves) ELSE offset
    /\ poller' = "stamp"
    /\ UNCHANGED <<logVars, known, base, mark, launches>>

-----------------------------------------------------------------------------
Init ==
    /\ log = NoLog
    /\ ready = 0
    /\ start = FALSE
    /\ runner = "dead"
    /\ life = 0 /\ emitted = 0
    /\ poller = "off"
    /\ offset = 0 /\ known = 0 /\ base = 0 /\ mark = 0 /\ launches = 0
    /\ pending = <<>> /\ got = <<>>

Service ==
    \/ StartRunner \/ RemoveLog \/ Launch \/ Prepare
    \/ BeginLine \/ EndLine \/ WriteReady
    \/ Die \/ Reap

Poll == ReadStamp \/ CheckStamp \/ CheckLength \/ ReadLog

Next == Service \/ StartApp \/ StartPolling \/ Poll

Spec == Init /\ [][Next]_vars

\* The poll thread sleeps for a bounded time only.  Nothing is asked of the
\* runner, the bridge and the user.
FairSpec == Spec /\ WF_vars(Poll)

-----------------------------------------------------------------------------
(* What must hold. *)

\* What the listener was given since the last reset.
Since == SubSeq(got, mark + 1, Len(got))

\* While the app follows the runner that is up, the listener has been given
\* exactly the complete lines of the bytes read so far, in order, each whole and
\* once: no line of the dead runner, no line cut or joined by a restart, by a
\* line read in two pieces or by a log that was removed between two steps of the
\* poll thread (pollLoop).
TailExact ==
    Polling /\ known = ready /\ ready # 0 /\ log.exists =>
        Since = Lines(Followed(offset))

\* The type invariant, and: the log holds lines of the last runner only, and once
\* the poll thread has seen the stamp of that runner, neither the listener's
\* events since the last reset nor the unfinished line are of an earlier one.
TailInv ==
    /\ TypeOK
    /\ mark <= Len(got)
    /\ ready # 0 => ready = life /\ runner \in {"up", "dead"}
    /\ known <= life
    /\ poller \in {"waiting", "begin"} => got = <<>> /\ pending = <<>> /\ mark = 0
    /\ \A k \in DOMAIN log.halves : log.halves[k].event.life = life
    /\ known = life /\ Polling =>
           /\ \A k \in DOMAIN pending : pending[k].event.life = life
           /\ \A k \in mark + 1 .. Len(got) : got[k].life = life

Among(seq, event) == \E k \in DOMAIN seq : seq[k] = event

\* A line of a runner that stays ready, in the log from where the poller follows
\* it, is handed to the listener unless the app is closed before: a new log is
\* never taken for the rest of the old one (pollLoop).
EveryLineArrives ==
    \A l \in 1 .. MaxLives, n \in 0 .. MaxEvents :
        LET event == [life |-> l, n |-> n]
        IN  Polling /\ ready = l /\ Among(Lines(Followed(Len(log.halves))), event)
                ~> \/ Among(got, event)
                   \/ ready # l
                   \/ ~Polling

\* AgentClient.java:140: "replaying the backlog here would draw every past turn
\* a second time": no event of a turn is handed to one listener twice.
NoTurnTwice ==
    \A j, k \in DOMAIN got : j # k /\ got[j] = got[k] => got[j].n = 0
================================================================================
