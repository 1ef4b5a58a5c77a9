------------------------------ MODULE FileProtocol ------------------------------
(***************************************************************************)
(* The app and the resident runner talk through files of one directory:    *)
(* request.json, response.json, events.jsonl and the cancel sentinel.      *)
(* Translated from AgentService and the service loop (the runner), from    *)
(* AgentClient and the parts of MainActivity that use it (the app's main   *)
(* thread and its single worker thread), and from the bridge script.       *)
(*                                                                         *)
(* A request is an identity and its kind.  `events` holds the lines of     *)
(* events.jsonl the app has not handled yet, the three kinds of lines that *)
(* make it act; how its poller finds them is left out.  The legacy         *)
(* benchmark trigger (app-request) is left out too.                        *)
(***************************************************************************)
EXTENDS Integers, Sequences, FiniteSets

CONSTANTS
    MaxTurns,    \* bound on the turns the user sends
    MaxFacts,    \* bound on the turns that promote a fact to the memory
    MaxQueries,  \* bound on the queries of the worker thread
    MaxStops,    \* bound on the presses of the stop button
    MaxKills,    \* bound on the deaths of the runner
    MaxSteps,    \* config.max_steps: the generations of a turn
    Restarts,    \* may the app be closed and started again?
    Throws,      \* may a generation throw?
    Calm         \* does the user do one thing at a time, and wait until the
                 \* last request has been claimed?

ASSUME ProtocolAssumption ==
    /\ {MaxTurns, MaxFacts, MaxQueries, MaxStops, MaxKills} \subseteq Nat
    /\ MaxSteps \in Nat \ {0}
    /\ {Restarts, Throws, Calm} \subseteq BOOLEAN

Threads == {"main", "worker"}

VARIABLES
    request,     \* request.json
    part,        \* request.json.part
    response,    \* response.json
    cancel,      \* does the cancel sentinel exist?
    events,      \* lines of events.jsonl the app has not handled
    runner,      \* where the runner is in its loop
    job,         \* the request it works on
    steps,       \* the generations of that turn so far
    thread,      \* the two threads of the app, each perhaps in send or call
    opened,      \* the name under which the file is now that a thread has open
    running,     \* MainActivity.inferenceRunning
    shown,       \* the turn the app shows as running
    count,       \* how often the bounded things happened
    dispatched,  \* history: the requests the runner dispatched
    stopped,     \* history: the turns that ended as cancelled
    asked,       \* history: the turns the user asked to stop in good time
    heard        \* history: those that were in the loop of run_turn by then

files == <<request, part, response, cancel, events>>
service == <<runner, job, steps>>
app == <<thread, opened, running, shown>>
history == <<dispatched, stopped, asked, heard>>
vars == <<files, service, app, count, history>>

\* A file that was opened is empty until its contents are written; two writers of
\* one file leave what the second wrote, perhaps with the end of the first.
Request == [id : Nat, kind : {"turn", "query", "none"},
            text : {"empty", "whole", "mixed"}]
NoFile == [id |-> 0, kind |-> "none", text |-> "whole"]

\* A published document: the request it answers (0 when the request could not be
\* read) and the threads whose call under way began after its publication.
Response == [exists : BOOLEAN, to : Nat, before : SUBSET Threads]
NoResponse == [exists |-> FALSE, to |-> 0, before |-> {}]

Thread == [pc : {"free", "clear", "open", "fill", "check", "unlink", "rename", "poll",
                 "returned"},
           req : Request, answer : Response]
Free == [pc |-> "free", req |-> NoFile, answer |-> NoResponse]

TypeOK ==
    /\ request \in Request /\ part \in Request /\ job \in Request
    /\ response \in Response
    /\ cancel \in BOOLEAN /\ running \in BOOLEAN
    /\ events \in Seq({"memory_write", "turn_end", "error"})
    /\ runner \in {"down", "look", "idle", "read", "claim", "query", "turn",
                   "generating", "closing", "remembered", "respond", "clear"}
    /\ steps \in Nat
    /\ thread \in [Threads -> Thread]
    /\ opened \in [Threads -> {"none", "part", "request"}]
    /\ shown \in Nat
    /\ count \in [{"request", "turn", "fact", "query", "stop", "kill"} -> Nat]
    /\ dispatched \subseteq Nat /\ stopped \subseteq Nat
    /\ asked \subseteq Nat /\ heard \subseteq Nat

Bump(what) == count' = [count EXCEPT ![what] = @ + 1]

-----------------------------------------------------------------------------
(* The runner: handle_pending, dispatch and the service loop around them.    *)

Publish(to) == response' = [exists |-> TRUE, to |-> to, before |-> {}]

Look ==
    /\ runner = "look"
    /\ runner' = IF request = NoFile THEN "idle" ELSE "read"
    /\ UNCHANGED <<files, job, steps, app, count, history>>

\* Nothing pending: a sentinel nobody waits for is removed, then the loop
\* sleeps.
Idle ==
    /\ runner = "idle"
    /\ cancel' = FALSE
    /\ runner' = "look"
    /\ UNCHANGED <<request, part, response, events, job, steps, app, count, history>>

\* read_request: the file may have gone since handle_pending saw it.
Read ==
    /\ runner = "read"
    /\ IF request = NoFile
       THEN /\ Publish(0)
            /\ runner' = "look"
            /\ UNCHANGED job
       ELSE /\ job' = request
            /\ runner' = "claim"
            /\ UNCHANGED response
    /\ UNCHANGED <<request, part, cancel, events, steps, app, count, history>>

\* What does not parse is taken for a bare text request: a turn.
IsTurn(req) == req.kind = "turn" \/ req.text # "whole"

\* Mistake: the request is dispatched before it is claimed.
LeaveRequest ==
    /\ runner = "claim"
    /\ runner' = IF IsTurn(job) THEN "turn" ELSE "query"
    /\ dispatched' = dispatched \cup {job.id}
    /\ UNCHANGED <<files, job, steps, app, count, stopped, asked, heard>>

\* Where a file that is open is after request.json was removed, and after
\* request.json.part was renamed to it.
Removed(place) == IF place = "request" THEN "none" ELSE place
Renamed(place) == IF place = "part" THEN "request" ELSE "none"

\* The request is claimed (whatever file has its name by now) and dispatched.
Claim ==
    /\ runner = "claim"
    /\ request' = NoFile
    /\ opened' = [t \in Threads |-> Removed(opened[t])]
    /\ runner' = IF IsTurn(job) THEN "turn" ELSE "query"
    /\ dispatched' = dispatched \cup {job.id}
    /\ UNCHANGED <<part, response, cancel, events, job, steps, thread, running, shown,
                   count, stopped, asked, heard>>

Emit(type) == events' = Append(events, type)

\* run_turn refuses a turn without text or image: an error event, no turn_end.
EmptyTurn ==
    /\ runner = "turn"
    /\ job.text = "empty"
    /\ Emit("error")
    /\ runner' = "respond"
    /\ UNCHANGED <<request, part, response, cancel, job, steps, app, count, history>>

\* Mistake: the next step begins without a look at the sentinel.
StepOn ==
    /\ runner = "turn"
    /\ job.text # "empty"
    /\ steps' = steps + 1
    /\ runner' = "generating"
    /\ UNCHANGED <<files, job, app, count, history>>

\* The top of the loop of run_turn: nobody has asked to stop, the next step begins.
Step ==
    /\ runner = "turn"
    /\ job.text # "empty"
    /\ ~cancel
    /\ steps' = steps + 1
    /\ runner' = "generating"
    /\ UNCHANGED <<files, job, app, count, history>>

\* The sentinel is seen there: the turn ends as cancelled.
Cut ==
    /\ runner = "turn"
    /\ job.text # "empty"
    /\ cancel
    /\ stopped' = stopped \cup {job.id}
    /\ steps' = 0
    /\ runner' = "closing"
    /\ UNCHANGED <<files, job, app, count, dispatched, asked, heard>>

\* A generation is over; seen at a token, the sentinel only ends its streaming.  The
\* loop goes on while there are steps left.
Continue ==
    /\ runner = "generating"
    /\ steps < MaxSteps
    /\ runner' = "turn"
    /\ UNCHANGED <<files, job, steps, app, count, history>>

\* Or the answer is final, perhaps after the wrap-up, which takes no look either.
Answer ==
    /\ runner = "generating"
    /\ steps' = 0
    /\ runner' = "closing"
    /\ UNCHANGED <<files, job, app, count, history>>

\* write_memories promoted a fact of the turn.
Remember ==
    /\ runner = "closing"
    /\ count["fact"] < MaxFacts
    /\ Bump("fact")
    /\ Emit("memory_write")
    /\ runner' = "remembered"
    /\ UNCHANGED <<request, part, response, cancel, job, steps, app, history>>

\* Mistake: a stopped turn returns early.
EndTurnSilently ==
    /\ runner \in {"closing", "remembered"}
    /\ IF job.id \in stopped THEN UNCHANGED events ELSE Emit("turn_end")
    /\ runner' = "respond"
    /\ UNCHANGED <<request, part, response, cancel, job, steps, app, count, history>>

\* turn_end is emitted; the compaction and the response follow.
EndTurn ==
    /\ runner \in {"closing", "remembered"}
    /\ Emit("turn_end")
    /\ runner' = "respond"
    /\ UNCHANGED <<request, part, response, cancel, job, steps, app, count, history>>

\* A generation throws: dispatch emits an error event, and no turn_end follows.
Throw ==
    /\ Throws
    /\ runner \in {"turn", "generating"}
    /\ job.text # "empty"
    /\ Emit("error")
    /\ steps' = 0
    /\ runner' = "respond"
    /\ UNCHANGED <<request, part, response, cancel, job, app, count, history>>

Respond ==
    /\ runner \in {"query", "respond"}
    /\ Publish(job.id)
    /\ runner' = "clear"
    /\ UNCHANGED <<request, part, cancel, events, job, steps, app, count, history>>

\* Mistake: dispatch leaves the sentinel where it is.
KeepSentinel ==
    /\ runner = "clear"
    /\ job' = NoFile
    /\ runner' = "look"
    /\ UNCHANGED <<files, steps, app, count, history>>

\* clear_cancel: whatever turn the sentinel was meant for.
ClearCancel ==
    /\ runner = "clear"
    /\ cancel' = FALSE
    /\ job' = NoFile
    /\ runner' = "look"
    /\ UNCHANGED <<request, part, response, events, steps, app, count, history>>

Runner ==
    \/ Look
    \/ Idle
    \/ Read
    \/ Claim
    \/ EmptyTurn
    \/ Step
    \/ Cut
    \/ Continue
    \/ Answer
    \/ Remember
    \/ EndTurn
    \/ Throw
    \/ Respond
    \/ ClearCancel

-----------------------------------------------------------------------------
(* AgentClient.call and AgentClient.send, run by thread t.                   *)

At(t, pc) == thread[t].pc = pc
Goto(t, pc) == thread' = [thread EXCEPT ![t].pc = pc]

NextRequest(kind) == [id |-> count["request"] + 1, kind |-> kind, text |-> "whole"]

\* Mistake: the previous response is left to be told apart by its time stamp.
KeepPreviousResponse(t) ==
    /\ At(t, "clear")
    /\ Goto(t, "open")
    /\ UNCHANGED <<files, service, opened, running, shown, count, history>>

\* call: remove the previous answer first.
ClearResponse(t) ==
    /\ At(t, "clear")
    /\ response' = NoResponse
    /\ Goto(t, "open")
    /\ UNCHANGED <<request, part, cancel, events, service, opened, running, shown,
                   count, history>>

\* writeAtomic opens request.json.part, a name both threads use: it truncates the
\* file the other thread may have open as well.
OpenPart(t) ==
    /\ At(t, "open")
    /\ part' = [thread[t].req EXCEPT !.text = "empty"]
    /\ opened' = [opened EXCEPT ![t] = "part"]
    /\ Goto(t, "fill")
    /\ UNCHANGED <<request, response, cancel, events, service, running, shown, count,
                   history>>

\* What the file holds after thread t has written its request to it.
Contents(t, file) ==
    IF file.text = "empty" THEN {thread[t].req}
    ELSE {[thread[t].req EXCEPT !.text = text] : text \in {"whole", "mixed"}}

\* The contents go to the file that was opened, wherever it has been renamed
\* to in the meantime, and nowhere if it is gone.
FillPart(t) ==
    /\ At(t, "fill")
    /\ IF opened[t] = "part" THEN part' \in Contents(t, part) ELSE UNCHANGED part
    /\ IF opened[t] = "request" THEN request' \in Contents(t, request)
       ELSE UNCHANGED request
    /\ opened' = [opened EXCEPT ![t] = "none"]
    /\ Goto(t, "check")
    /\ UNCHANGED <<response, cancel, events, service, running, shown, count, history>>

\* target.exists()
CheckTarget(t) ==
    /\ At(t, "check")
    /\ Goto(t, IF request = NoFile THEN "rename" ELSE "unlink")
    /\ UNCHANGED <<files, service, opened, running, shown, count, history>>

\* target.delete(): it fails, and send with it, when the file has gone.
Unlink(t) ==
    /\ At(t, "unlink")
    /\ request' = NoFile
    /\ opened' = [u \in Threads |-> Removed(opened[u])]
    /\ IF request = NoFile
       THEN thread' = [thread EXCEPT ![t] = Free]
       ELSE Goto(t, "rename")
    /\ UNCHANGED <<part, response, cancel, events, service, running, shown, count,
                   history>>

\* renameTo: it fails when the other thread has renamed the file already.  A
\* turn is now shown as running; a query waits for its answer.
Publication(t) ==
    /\ At(t, "rename")
    /\ IF part = NoFile
       THEN /\ thread' = [thread EXCEPT ![t] = Free]
            /\ UNCHANGED <<request, part, opened, running, shown>>
       ELSE /\ request' = part
            /\ part' = NoFile
            /\ opened' = [u \in Threads |-> Renamed(opened[u])]
            /\ IF thread[t].req.kind = "turn"
               THEN /\ thread' = [thread EXCEPT ![t] = Free]
                    /\ running' = TRUE
                    /\ shown' = thread[t].req.id
               ELSE /\ Goto(t, "poll")
                    /\ UNCHANGED <<running, shown>>
    /\ UNCHANGED <<response, cancel, events, service, count, history>>

\* call returns the first document it finds.
Return(t) ==
    /\ At(t, "poll")
    /\ response.exists
    /\ thread' = [thread EXCEPT ![t].pc = "returned", ![t].answer = response]
    /\ UNCHANGED <<files, service, opened, running, shown, count, history>>

\* The caller has used the answer.
Finish(t) ==
    /\ At(t, "returned")
    /\ thread' = [thread EXCEPT ![t] = Free]
    /\ UNCHANGED <<files, service, opened, running, shown, count, history>>

\* The request of t waits for an idle runner, or is worked on and is a query: the
\* answer takes milliseconds.
Prompt(t) ==
    /\ runner \in {"look", "idle", "read", "claim", "query", "clear"}
    /\ thread[t].req.id \in {request.id, job.id}

\* 120 seconds without a document.  The request stays where it is.
GiveUp(t) ==
    /\ At(t, "poll")
    /\ ~response.exists
    /\ ~Prompt(t)
    /\ thread' = [thread EXCEPT ![t] = Free]
    /\ UNCHANGED <<files, service, opened, running, shown, count, history>>

Client(t) ==
    \/ ClearResponse(t)
    \/ OpenPart(t)
    \/ FillPart(t)
    \/ CheckTarget(t)
    \/ Unlink(t)
    \/ Publication(t)
    \/ Return(t)
    \/ Finish(t)
    \/ GiveUp(t)

-----------------------------------------------------------------------------
(* MainActivity. *)

\* Thread t enters send (for a turn) or call (for a query).
StartSend(t) ==
    /\ thread' = [thread EXCEPT ![t] =
                     [Free EXCEPT !.pc = "open", !.req = NextRequest("turn")]]
    /\ count' = [count EXCEPT !["turn"] = @ + 1, !["request"] = @ + 1]

StartCall(t) ==
    /\ thread' = [thread EXCEPT ![t] =
                     [Free EXCEPT !.pc = "clear", !.req = NextRequest("query")]]
    /\ response' = IF response.exists
                   THEN [response EXCEPT !.before = @ \cup {t}]
                   ELSE response

CalmNow ==
    Calm => At("main", "free") /\ At("worker", "free") /\ request = NoFile

\* sendTurn
SendTurn ==
    /\ At("main", "free")
    /\ ~running
    /\ CalmNow
    /\ count["turn"] < MaxTurns
    /\ StartSend("main")
    /\ UNCHANGED <<files, service, opened, running, shown, history>>

\* The turn the app shows is in the loop of run_turn.
InLoop == runner \in {"turn", "generating"} /\ job.id = shown

\* It can still be stopped: it is running, or about to.
InTime ==
    \/ InLoop
    \/ runner = "claim" /\ job.id = shown
    \/ request.id = shown

\* stopTurn
PressStop ==
    /\ At("main", "free")
    /\ running
    /\ count["stop"] < MaxStops
    /\ cancel' = TRUE
    /\ Bump("stop")
    /\ asked' = IF InTime THEN asked \cup {shown} ELSE asked
    /\ heard' = IF InLoop THEN heard \cup {shown} ELSE heard
    /\ UNCHANGED <<request, part, response, events, service, app, dispatched,
                   stopped>>

\* handleAgentEvent: memory_write and turn_end refresh a list with a call on
\* the main thread; turn_end also gives the send button back.
HandleEvent ==
    /\ At("main", "free")
    /\ events # <<>>
    /\ events' = Tail(events)
    /\ running' = (running /\ Head(events) # "turn_end")
    /\ IF Head(events) = "error"
       THEN UNCHANGED <<thread, response, count>>
       ELSE StartCall("main") /\ Bump("request")
    /\ UNCHANGED <<request, part, cancel, service, opened, shown, history>>

\* A button that runs a query on the worker thread.
WorkerCall ==
    /\ At("worker", "free")
    /\ CalmNow
    /\ Calm => ~running
    /\ count["query"] < MaxQueries
    /\ StartCall("worker")
    /\ count' = [count EXCEPT !["query"] = @ + 1, !["request"] = @ + 1]
    /\ UNCHANGED <<request, part, cancel, events, service, opened, running, shown,
                   history>>

\* kill -9, or the system reclaims the memory.
Kill ==
    /\ runner # "down"
    /\ count["kill"] < MaxKills
    /\ Bump("kill")
    /\ runner' = "down"
    /\ job' = NoFile
    /\ steps' = 0
    /\ UNCHANGED <<files, app, history>>

\* The app is closed (onDestroy stops a running turn, unless the process is
\* killed) and started again: prepareRuntime asks for a runner and start_runner
\* brings up a new one unless there is one.  The poller starts at the end of
\* the log.
Restart ==
    /\ Restarts
    /\ thread' = [t \in Threads |-> Free]
    /\ opened' = [t \in Threads |-> "none"]
    /\ running' = FALSE
    /\ shown' = 0
    /\ events' = <<>>
    /\ \E destroyed \in BOOLEAN :
          LET stop == destroyed /\ running /\ count["stop"] < MaxStops IN
          /\ cancel' = (runner # "down" /\ (cancel \/ stop))
          /\ count' = [count EXCEPT !["stop"] = IF stop THEN @ + 1 ELSE @]
    /\ IF runner = "down"
       THEN /\ runner' = "look"
            /\ request' = NoFile
       ELSE UNCHANGED <<runner, request>>
    /\ UNCHANGED <<part, response, job, steps, history>>

-----------------------------------------------------------------------------
Init ==
    /\ request = NoFile
    /\ part = NoFile
    /\ response = NoResponse
    /\ cancel = FALSE
    /\ events = <<>>
    /\ runner = "look"
    /\ job = NoFile
    /\ steps = 0
    /\ thread = [t \in Threads |-> Free]
    /\ opened = [t \in Threads |-> "none"]
    /\ running = FALSE
    /\ shown = 0
    /\ count = [what \in {"request", "turn", "fact", "query", "stop", "kill"} |-> 0]
    /\ dispatched = {}
    /\ stopped = {}
    /\ asked = {}
    /\ heard = {}

Next ==
    \/ Runner
    \/ \E t \in Threads : Client(t)
    \/ SendTurn
    \/ PressStop
    \/ HandleEvent
    \/ WorkerCall
    \/ Kill
    \/ Restart

Spec == Init /\ [][Next]_vars

\* The runner's loop and the app's threads keep going; the user is free.  A
\* turn is bounded (max_steps, max_tokens_per_step) and a call has a deadline.
Fairness ==
    /\ WF_vars(Runner)
    /\ \A t \in Threads : WF_vars(Client(t))
    /\ WF_vars(HandleEvent)

FairSpec == Spec /\ Fairness

-----------------------------------------------------------------------------
(* What must hold. *)

\* "Remove the previous answer first" (AgentClient.java:83): a call never
\* returns a document that was published before it began, whatever the other
\* thread and the runner do.
NoOldAnswer ==
    \A t \in Threads : At(t, "returned") => t \notin thread[t].answer.before

\* "Claim the request before parsing so a slow dispatch cannot process it
\* twice" (agent_service.cpp:163), across deaths and restarts.
DispatchedOnce ==
    [][runner = "claim" /\ runner' \in {"turn", "query"} => job.id \notin dispatched]_vars

\* One press of the stop button never stops two turns.
StopStopsOneTurn == Cardinality(stopped) <= count["stop"]

\* The send button comes back after every turn.
ButtonComesBack == running ~> ~running

\* "Sends a request and waits for the runner to publish response.json"
\* (AgentClient.java:78): the answer a call returns is the answer to its request.
AnswersMatch ==
    \A t \in Threads :
        At(t, "returned") => thread[t].answer.to = thread[t].req.id

\* "sentinel that stops the running turn" (gemma4_hybrid_runner.cpp:1591): once a
\* turn has been stopped while it runs, no further step of it begins, whoever
\* publishes, claims, closes or starts the app in between.
NoStepAfterStop ==
    [][runner = "turn" /\ runner' = "generating" => job.id \notin heard]_vars

\* A turn that is stopped while it runs does not end as an ordinary answer.
StopEndsTurn ==
    runner \in {"closing", "remembered"} /\ job.id \in heard => job.id \in stopped

\* The turn that stops is one the user asked to stop.
StopsOnlyAsked == stopped \subseteq asked

\* stopTurn tells the user that the current turn was asked to stop
\* (MainActivity.java:821): no further step begins in a turn that was shown as
\* running and not answered yet.
ShownTurnStops ==
    [][runner = "turn" /\ runner' = "generating" => job.id \notin asked]_vars

\* writeAtomic (AgentClient.java:223): the runner never works on a request that is
\* only half written, or that two threads have written.
WholeRequests == runner \in {"claim", "turn", "query"} => job.text = "whole"

-----------------------------------------------------------------------------
(* The inductive invariant behind DispatchedOnce and NoStepAfterStop.        *)

\* Identities that were given out.
Known == 0 .. count["request"]

Active(t) == ~At(t, "free")

\* Thread t has not touched request.json.part yet.
Unwritten(t) == At(t, "clear") \/ At(t, "open")

IdentitiesKnown ==
    /\ request.id \in Known /\ part.id \in Known
    /\ job.id \in Known /\ shown \in Known
    /\ request # NoFile => request.id # 0
    /\ part # NoFile => part.id # 0
    /\ dispatched \subseteq Known \ {0}
    /\ \A t \in Threads : Active(t) => thread[t].req.id \in Known \ {0}
    /\ runner \in {"claim", "turn", "generating"} => job.id # 0

\* A request is in one place: a thread that has not written it, the temporary
\* file, or request.json; what was dispatched is in none of them.
OnePlace ==
    /\ part.id # 0 => part.id \notin {request.id, job.id} \cup dispatched
    /\ request.id \notin dispatched
    /\ runner = "claim" => job.id \notin dispatched
    /\ \A t \in Threads :
          /\ Unwritten(t) =>
                thread[t].req.id \notin {request.id, part.id, job.id} \cup dispatched
          /\ \A u \in Threads \ {t} :
                Active(t) /\ Active(u) => thread[u].req.id # thread[t].req.id

\* A thread that has a file open is about to write it, and its request is in no
\* other place: what it brings to the file was not dispatched before.
OpenFiles ==
    \A t \in Threads :
        /\ opened[t] # "none" => At(t, "fill") /\ thread[t].req.id \notin dispatched
        /\ opened[t] = "part" =>
              part # NoFile /\ thread[t].req.id \notin {request.id, job.id}
        /\ opened[t] = "request" => request # NoFile /\ thread[t].req.id # part.id

\* The sentinel of a stop that was heard stays while the turn is in its loop.
HeardStops ==
    /\ heard \subseteq dispatched
    /\ runner \in {"turn", "generating"} => job.id \in dispatched
    /\ runner \in {"turn", "generating"} /\ job.id \in heard => cancel

ProtocolInv ==
    /\ TypeOK
    /\ IdentitiesKnown
    /\ OnePlace
    /\ OpenFiles
    /\ HeardStops
================================================================================
