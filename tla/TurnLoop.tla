-------------------------------- MODULE TurnLoop --------------------------------
(***************************************************************************)
(* One user turn of the agent: AgentRuntime::run_turn, from the routing of *)
(* the message to turn_end.  The model is asked for a step, its output is  *)
(* nudged, run as a tool call or taken for the answer, until there is an   *)
(* answer, a budget is used up or the user stops the turn; then a wrap-up  *)
(* generation, and the sentences the runtime answers with in the model's   *)
(* place.                                                                  *)
(*                                                                         *)
(* A text is the generation it belongs to and who wrote it; what the model *)
(* writes and what the predicates on its text (a refusal, another language,*)
(* a missing number) say is a choice.  The context budget, the planner and *)
(* the memory are other parts.                                             *)
(***************************************************************************)
EXTENDS Integers, Sequences, SequencesExt

CONSTANTS
    MaxSteps,       \* options_.config.max_steps
    MaxToolCalls,   \* options_.config.max_tool_calls
    MemoryEnabled,  \* options_.config.memory_enabled
    Turns,          \* the indices a turn may have
    Kinds,          \* the intents the users' messages have
    Refusals        \* what the model's answers are refused for

AllKinds == {"chat", "greeting", "recall", "describe", "value", "clock", "count", "remember"}

\* With a max_tool_calls of 0 the loop would still run one call.
ASSUME TurnAssumption ==
    /\ MaxSteps \in Nat /\ MaxToolCalls \in Nat \ {0}
    /\ MemoryEnabled \in BOOLEAN
    /\ Turns \subseteq Nat
    /\ Kinds \subseteq AllKinds
    /\ Refusals \subseteq {"language", "greeting", "image"}

VARIABLES
    turn,       \* turn.index
    pc,         \* where run_turn is
    intent,     \* what the router decided
    steps,      \* step_index
    calls,      \* tool_calls
    gens,       \* generations asked for in this turn
    retried,    \* the nudges that were used
    output,     \* what the model wrote last
    messages,   \* turn.messages
    working,    \* the messages of this turn in the prompt
    reply,      \* the answer and what is known of it
    tool,       \* did a tool return a value; did the last one?
    stop,       \* stop_reason
    pressed,    \* gens when the user pressed stop, or Unpressed
    needsFull   \* needs_full_prefill_

vars == <<turn, pc, intent, steps, calls, gens, retried, output, messages, working,
          reply, tool, stop, pressed, needsFull>>

Assistants == {"model", "native", "described", "value", "fallback", "count", "ack"}
Authors == {"user", "nudge", "tool"} \cup Assistants
Text == [turn : Nat, gen : Nat, by : Authors, raw : BOOLEAN]
NoText == [turn |-> 0, gen |-> 0, by |-> "nobody", raw |-> FALSE]
Unpressed == -1

\* Role user: the message, the nudges, the observations.  The rest is assistant.
IsAssistant(m) == m.by \in Assistants

Written(by) == [turn |-> turn, gen |-> gens, by |-> by, raw |-> FALSE]

\* `kind` is the policy's; a greeting never has an image, a description always.
\* Some conversions come without a call the runtime can spell out.
Intent == {i \in [kind : Kinds, image : BOOLEAN, hinted : BOOLEAN] :
              /\ i.kind = "greeting" => ~i.image
              /\ i.kind = "describe" => i.image
              /\ i.kind \in {"clock", "count"} => i.hinted
              /\ i.hinted => i.kind \in {"value", "clock", "count"}}
AllowTools == intent.kind \notin {"greeting", "recall", "describe"}

\* A call is valid and names a known tool, or an unknown one; broken is
\* tool-shaped; debris is punctuation.
OutputKinds == {"failed", "empty", "broken", "debris", "text", "call", "unknown"}
IsCall == output.kind \in {"call", "unknown"}

NotRetried == [empty |-> FALSE, broken |-> FALSE, refusal |-> FALSE,
               greeting |-> FALSE, language |-> 0]
NoReply == [text |-> NoText, replaced |-> FALSE, generated |-> FALSE,
            verbatim |-> FALSE, matches |-> FALSE]
NoOutput == [kind |-> "empty", text |-> NoText]

NoIntent == [kind |-> "chat", image |-> FALSE, hinted |-> FALSE]
NoTool == [answered |-> FALSE, ok |-> FALSE]

Init ==
    /\ turn = 0
    /\ pc = "idle"
    /\ intent = NoIntent
    /\ steps = 0 /\ calls = 0 /\ gens = 0
    /\ retried = NotRetried
    /\ output = NoOutput
    /\ messages = <<>> /\ working = <<>>
    /\ reply = NoReply
    /\ tool = NoTool
    /\ stop = ""
    /\ pressed = Unpressed
    /\ needsFull = TRUE

-----------------------------------------------------------------------------
(* The transcript of the turn.                                               *)

Push(m) == messages' = Append(messages, m)

\* Mistake: the text is always added.
AddAssistant(ms, m) == Append(ms, m)

\* replace_last_assistant
ReplaceLast(ms, m) ==
    IF ms # <<>> /\ IsAssistant(Last(ms)) THEN Append(Front(ms), m) ELSE Append(ms, m)

\* Ask the model once more, with a nudge in the prompt and in the transcript.
Nudge ==
    /\ Push(Written("nudge"))
    /\ working' = Append(working, Written("nudge"))
    /\ pc' = "loop"

-----------------------------------------------------------------------------
(* A turn begins.  `full` says that its prompt does not extend the last one: *)
(* another session, another system prompt, a rewritten history.              *)

BeginWith(n, i, full) ==
    /\ pc = "idle"
    /\ turn' = n
    /\ intent' = i
    /\ messages' = <<[turn |-> n, gen |-> 0, by |-> "user", raw |-> FALSE]>>
    /\ working' = messages'
    /\ needsFull' = (needsFull \/ full)
    /\ pc' = "loop"
    /\ UNCHANGED <<steps, calls, gens, retried, output, reply, tool, stop, pressed>>

Begin == \E n \in Turns, i \in Intent, full \in BOOLEAN : BeginWith(n, i, full)

\* The user presses stop; the loop and the token callback look at the sentinel.
PressStop ==
    /\ pc # "idle"
    /\ pressed = Unpressed
    /\ pressed' = gens
    /\ UNCHANGED <<turn, pc, intent, steps, calls, gens, retried, output, messages, working,
                   reply, tool, stop, needsFull>>

\* The loop looks at the sentinel before every step.
Cancelled ==
    /\ pc = "loop"
    /\ steps < MaxSteps
    /\ pressed # Unpressed
    /\ stop' = "cancelled"
    /\ pc' = "wrap"
    /\ UNCHANGED <<turn, intent, steps, calls, gens, retried, output, messages, working, reply,
                   tool, pressed, needsFull>>

OutOfSteps ==
    /\ pc = "loop"
    /\ steps >= MaxSteps
    /\ pc' = "wrap"
    /\ UNCHANGED <<turn, intent, steps, calls, gens, retried, output, messages, working, reply,
                   tool, stop, pressed, needsFull>>

\* Mistake: the sentinel is not looked at between two steps.
GenerateAnyway(kind, raw) ==
    /\ pc = "loop"
    /\ steps < MaxSteps
    /\ steps' = steps + 1 /\ gens' = gens + 1
    /\ output' = [kind |-> kind,
                  text |-> [turn |-> turn, gen |-> gens + 1, by |-> "model", raw |-> raw]]
    /\ needsFull' = FALSE
    /\ pc' = "output"
    /\ UNCHANGED <<turn, intent, calls, retried, messages, working, reply, tool, stop, pressed>>

\* One step: generate_full or generate_delta with `working`.  `raw` says whether
\* the transcript would keep the text as it is, or a cleaned copy.
Generate(kind, raw) ==
    /\ pc = "loop"
    /\ steps < MaxSteps
    /\ pressed = Unpressed
    /\ steps' = steps + 1 /\ gens' = gens + 1
    /\ output' = [kind |-> kind,
                  text |-> [turn |-> turn, gen |-> gens + 1, by |-> "model", raw |-> raw]]
    /\ needsFull' = FALSE
    /\ pc' = "output"
    /\ UNCHANGED <<turn, intent, calls, retried, messages, working, reply, tool, stop, pressed>>

-----------------------------------------------------------------------------
(* What the output is taken for, in the order of the code.                   *)

GenerationFailed ==
    /\ pc = "output"
    /\ output.kind = "failed"
    /\ stop' = "error"
    /\ pc' = "wrap"
    /\ UNCHANGED <<turn, intent, steps, calls, gens, retried, output, messages, working, reply,
                   tool, pressed, needsFull>>

CanNudgeEmpty == output.kind = "empty" /\ ~retried.empty /\ steps < MaxSteps
CanNudgeBroken == output.kind = "broken" /\ ~retried.broken /\ steps < MaxSteps
CanNudgeCall == ~AllowTools /\ IsCall /\ ~retried.broken

NudgeEmpty ==
    /\ pc = "output"
    /\ CanNudgeEmpty
    /\ retried' = [retried EXCEPT !.empty = TRUE]
    /\ Nudge
    /\ UNCHANGED <<turn, intent, steps, calls, gens, output, reply, tool, stop, pressed,
                   needsFull>>

NudgeBroken ==
    /\ pc = "output"
    /\ CanNudgeBroken
    /\ retried' = [retried EXCEPT !.broken = TRUE]
    /\ Nudge
    /\ UNCHANGED <<turn, intent, steps, calls, gens, output, reply, tool, stop, pressed,
                   needsFull>>

\* The router expects no tool: "ask once for text instead of running it".
NudgeCall ==
    /\ pc = "output"
    /\ CanNudgeCall
    /\ retried' = [retried EXCEPT !.broken = TRUE]
    /\ Nudge
    /\ UNCHANGED <<turn, intent, steps, calls, gens, output, reply, tool, stop, pressed,
                   needsFull>>

\* The runtime runs the call it spelled out when the model wrote none.
Rescued == intent.hinted /\ calls = 0 /\ ~IsCall

\* Mistake: the nudge for a text turn is forgotten.
TakenUnasked ==
    /\ pc = "output"
    /\ output.kind # "failed" /\ ~CanNudgeEmpty /\ ~CanNudgeBroken

\* No nudge: the output is used.
Taken ==
    /\ pc = "output"
    /\ output.kind # "failed" /\ ~CanNudgeEmpty /\ ~CanNudgeBroken /\ ~CanNudgeCall

\* The stored call: strip_thinking's copy of what the model wrote.
Stored == [output.text EXCEPT !.raw = FALSE]

Exchange ==
    /\ messages' = messages \o <<Stored, Written("tool")>>
    /\ working' = messages'

\* Mistake: the budget is looked at before the call is counted.
RunToolLate(ok) ==
    /\ Taken
    /\ output.kind = "call" \/ Rescued
    /\ Exchange
    /\ calls' = calls + 1
    /\ tool' = [answered |-> tool.answered \/ ok, ok |-> ok]
    /\ IF calls <= MaxToolCalls /\ steps < MaxSteps
       THEN pc' = "loop" /\ UNCHANGED stop
       ELSE pc' = "wrap" /\ stop' = IF calls > MaxToolCalls THEN "tool_budget"
                                                           ELSE "step_budget"
    /\ UNCHANGED <<turn, intent, steps, gens, retried, output, reply, pressed, needsFull>>

\* A tool runs; the loop ends when the calls or the steps are used up.
RunTool(ok) ==
    /\ Taken
    /\ output.kind = "call" \/ Rescued
    /\ Exchange
    /\ calls' = calls + 1
    /\ tool' = [answered |-> tool.answered \/ ok, ok |-> ok]
    /\ IF calls' < MaxToolCalls /\ steps < MaxSteps
       THEN pc' = "loop" /\ UNCHANGED stop
       ELSE pc' = "wrap" /\ stop' = IF calls' >= MaxToolCalls THEN "tool_budget"
                                                             ELSE "step_budget"
    /\ UNCHANGED <<turn, intent, steps, gens, retried, output, reply, pressed, needsFull>>

\* The failure is an observation; it is not counted as a call.
UnknownTool ==
    /\ Taken
    /\ output.kind = "unknown"
    /\ Exchange
    /\ pc' = "loop"
    /\ UNCHANGED <<turn, intent, steps, calls, gens, retried, output, reply, tool, stop,
                   pressed, needsFull>>

-----------------------------------------------------------------------------
(* The output is the answer, unless it is refused.                           *)

\* The cleaned output; a tool-shaped one may leave nothing.
Cleaned == CASE output.kind = "text" -> {Stored}
             [] output.kind = "broken" -> {Stored, NoText}
             [] OTHER -> {NoText}

Drafting ==
    /\ Taken
    /\ ~IsCall /\ ~Rescued
    /\ pc' = "draft"

Draft ==
    /\ Drafting
    /\ \E text \in Cleaned :
          reply' = [reply EXCEPT !.text = text, !.replaced = FALSE]
    /\ UNCHANGED <<turn, intent, steps, calls, gens, retried, output, messages, working, tool,
                   stop, pressed, needsFull>>

\* The clock was read and the model denies it; the memory was recalled and the
\* model says nothing of it: the runtime answers, and stores its answer.
Native ==
    /\ Drafting
    /\ \/ intent.kind = "clock" /\ ~intent.image /\ tool.answered
          /\ \E text \in Cleaned : text # NoText
       \/ intent.kind = "recall"
    /\ messages' = ReplaceLast(messages, Written("native"))
    /\ reply' = [text |-> Written("native"), replaced |-> TRUE, generated |-> TRUE,
                 verbatim |-> TRUE, matches |-> TRUE]
    /\ UNCHANGED <<turn, intent, steps, calls, gens, retried, output, working, tool,
                   stop, pressed, needsFull>>

AskLanguage ==
    /\ pc = "draft"
    /\ "language" \in Refusals
    /\ reply.text # NoText /\ retried.language < 2 /\ steps < MaxSteps
    /\ ~(intent.kind = "clock" /\ reply.replaced)   \* that answer is in Chinese
    /\ retried' = [retried EXCEPT !.language = @ + 1]
    /\ Nudge
    /\ UNCHANGED <<turn, intent, steps, calls, gens, output, reply, tool, stop, pressed,
                   needsFull>>

\* A greeting answered about an image nobody sent: no guard on the steps.
AskGreeting ==
    /\ pc = "draft"
    /\ "greeting" \in Refusals
    /\ reply.text # NoText
    /\ intent.kind = "greeting" /\ ~retried.greeting
    /\ retried' = [retried EXCEPT !.greeting = TRUE]
    /\ Nudge
    /\ UNCHANGED <<turn, intent, steps, calls, gens, output, reply, tool, stop, pressed,
                   needsFull>>

\* looks_like_unusable_image_answer
ImageRefused == "image" \in Refusals /\ intent.image /\ reply.text # NoText
CanAskImage == ImageRefused /\ ~retried.refusal /\ steps < MaxSteps

AskImage ==
    /\ pc = "draft"
    /\ CanAskImage
    /\ retried' = [retried EXCEPT !.refusal = TRUE]
    /\ Nudge
    /\ UNCHANGED <<turn, intent, steps, calls, gens, output, reply, tool, stop, pressed,
                   needsFull>>

\* The model still refuses the image: a generation of its own describes it.
Describe ==
    /\ pc = "draft"
    /\ ImageRefused /\ ~CanAskImage
    /\ gens' = gens + 1
    /\ messages' = ReplaceLast(messages, Written("described"))
    /\ reply' = [text |-> Written("described"), replaced |-> TRUE, generated |-> TRUE,
                 verbatim |-> TRUE, matches |-> TRUE]
    /\ stop' = "answer"
    /\ pc' = "wrap"
    /\ UNCHANGED <<turn, intent, steps, calls, retried, output, working, tool, pressed,
                   needsFull>>

\* What the model wrote, to compare with the answer.
Trimmed == IF output.kind = "empty" THEN NoText ELSE output.text

\* Mistake: the answer is shown and not stored.
AcceptUnstored(described) ==
    /\ pc = "draft"
    /\ described => ImageRefused /\ ~CanAskImage
    /\ gens' = IF described THEN gens + 1 ELSE gens
    /\ reply' = [reply EXCEPT !.generated = reply.text # NoText,
                              !.verbatim = reply.text = Trimmed,
                              !.matches = reply.text # NoText /\ ~reply.replaced]
    /\ stop' = "answer"
    /\ pc' = "wrap"
    /\ UNCHANGED <<turn, intent, steps, calls, retried, output, messages, working, tool,
                   pressed, needsFull>>

\* The answer is accepted and stored; `described` when the description was tried
\* first and came back empty.
Accept(described) ==
    /\ pc = "draft"
    /\ described => ImageRefused /\ ~CanAskImage
    /\ gens' = IF described THEN gens + 1 ELSE gens
    /\ reply' = [reply EXCEPT !.generated = reply.text # NoText,
                              !.verbatim = reply.text = Trimmed,
                              !.matches = reply.text # NoText /\ ~reply.replaced
                                          /\ output.kind # "empty"]
    /\ Push(IF reply.text = NoText THEN Stored ELSE reply.text)
    /\ stop' = "answer"
    /\ pc' = "wrap"
    /\ UNCHANGED <<turn, intent, steps, calls, retried, output, working, tool, pressed,
                   needsFull>>

-----------------------------------------------------------------------------
(* After the loop.                                                           *)

NoWrapUp ==
    /\ pc = "wrap"
    /\ reply.text # NoText \/ stop = "cancelled"
    /\ pc' = "show"
    /\ UNCHANGED <<turn, intent, steps, calls, gens, retried, output, messages, working, reply,
                   tool, stop, pressed, needsFull>>

\* The prompt of the wrap-up is not kept, so the KV is given up.
WrapUp(kind, raw) ==
    /\ pc = "wrap"
    /\ reply.text = NoText /\ stop # "cancelled"
    /\ gens' = gens + 1
    /\ needsFull' = TRUE
    /\ output' = [kind |-> kind,
                  text |-> [turn |-> turn, gen |-> gens + 1, by |-> "model", raw |-> raw]]
    /\ IF kind = "empty" THEN UNCHANGED messages ELSE Push(output'.text)
    /\ reply' = IF kind = "text"
                THEN [reply EXCEPT !.text = [output'.text EXCEPT !.raw = FALSE],
                                   !.generated = TRUE, !.verbatim = ~raw]
                ELSE reply
    /\ pc' = "show"
    /\ UNCHANGED <<turn, intent, steps, calls, retried, working, tool, stop, pressed>>

\* The runtime's sentence takes the answer's place, on the screen and in the
\* transcript.
ShowInstead(by) ==
    /\ messages' = ReplaceLast(messages, Written(by))
    /\ reply' = [reply EXCEPT !.text = Written(by), !.generated = TRUE,
                              !.verbatim = FALSE, !.matches = TRUE]

\* A calculated answer has to carry the number.
ShowValue ==
    /\ pc = "show"
    /\ reply.text # NoText /\ stop # "cancelled"
    /\ intent.kind \in {"value", "clock"} /\ tool.answered
    /\ reply.text.by # "native"
    /\ ShowInstead("value")
    /\ pc' = "note"
    /\ UNCHANGED <<turn, intent, steps, calls, gens, retried, output, working, tool, stop,
                   pressed, needsFull>>

ShowAnswer ==
    /\ pc = "show"
    /\ reply.text # NoText
    /\ pc' = "note"
    /\ UNCHANGED <<turn, intent, steps, calls, gens, retried, output, messages, working, reply,
                   tool, stop, pressed, needsFull>>

\* The tool already phrased the answer and the model went silent.
ToolAnswered == calls > 0 /\ tool.ok /\ intent.kind \in {"value", "clock", "count"}

ShowFallback ==
    /\ pc = "show"
    /\ reply.text = NoText
    /\ messages' = ReplaceLast(messages, Written("fallback"))
    /\ reply' = LET r == [reply EXCEPT !.text = Written("fallback")]
                IN IF ToolAnswered /\ stop # "cancelled"
                   THEN [r EXCEPT !.generated = TRUE, !.matches = TRUE] ELSE r
    /\ stop' = IF stop = "" THEN "fallback" ELSE stop
    /\ pc' = "note"
    /\ UNCHANGED <<turn, intent, steps, calls, gens, retried, output, working, tool, pressed,
                   needsFull>>

\* The count the answer lacks, the fact it does not acknowledge, and the note
\* that the memory is switched off.
CanCount == intent.kind = "count" /\ tool.answered
CanAcknowledge == intent.kind = "remember" /\ MemoryEnabled
MustNote == intent.kind = "remember" /\ ~MemoryEnabled

Complete ==
    /\ pc = "note"
    /\ stop # "cancelled"
    /\ CanCount \/ CanAcknowledge \/ MustNote
    /\ ShowInstead(IF CanCount THEN "count" ELSE "ack")
    /\ pc' = "close"
    /\ UNCHANGED <<turn, intent, steps, calls, gens, retried, output, working, tool, stop,
                   pressed, needsFull>>

Keep ==
    /\ pc = "note"
    /\ stop = "cancelled" \/ ~MustNote
    /\ pc' = "close"
    /\ UNCHANGED <<turn, intent, steps, calls, gens, retried, output, messages, working, reply,
                   tool, stop, pressed, needsFull>>

\* The KV state and the transcript differ.
Abandons ==
    \/ ~reply.generated
    \/ ~reply.verbatim /\ ~reply.matches
    \/ stop \in {"cancelled", "error"}

\* The driver is told what its KV state holds, as the transcript has it.
Reanchors == ~Abandons /\ reply.matches

\* The KV decision, append_turn and turn_end; the locals of run_turn are gone and
\* the service clears the sentinel.  `full`: the history is compacted after it.
CloseWith(full) ==
    /\ pc = "close"
    /\ needsFull' = (needsFull \/ Abandons \/ full)
    /\ pc' = "idle"
    /\ intent' = NoIntent
    /\ steps' = 0 /\ calls' = 0 /\ gens' = 0
    /\ retried' = NotRetried
    /\ output' = NoOutput
    /\ messages' = <<>> /\ working' = <<>>
    /\ reply' = NoReply
    /\ tool' = NoTool
    /\ stop' = ""
    /\ pressed' = Unpressed
    /\ UNCHANGED turn

Close == \E full \in BOOLEAN : CloseWith(full)

-----------------------------------------------------------------------------

Step ==
    \/ Cancelled \/ OutOfSteps
    \/ \E kind \in OutputKinds, raw \in BOOLEAN : Generate(kind, raw)
    \/ GenerationFailed
    \/ NudgeEmpty \/ NudgeBroken \/ NudgeCall
    \/ \E ok \in BOOLEAN : RunTool(ok)
    \/ UnknownTool
    \/ Draft \/ Native
    \/ AskLanguage \/ AskGreeting \/ AskImage
    \/ Describe
    \/ \E described \in BOOLEAN : Accept(described)
    \/ NoWrapUp
    \/ \E kind \in {"empty", "debris", "text"}, raw \in BOOLEAN : WrapUp(kind, raw)
    \/ ShowValue \/ ShowAnswer \/ ShowFallback
    \/ Complete \/ Keep
    \/ Close

Next == Begin \/ PressStop \/ Step

Spec == Init /\ [][Next]_vars

-----------------------------------------------------------------------------
(* Properties.                                                               *)

Places == {"idle", "loop", "output", "draft", "wrap", "show", "note", "close"}
Reasons == {"", "cancelled", "error", "answer", "tool_budget", "step_budget", "fallback"}
Policy == [kind : AllKinds, image : BOOLEAN, hinted : BOOLEAN]
Retries == [empty : BOOLEAN, broken : BOOLEAN, refusal : BOOLEAN, greeting : BOOLEAN,
            language : Nat]
Output == [kind : OutputKinds, text : Text \cup {NoText}]
Reply == [text : Text \cup {NoText}, replaced : BOOLEAN, generated : BOOLEAN,
          verbatim : BOOLEAN, matches : BOOLEAN]
Tool == [answered : BOOLEAN, ok : BOOLEAN]

\* The values of the variables.
TypeOK ==
    /\ turn \in Nat /\ steps \in Nat /\ calls \in Nat /\ gens \in Nat
    /\ pc \in Places /\ stop \in Reasons
    /\ intent \in Policy /\ retried \in Retries /\ reply \in Reply /\ tool \in Tool
    /\ output \in Output
    /\ pc \in {"output", "draft"} => output.text \in Text
    /\ messages \in Seq(Text) /\ working \in Seq(Text)
    /\ pressed \in Int
    /\ needsFull \in BOOLEAN

\* What the loop keeps: one generation per step, a call left as long as it goes
\* on, and after it at most one generation more, which an answer rules out.
Accounts ==
    /\ steps <= MaxSteps /\ calls <= MaxToolCalls
    /\ pc = "idle" => steps = 0 /\ gens = 0 /\ calls = 0 /\ pressed = Unpressed
    /\ pc \in {"loop", "output", "draft"} => gens = steps /\ calls < MaxToolCalls
    /\ pc = "wrap" => gens = steps \/ (gens = steps + 1 /\ reply.text # NoText)
    /\ pc \in {"show", "note", "close"} => gens <= steps + 1

\* The same from the press of the stop button on.
StopAccounts ==
    pressed # Unpressed =>
        /\ pc \in {"loop", "output", "draft"} => gens = pressed
        /\ pc = "wrap" => gens = pressed \/ (gens = pressed + 1 /\ reply.text # NoText)
        /\ pc \in {"show", "note", "close"} => gens <= pressed + 1

\* A call the runtime spells out is for an intent with tools.
Routing ==
    /\ intent.hinted => AllowTools
    /\ calls > 0 /\ ~AllowTools => retried.broken

\* The inductive invariant.
TurnInv == TypeOK /\ Accounts /\ StopAccounts /\ Routing

\* A turn keeps to its budgets whatever the model writes: no tool call beyond
\* max_tool_calls, and one generation beyond max_steps at most, whether the
\* wrap-up or the description of an image asks for it, never both
\* (run_turn's loop guard, the budget after a call, the guard of the wrap-up).
WithinBudgets == calls <= MaxToolCalls /\ gens <= MaxSteps + 1

\* A press of the stop button costs one more generation at most: the loop ends
\* before its next step, and only the wrap-up or the description may follow.
StopSoon == pressed # Unpressed => gens <= pressed + 1

\* On a turn the router wants answered in text, a tool runs only after the model
\* was nudged once; the two nudges share their flag.
ToolsAfterNudge ==
    calls > 0 /\ ~AllowTools => retried.broken

\* No answer of the model was refused.
Unrejected == retried.language = 0 /\ ~retried.greeting /\ ~retried.refusal

\* Shown and stored: the transcript ends with the answer on the screen, up to the
\* clean-up of a wrap-up's text.
Kept ==
    /\ messages # <<>>
    /\ [Last(messages) EXCEPT !.raw = FALSE] = [reply.text EXCEPT !.raw = FALSE]

\* A turn whose answers were not refused keeps in its transcript what the user is
\* shown, through every replacement of the model's sentence.
ShownIsStored == pc = "close" /\ Unrejected => Kept

\* "The transcript has to keep what the user is shown" (agent_runtime.cpp:79), of
\* every turn.
AlwaysStored == pc = "close" => Kept

\* "the nudge is not part of the transcript" (agent_runtime.cpp:1417).
NudgesStayOut == pc = "close" => \A k \in 1 .. Len(messages) : messages[k].by # "nudge"

\* "One turn is a normal alternating transcript" (agent_runtime.cpp:1257): without
\* nudges, no two messages of one role follow each other.
Alternates ==
    pc = "close" /\ retried = NotRetried =>
        \A k \in 1 .. Len(messages) - 1 : IsAssistant(messages[k]) # IsAssistant(messages[k + 1])

\* "the driver re-anchors the cache" (agent_runtime.cpp:1545): an answer of the
\* runtime's own does not cost the next turn a full prefill.
NativeAnchors ==
    pc = "close" /\ reply.text.by = "native" /\ stop = "answer" => Reanchors

\* "the loop ends after the current step" (gemma4_hybrid_runner.cpp:1471): no
\* generation starts after the stop.
NoneAfterStop == pressed # Unpressed => gens <= pressed

================================================================================
