------------------------------ MODULE Conversation ------------------------------
(***************************************************************************)
(* The turns of one session on one driver: TurnLoop and LlmDriver together.*)
(* The prompt is rendered from the system prompt and the transcript of the *)
(* earlier turns (render_history), the older pictures are replaced by      *)
(* notes, old turns are folded into a summary by a generation of its own   *)
(* (compact_history), and at the end of a turn the driver is told what its *)
(* KV cache holds as the transcript will render it.  The app may switch the *)
(* history off: then a prompt has the current turn alone.                  *)
(***************************************************************************)
EXTENDS TurnLoop

CONSTANTS
    MaxTurns,     \* bound on the turns
    MaxFolds,     \* bound on the compactions
    RecentTurns,  \* options_.config.recent_turns_min
    ReuseImages,  \* options_.config.reuse_history_images
    Failures      \* how a generation may fail, short of an exception

ASSUME ConversationAssumption ==
    /\ {MaxTurns, MaxFolds, RecentTurns} \subseteq Nat
    /\ ReuseImages \in BOOLEAN
    /\ Failures \subseteq {"mismatch", "splice"}

VARIABLES
    history,   \* the turns after summary_upto: their messages, and whether the
               \* first one still has its picture
    system,    \* last_prompt_had_tools_
    folds,     \* compactions so far; the summary in the prompt is the last one
    include,   \* options_.config.include_history
    kv, cached, engine, rewound

D == INSTANCE LlmDriver WITH Messages <- {}, Prompts <- {}, Replies <- {}, MaxHeld <- 0

session == <<history, system, folds, include>>
driver == <<kv, cached, engine, rewound>>
all == <<vars, session, driver>>

\* Messages no turn writes: the system prompts, the summary, and the prompts of
\* the generations that are not the conversation's.
Fixed(by, k) == [turn |-> 0, gen |-> k, by |-> by, raw |-> FALSE]

\* intent_needs_tools; a question about an image is a chat with one.
NeedsTools(i) ==
    i.kind \in {"value", "clock", "count", "remember"} \/ (i.kind = "chat" /\ i.image)

\* render_history, without the current turn: the system prompt, and where the
\* history is switched on the summary and the earlier turns.
Rendered(h, sys) ==
    LET first == <<Fixed(IF sys THEN "tools" ELSE "small", 0)>>
    IN IF ~include THEN first
       ELSE first \o (IF folds = 0 THEN <<>> ELSE <<Fixed("summary", folds)>>)
                  \o FlattenSeq([k \in 1 .. Len(h) |-> h[k].messages])
Prompt == Rendered(history, system) \o working
WrapPrompt == Prompt \o <<Fixed("forced", 0)>>

\* Mistake: the picture of an older turn is dropped from the prompt only.
KeepPictures(h) == h

\* A picture stays in the turn that carried it; later a note stands for it.
WithNotes(h) ==
    IF ReuseImages THEN h
    ELSE [k \in 1 .. Len(h) |->
            IF h[k].image
            THEN [messages |-> [h[k].messages EXCEPT ![1].by = "note"], image |-> FALSE]
            ELSE h[k]]

\* What rendering the history h makes of it; degraded_history_ says they differ.
Degraded(h) == IF include THEN WithNotes(h) ELSE h

\* compact_history(true) on the turns h: all but the last ones are summarised, in
\* a generation of its own that takes the KV cache.  An empty summary folds nothing.
Foldable(h) == Len(h) > RecentTurns
Compact(h) ==
    LET aux == <<Fixed("compress", 0), Fixed("transcript", folds)>>
    IN /\ folds < MaxFolds /\ Foldable(h)
       /\ \/ /\ D!Full(aux, <<Fixed("summary", folds + 1)>>, "ok")
             /\ folds' = folds + 1
             /\ history' = SubSeq(h, Len(h) - RecentTurns + 1, Len(h))
          \/ /\ D!Full(aux, <<>>, "ok")
             /\ folds' = folds
             /\ history' = h

ConversationInit ==
    /\ Init
    /\ history = <<>> /\ system = TRUE /\ folds = 0 /\ include \in BOOLEAN
    /\ D!DriverInit

\* A turn of this session begins; over the budget it compacts first.
BeginTurn ==
    \E i \in Intent :
        /\ turn < MaxTurns
        /\ system' = NeedsTools(i)
        /\ include' = include
        /\ \/ /\ history' = Degraded(history)
              /\ UNCHANGED <<folds, driver>>
              /\ BeginWith(turn + 1, i, system' # system \/ history' # history)
           \/ /\ Compact(Degraded(history))
              /\ BeginWith(turn + 1, i, TRUE)

\* A config request switches the history off or on between two turns: the shape of
\* the prompt changes.
SwitchHistory ==
    /\ pc = "idle"
    /\ include' = ~include
    /\ needsFull' = TRUE
    /\ UNCHANGED <<turn, pc, intent, steps, calls, gens, retried, output, messages, working,
                   reply, tool, stop, pressed, history, system, folds, driver>>

\* What the driver answers with, and how: only a turn with a picture has one to
\* splice, and that failure is found after the text was generated.
Answers(kind, text) ==
    CASE kind = "failed" ->
             (IF "mismatch" \in Failures THEN {<<<<>>, "mismatch">>} ELSE {})
             \cup (IF "splice" \in Failures /\ intent.image
                   THEN {<<<<text>>, "splice">>} ELSE {})
      [] kind = "empty" -> {<<<<>>, "ok">>}
      [] OTHER -> {<<<<text>>, "ok">>}

\* A step of the turn; `full` as run_turn decides it.
GenerateStep ==
    \E kind \in OutputKinds, raw \in BOOLEAN :
        /\ Generate(kind, raw)
        /\ \E a \in Answers(kind, output'.text) :
              IF needsFull THEN D!Full(Prompt, a[1], a[2]) ELSE D!Delta(Prompt, a[1], a[2])
        /\ UNCHANGED session

WrapUpStep ==
    \E kind \in {"empty", "debris", "text"}, raw \in BOOLEAN :
        /\ WrapUp(kind, raw)
        /\ \E a \in Answers(kind, output'.text)
                        \cup (IF kind = "empty" THEN Answers("failed", output'.text) ELSE {}) :
              D!Delta(WrapPrompt, a[1], a[2])
        /\ UNCHANGED session

\* describe_image_directly: the picture alone, on an engine created anew.
DescribePrompt == <<Fixed("describe", 0)>>
DescribeStep ==
    /\ \/ Describe /\ D!Full(DescribePrompt, <<Written("described")>>, "ok")
       \/ Accept(TRUE) /\ \E a \in Answers("empty", NoText) \cup Answers("failed", NoText) :
                             a[2] # "mismatch" /\ D!Full(DescribePrompt, a[1], a[2])
    /\ UNCHANGED session

\* Mistake: the compaction at the end of a turn keeps the KV cache.
CloseQuietly ==
    LET h == Append(history, [messages |-> messages, image |-> intent.image])
    IN \/ /\ CloseWith(FALSE)
          /\ history' = h
          /\ IF Reanchors THEN D!Sync(Prompt \o <<reply.text>>) ELSE UNCHANGED driver
          /\ UNCHANGED <<system, folds, include>>
       \/ /\ CloseWith(FALSE)
          /\ Compact(h)
          /\ UNCHANGED <<system, include>>

\* The end of a turn: the anchor, append_turn, and a compaction when the history
\* is over its budget.
CloseTurn ==
    LET h == Append(history, [messages |-> messages, image |-> intent.image])
    IN \/ /\ CloseWith(FALSE)
          /\ history' = h
          /\ IF Reanchors THEN D!Sync(Prompt \o <<reply.text>>) ELSE UNCHANGED driver
          /\ UNCHANGED <<system, folds, include>>
       \/ /\ CloseWith(TRUE)
          /\ Compact(h)
          /\ UNCHANGED <<system, include>>

\* The other steps do not concern the driver or the session.
Quiet ==
    /\ \/ PressStop
       \/ Cancelled \/ OutOfSteps \/ GenerationFailed
       \/ NudgeEmpty \/ NudgeBroken \/ NudgeCall
       \/ \E ok \in BOOLEAN : RunTool(ok)
       \/ UnknownTool \/ Draft \/ Native
       \/ AskLanguage \/ AskGreeting \/ AskImage
       \/ Accept(FALSE) \/ NoWrapUp
       \/ ShowValue \/ ShowAnswer \/ ShowFallback \/ Complete \/ Keep
    /\ UNCHANGED <<session, driver>>

ConversationNext ==
    BeginTurn \/ SwitchHistory \/ GenerateStep \/ WrapUpStep \/ DescribeStep \/ CloseTurn \/ Quiet

ConversationSpec == ConversationInit /\ [][ConversationNext]_all

-----------------------------------------------------------------------------
(* Properties.                                                               *)

\* Two transcripts with the same messages, but for what the assistant says: the
\* runtime keeps a cleaned copy of the model's text, or its own sentence.
Agree(s, t) ==
    /\ Len(s) = Len(t)
    /\ \A k \in 1 .. Len(s) : s[k] = t[k] \/ (IsAssistant(s[k]) /\ IsAssistant(t[k]))

\* What the driver believes of the KV cache is true whenever it is about to prefill
\* no more than a suffix: every message of the conversation before that suffix is
\* in the KV cache.
KvHonest ==
    pc = "loop" /\ ~needsFull /\ D!Covers(Prompt) /\ engine # <<>> => Agree(kv, cached)

\* With the history switched on, the next prompt extends the anchor whenever the
\* runtime does not ask for a full prefill: no turn is prefilled again from the start
\* because its transcript and its anchor differ.
Anchored ==
    pc = "idle" /\ include /\ ~needsFull /\ Degraded(history) = history =>
        D!Extends(cached, Rendered(history, system))

\* The same whether the history is switched on or off.
AlwaysAnchored ==
    pc = "idle" /\ ~needsFull /\ Degraded(history) = history =>
        D!Extends(cached, Rendered(history, system))

-----------------------------------------------------------------------------
(* Why they hold.                                                            *)

\* What prompts are made of: the texts of the turns, a note in a picture's place
\* and the fixed messages.
Message == [turn : Nat, gen : Nat,
            by : Authors \cup {"nobody", "note", "tools", "small", "summary", "forced",
                               "compress", "transcript", "describe"},
            raw : BOOLEAN]
Past == [messages : Seq(Message), image : BOOLEAN]

\* The values of the variables this module adds.
ConversationTypeOK ==
    /\ history \in Seq(Past) /\ system \in BOOLEAN /\ folds \in Nat /\ include \in BOOLEAN
    /\ kv \in Seq(Message) /\ cached \in Seq(Message) /\ engine \in Seq(Message)

InLoop == pc \in {"loop", "output", "draft"}
AfterLoop == pc \in {"wrap", "show", "note", "close"}

\* The intent is one the users' messages have, the output the model's; an answer
\* taken word for word is anchored, unless it is the wrap-up's.
Regular ==
    /\ pc # "idle" => intent.kind \in Kinds /\ working # <<>>
    /\ pc \in {"output", "draft"} => output.text.by = "model"
    /\ pc = "draft" /\ reply.replaced => reply.text.by = "native"
    /\ reply.generated /\ reply.verbatim => reply.matches \/ (AfterLoop /\ needsFull)

\* The next prompt is prefilled from the start: the KV cache is given up, or a note
\* takes the place of this turn's picture.
Noted == intent.image /\ ~ReuseImages
GivenUp == needsFull \/ Noted \/ stop \in {"cancelled", "error"}

\* No answer was accepted, and the turn will give the KV cache up for the one it has.
Unmatched == ~reply.matches /\ ~reply.verbatim

\* The answer to be accepted: the model's own, or the runtime's.
OwnAnswer ==
    /\ ~reply.replaced
    /\ reply.text = NoText \/ (reply.text = Stored /\ output.kind \in {"text", "broken"})
NativeAnswer ==
    /\ reply.text.by = "native"
    /\ intent.kind = "recall" \/ (intent.kind = "clock" /\ ~intent.image)

-----------------------------------------------------------------------------
\* The driver is honest with itself: what it believes the KV cache holds is there.
Agreed == engine # <<>> => Agree(kv, cached)

\* A refused answer is kept in the loop only in a turn that gets no sentence of the
\* runtime's in the answer's place.
LoopHonest ==
    InLoop =>
        /\ ~needsFull => Agreed \/ (pc = "loop" /\ ~D!Covers(Prompt))
        /\ pc # "draft" =>
              \/ Noted
              \/ Unmatched /\ (reply.text = NoText
                                 \/ intent.kind \in {"chat", "greeting", "describe"})

\* The driver believes what the last generation was asked and made the model say.
Said == IF output.kind = "empty" THEN <<>> ELSE <<output.text>>
OutputHonest ==
    pc \in {"output", "draft"} =>
        /\ ~needsFull
        /\ output.kind # "failed" => engine = cached /\ cached = Prompt \o Said

DraftHonest ==
    pc = "draft" =>
        /\ output.kind # "failed"
        /\ Noted \/ (OwnAnswer /\ Unmatched) \/ (reply.replaced /\ NativeAnswer)

\* An answer the KV cache is given up for, and one it can be kept for: that one only
\* stands for what the model said.
LostAnswer ==
    /\ Unmatched /\ reply.text # NoText
    /\ intent.kind \in {"chat", "greeting", "describe"} \/ NativeAnswer
HonestAnswer ==
    /\ reply.matches /\ reply.text # NoText /\ IsAssistant(reply.text)
    /\ engine = cached /\ Agree(kv, cached)
    /\ output.text.by = "model" /\ cached = Append(Prompt, output.text)
EndHonest ==
    AfterLoop => \/ GivenUp \/ (pc = "wrap" /\ reply.text = NoText)
                 \/ LostAnswer \/ HonestAnswer

\* Without the history no prompt begins with what a turn left in the KV cache: the
\* next one is two messages long.
TooLong == ~include /\ Len(cached) > 2

IdleHonest ==
    pc = "idle" =>
        reply = NoReply /\ (needsFull \/ Degraded(history) # history \/ TooLong \/ Agreed)

\* The inductive invariant of KvHonest.
HonestInv == LoopHonest /\ OutputHonest /\ DraftHonest /\ EndHonest /\ IdleHonest

-----------------------------------------------------------------------------
\* The prompt of the turn ends with a message the model is to answer.
Asked == working # <<>> /\ ~IsAssistant(Last(working))

\* The prompt has the transcript of the turn, until the answer.
LoopAnchored ==
    InLoop =>
        /\ Asked
        /\ \/ Noted
           \/ working = messages /\ Unmatched
           \/ pc = "draft" /\ reply.replaced /\ NativeAnswer

DraftAnchored == pc = "draft" => Noted \/ OwnAnswer \/ (reply.replaced /\ NativeAnswer)

\* The answer follows the prompt in the transcript, or the KV cache is given up.
EndAnchored ==
    AfterLoop =>
        /\ Asked
        /\ \/ GivenUp \/ (pc = "wrap" /\ reply.text = NoText)
           \/ Unmatched /\ reply.text # NoText /\ (messages = working \/ NativeAnswer)
           \/ /\ reply.matches /\ reply.text # NoText /\ IsAssistant(reply.text)
              /\ messages = Append(working, reply.text)

IdleAnchored ==
    pc = "idle" =>
        /\ reply = NoReply
        /\ \/ needsFull \/ Degraded(history) # history \/ ~include
           \/ D!Extends(cached, Rendered(history, system))

\* The inductive invariant of Anchored.
AnchorInv == LoopAnchored /\ DraftAnchored /\ EndAnchored /\ IdleAnchored

\* Both, with the types and the driver's own invariant.
ConversationInv ==
    /\ ConversationTypeOK /\ Regular
    /\ HonestInv /\ AnchorInv
    /\ D!InStep /\ D!NeverRewinds

================================================================================
