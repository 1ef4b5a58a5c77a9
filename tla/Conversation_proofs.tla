--------------------------- MODULE Conversation_proofs ---------------------------
(***************************************************************************)
(* Proofs about TurnLoop and Conversation, for any budgets and any number  *)
(* of turns and compactions, whatever the model writes and whenever the    *)
(* user presses stop.  Of one turn: it keeps to its budgets, a stop costs  *)
(* one more generation at most, a turn the router wants answered in text   *)
(* runs a tool only after a nudge, and an answer that was not refused is   *)
(* stored as it is shown.  Of a session: all of that in each of its turns, *)
(* the engine is never made to rewind, what the driver believes of the KV  *)
(* cache is true when a suffix is prefilled, and the next prompt begins    *)
(* with what the driver was last told.                                     *)
(***************************************************************************)
EXTENDS Conversation, SequenceLemmas, TLAPS

-----------------------------------------------------------------------------
(* One turn.                                                                 *)

LEMMA WrittenText ==
    ASSUME turn \in Nat, gens \in Nat, NEW by \in Authors
    PROVE  Written(by) \in Text
  BY DEF Written, Text

LEMMA StoredText ==
    ASSUME output.text \in Text
    PROVE  Stored \in Text
  BY DEF Stored, Text

\* Replacing the last message keeps a sequence of texts one.
LEMMA ReplaceTyped ==
    ASSUME NEW ms \in Seq(Text), NEW m \in Text
    PROVE  ReplaceLast(ms, m) \in Seq(Text)
  <1>1. CASE ms # <<>>
    <2>1. Front(ms) \in Seq(Text)
      BY <1>1 DEF Front
    <2> QED
      BY <2>1 DEF ReplaceLast
  <1>2. CASE ms = <<>>
    BY <1>2 DEF ReplaceLast
  <1> QED
    BY <1>1, <1>2

LEMMA NoTextApart == NoText \notin Text
  BY DEF NoText, Text, Authors, Assistants

LEMMA WrittenNotNoText == \A by \in Authors : Written(by) # NoText
  BY DEF Written, NoText, Authors, Assistants

\* What the texts a step writes are, and the transcripts it makes.
LEMMA StepTexts ==
    ASSUME TypeOK
    PROVE  /\ \A by \in Authors : Written(by) \in Text
           /\ \A by \in Authors : ReplaceLast(messages, Written(by)) \in Seq(Text)
           /\ Append(messages, Written("nudge")) \in Seq(Text)
           /\ Append(working, Written("nudge")) \in Seq(Text)
           /\ pc \in {"output", "draft"} =>
                 Stored \in Text /\ messages \o <<Stored, Written("tool")>> \in Seq(Text)
  <1>1. turn \in Nat /\ gens \in Nat /\ messages \in Seq(Text) /\ working \in Seq(Text)
    BY DEF TypeOK
  <1>2. \A by \in Authors : Written(by) \in Text
    BY <1>1, WrittenText
  <1>3. \A by \in Authors : ReplaceLast(messages, Written(by)) \in Seq(Text)
    BY <1>1, <1>2, ReplaceTyped
  <1>4. Written("nudge") \in Text /\ Written("tool") \in Text
    BY <1>2 DEF Authors
  <1>5. /\ Append(messages, Written("nudge")) \in Seq(Text)
        /\ Append(working, Written("nudge")) \in Seq(Text)
    BY <1>1, <1>4
  <1>6. ASSUME pc \in {"output", "draft"}
        PROVE  Stored \in Text /\ messages \o <<Stored, Written("tool")>> \in Seq(Text)
    <2>1. Stored \in Text
      BY <1>6, StoredText DEF TypeOK
    <2> QED
      BY <1>1, <1>4, <2>1
  <1> QED
    BY <1>2, <1>3, <1>5, <1>6

LEMMA RetriesTyped ==
    ASSUME retried \in Retries
    PROVE  /\ [retried EXCEPT !.empty = TRUE] \in Retries
           /\ [retried EXCEPT !.broken = TRUE] \in Retries
           /\ [retried EXCEPT !.refusal = TRUE] \in Retries
           /\ [retried EXCEPT !.greeting = TRUE] \in Retries
           /\ [retried EXCEPT !.language = @ + 1] \in Retries
  <1>1. [retried EXCEPT !.empty = TRUE] \in Retries
    BY DEF Retries
  <1>2. [retried EXCEPT !.broken = TRUE] \in Retries
    BY DEF Retries
  <1>3. [retried EXCEPT !.refusal = TRUE] \in Retries
    BY DEF Retries
  <1>4. [retried EXCEPT !.greeting = TRUE] \in Retries
    BY DEF Retries
  <1>5. [retried EXCEPT !.language = @ + 1] \in Retries
    BY DEF Retries
  <1> QED
    BY <1>1, <1>2, <1>3, <1>4, <1>5

\* An answer in place of the last one.
LEMMA ReplyTyped ==
    ASSUME reply \in Reply, NEW t \in Text \cup {NoText},
           NEW r \in BOOLEAN, NEW g \in BOOLEAN, NEW v \in BOOLEAN, NEW m \in BOOLEAN
    PROVE  /\ [text |-> t, replaced |-> r, generated |-> g, verbatim |-> v, matches |-> m]
                  \in Reply
           /\ [reply EXCEPT !.text = t, !.replaced = r] \in Reply
           /\ [reply EXCEPT !.generated = g, !.verbatim = v, !.matches = m] \in Reply
           /\ [reply EXCEPT !.text = t] \in Reply
           /\ [reply EXCEPT !.text = t, !.generated = g, !.verbatim = v] \in Reply
           /\ [reply EXCEPT !.text = t, !.generated = g, !.matches = m] \in Reply
           /\ [reply EXCEPT !.text = t, !.generated = g, !.verbatim = v, !.matches = m]
                  \in Reply
  <1>1. [text |-> t, replaced |-> r, generated |-> g, verbatim |-> v, matches |-> m] \in Reply
    BY DEF Reply
  <1>2. [reply EXCEPT !.text = t, !.replaced = r] \in Reply
    BY DEF Reply
  <1>3. [reply EXCEPT !.generated = g, !.verbatim = v, !.matches = m] \in Reply
    BY DEF Reply
  <1>4. [reply EXCEPT !.text = t] \in Reply
    BY DEF Reply
  <1>5. [reply EXCEPT !.text = t, !.generated = g, !.verbatim = v] \in Reply
    BY DEF Reply
  <1>6. [reply EXCEPT !.text = t, !.generated = g, !.matches = m] \in Reply
    BY DEF Reply
  <1>7. [reply EXCEPT !.text = t, !.generated = g, !.verbatim = v, !.matches = m] \in Reply
    BY DEF Reply
  <1> QED
    BY <1>1, <1>2, <1>3, <1>4, <1>5, <1>6, <1>7

LEMMA AcceptTyped ==
    ASSUME reply \in Reply
    PROVE  [reply EXCEPT !.generated = reply.text # NoText,
                         !.verbatim = reply.text = Trimmed,
                         !.matches = reply.text # NoText /\ ~reply.replaced
                                     /\ output.kind # "empty"] \in Reply
  <1> DEFINE g == reply.text # NoText
             v == reply.text = Trimmed
             m == reply.text # NoText /\ ~reply.replaced /\ output.kind # "empty"
  <1>1. g \in BOOLEAN /\ v \in BOOLEAN /\ m \in BOOLEAN
    OBVIOUS
  <1> HIDE DEF g, v, m
  <1>2. [reply EXCEPT !.generated = g, !.verbatim = v, !.matches = m] \in Reply
    BY <1>1 DEF Reply
  <1> QED
    BY <1>2 DEF g, v, m

\* The values run_turn's locals begin with.
LEMMA BlankTyped ==
    /\ NoIntent \in Policy /\ NotRetried \in Retries /\ NoTool \in Tool
    /\ NoReply \in Reply /\ NoOutput \in Output
  <1>1. NoIntent \in Policy
    BY DEF NoIntent, Policy, AllKinds
  <1>2. NotRetried \in Retries
    BY DEF NotRetried, Retries
  <1>3. NoTool \in Tool
    BY DEF NoTool, Tool
  <1>4. NoReply \in Reply
    BY DEF NoReply, Reply
  <1>5. NoOutput \in Output
    BY DEF NoOutput, Output, OutputKinds
  <1> QED
    BY <1>1, <1>2, <1>3, <1>4, <1>5

LEMMA InitInv == Init => TurnInv
  <1> SUFFICES ASSUME Init PROVE TurnInv
    OBVIOUS
  <1>1. <<>> \in Seq(Text) /\ Unpressed \in Int
    BY DEF Unpressed
  <1>2. pc \in Places /\ stop \in Reasons /\ pc \notin {"output", "draft"}
    BY DEF Init, Places, Reasons
  <1>3. TypeOK
    BY <1>1, <1>2, BlankTyped DEF Init, TypeOK
  <1>4. Accounts
    <2>1. pc = "idle" /\ steps = 0 /\ gens = 0 /\ calls = 0 /\ pressed = Unpressed
      BY DEF Init
    <2>2. 0 <= MaxSteps /\ 0 <= MaxToolCalls
      BY TurnAssumption
    <2> QED
      BY <2>1, <2>2 DEF Accounts
  <1>5. StopAccounts
    BY DEF Init, StopAccounts
  <1>6. Routing
    <2>1. intent.hinted = FALSE /\ calls = 0
      BY DEF Init, NoIntent
    <2> QED
      BY <2>1 DEF Routing
  <1> QED
    BY <1>3, <1>4, <1>5, <1>6 DEF TurnInv

\* A message of the user, what the router decides, and what the model writes.
LEMMA BeginTyped ==
    /\ \A n \in Nat : <<[turn |-> n, gen |-> 0, by |-> "user", raw |-> FALSE]>> \in Seq(Text)
    /\ \A i \in Intent : i \in Policy
  <1>1. ASSUME NEW n \in Nat
        PROVE  <<[turn |-> n, gen |-> 0, by |-> "user", raw |-> FALSE]>> \in Seq(Text)
    <2>1. [turn |-> n, gen |-> 0, by |-> "user", raw |-> FALSE] \in Text
      BY DEF Text, Authors
    <2> QED
      BY <2>1
  <1>2. ASSUME NEW i \in Intent PROVE i \in Policy
    BY TurnAssumption DEF Intent, Policy
  <1> QED
    BY <1>1, <1>2

LEMMA OutputTyped ==
    ASSUME turn \in Nat, gens \in Nat, NEW kind \in OutputKinds, NEW raw \in BOOLEAN,
           NEW t, t = [turn |-> turn, gen |-> gens + 1, by |-> "model", raw |-> raw]
    PROVE  /\ t \in Text
           /\ [t EXCEPT !.raw = FALSE] \in Text
           /\ [kind |-> kind, text |-> t] \in Output
  <1>1. t \in Text
    BY DEF Text, Authors, Assistants
  <1>2. [t EXCEPT !.raw = FALSE] \in Text
    BY <1>1 DEF Text
  <1>3. [kind |-> kind, text |-> t] \in Output
    BY <1>1 DEF Output
  <1> QED
    BY <1>1, <1>2, <1>3

\* A turn begins, with whatever index.
LEMMA BeginsTyped ==
    ASSUME TypeOK, NEW n \in Nat, NEW i \in Intent, NEW full \in BOOLEAN, BeginWith(n, i, full)
    PROVE  TypeOK'
  <1> USE DEF TypeOK
  <1>1. turn' \in Nat /\ intent' \in Policy
    BY BeginTyped DEF BeginWith
  <1>2. messages' \in Seq(Text) /\ working' \in Seq(Text)
    BY BeginTyped DEF BeginWith
  <1>3. pc' = "loop" /\ pc' \in Places /\ needsFull' \in BOOLEAN
    BY DEF BeginWith, Places
  <1> QED
    BY <1>1, <1>2, <1>3 DEF BeginWith

\* Every step keeps the types.
LEMMA TypeStep == TypeOK /\ [Next]_vars => TypeOK'
  <1> SUFFICES ASSUME TypeOK, [Next]_vars PROVE TypeOK'
    OBVIOUS
  <1>0. /\ Written("nudge") \in Text /\ Written("tool") \in Text
        /\ Written("native") \in Text /\ Written("described") \in Text
        /\ ReplaceLast(messages, Written("native")) \in Seq(Text)
        /\ ReplaceLast(messages, Written("described")) \in Seq(Text)
        /\ ReplaceLast(messages, Written("value")) \in Seq(Text)
        /\ ReplaceLast(messages, Written("fallback")) \in Seq(Text)
        /\ ReplaceLast(messages, Written("count")) \in Seq(Text)
        /\ ReplaceLast(messages, Written("ack")) \in Seq(Text)
        /\ Written("value") \in Text /\ Written("fallback") \in Text
        /\ Written("count") \in Text /\ Written("ack") \in Text
        /\ Append(messages, Written("nudge")) \in Seq(Text)
        /\ Append(working, Written("nudge")) \in Seq(Text)
        /\ pc \in {"output", "draft"} =>
              Stored \in Text /\ messages \o <<Stored, Written("tool")>> \in Seq(Text)
    BY StepTexts DEF Authors, Assistants
  <1>r. retried \in Retries /\ reply \in Reply
    BY DEF TypeOK
  <1> USE DEF TypeOK
  <1>1. CASE Begin
    BY <1>1, BeginsTyped, TurnAssumption DEF Begin
  <1>2. CASE PressStop
    BY <1>2 DEF PressStop
  <1>3. CASE Cancelled
    BY <1>3 DEF Cancelled, Places, Reasons
  <1>4. CASE OutOfSteps
    BY <1>4 DEF OutOfSteps, Places
  <1>5. CASE \E kind \in OutputKinds, raw \in BOOLEAN : Generate(kind, raw)
    <2>1. PICK kind \in OutputKinds, raw \in BOOLEAN : Generate(kind, raw)
      BY <1>5
    <2>2. output' \in Output /\ output'.text \in Text
      BY <2>1, OutputTyped DEF Generate
    <2>3. pc' \in Places /\ steps' \in Nat /\ gens' \in Nat /\ needsFull' \in BOOLEAN
      <3>1. pc' = "output" /\ steps' = steps + 1 /\ gens' = gens + 1 /\ needsFull' = FALSE
        BY <2>1 DEF Generate
      <3>2. steps' \in Nat /\ gens' \in Nat
        BY <3>1
      <3>3. pc' \in Places /\ needsFull' \in BOOLEAN
        BY <3>1 DEF Places
      <3> QED
        BY <3>2, <3>3
    <2>4. UNCHANGED <<turn, intent, calls, retried, messages, working, reply, tool, stop,
                      pressed>>
      BY <2>1 DEF Generate
    <2> QED
      BY <2>2, <2>3, <2>4
  <1>6. CASE GenerationFailed
    BY <1>6 DEF GenerationFailed, Places, Reasons
  <1>7. CASE NudgeEmpty
    BY <1>7, <1>0, <1>r, RetriesTyped DEF NudgeEmpty, Nudge, Push, Places
  <1>8. CASE NudgeBroken
    BY <1>8, <1>0, <1>r, RetriesTyped DEF NudgeBroken, Nudge, Push, Places
  <1>9. CASE NudgeCall
    BY <1>9, <1>0, <1>r, RetriesTyped DEF NudgeCall, Nudge, Push, Places
  <1>10. CASE \E ok \in BOOLEAN : RunTool(ok)
    <2>1. PICK ok \in BOOLEAN : RunTool(ok)
      BY <1>10
    <2>2. tool' \in Tool
      BY <2>1 DEF RunTool, Tool
    <2>3. stop' \in Reasons /\ pc' \in Places /\ pc' \notin {"output", "draft"}
      BY <2>1 DEF RunTool, Places, Reasons
    <2>4. messages' \in Seq(Text) /\ working' \in Seq(Text)
      BY <2>1, <1>0 DEF RunTool, Taken, Exchange
    <2>5. calls' \in Nat
      BY <2>1 DEF RunTool
    <2> QED
      BY <2>1, <2>2, <2>3, <2>4, <2>5 DEF RunTool
  <1>11. CASE UnknownTool
    BY <1>11, <1>0 DEF UnknownTool, Taken, Exchange, Places
  <1>12. CASE Draft
    <2>1. pc = "output" /\ pc' = "draft" /\ pc' \in Places
      BY <1>12 DEF Draft, Drafting, Taken, Places
    <2>2. PICK text \in Cleaned : reply' = [reply EXCEPT !.text = text, !.replaced = FALSE]
      BY <1>12 DEF Draft
    <2>3. text \in Text \cup {NoText}
      BY <2>1, <1>0 DEF Cleaned
    <2>4. reply' \in Reply
      BY <2>2, <2>3, <1>r, ReplyTyped
    <2> QED
      BY <1>12, <2>1, <2>4 DEF Draft
  <1>13. CASE Native
    BY <1>13, <1>0, <1>r, ReplyTyped DEF Native, Drafting, Taken, Places
  <1>14. CASE AskLanguage
    BY <1>14, <1>0, <1>r, RetriesTyped DEF AskLanguage, Nudge, Push, Places
  <1>15. CASE AskGreeting
    BY <1>15, <1>0, <1>r, RetriesTyped DEF AskGreeting, Nudge, Push, Places
  <1>16. CASE AskImage
    BY <1>16, <1>0, <1>r, RetriesTyped DEF AskImage, Nudge, Push, Places
  <1>17. CASE Describe
    <2>1. reply' \in Reply
      BY <1>17, <1>0, <1>r, ReplyTyped DEF Describe
    <2>2. pc' \in Places /\ stop' \in Reasons /\ pc' \notin {"output", "draft"}
      BY <1>17 DEF Describe, Places, Reasons
    <2> QED
      BY <1>17, <1>0, <2>1, <2>2 DEF Describe
  <1>18. CASE \E described \in BOOLEAN : Accept(described)
    <2>1. PICK described \in BOOLEAN : Accept(described)
      BY <1>18
    <2>2. reply' \in Reply
      BY <2>1, AcceptTyped DEF Accept
    <2>3. reply.text \in Text \cup {NoText}
      BY <1>r DEF Reply
    <2>4. messages' \in Seq(Text)
      BY <2>1, <2>3, <1>0 DEF Accept, Push
    <2>5. pc' \in Places /\ stop' \in Reasons /\ pc' \notin {"output", "draft"}
      BY <2>1 DEF Accept, Places, Reasons
    <2>6. gens' \in Nat
      BY <2>1 DEF Accept
    <2> QED
      BY <2>1, <2>2, <2>4, <2>5, <2>6 DEF Accept
  <1>19. CASE NoWrapUp
    BY <1>19 DEF NoWrapUp, Places
  <1>20. CASE \E kind \in {"empty", "debris", "text"}, raw \in BOOLEAN : WrapUp(kind, raw)
    <2>1. PICK kind \in {"empty", "debris", "text"}, raw \in BOOLEAN : WrapUp(kind, raw)
      BY <1>20
    <2>2. kind \in OutputKinds
      BY DEF OutputKinds
    <2> DEFINE t == [turn |-> turn, gen |-> gens + 1, by |-> "model", raw |-> raw]
    <2>3. t \in Text /\ [t EXCEPT !.raw = FALSE] \in Text /\ [kind |-> kind, text |-> t] \in Output
      BY <2>2, OutputTyped
    <2>4. output' = [kind |-> kind, text |-> t] /\ output'.text = t
      BY <2>1 DEF WrapUp
    <2> HIDE DEF t
    <2>5. messages' \in Seq(Text)
      <3>1. CASE kind = "empty"
        BY <3>1, <2>1 DEF WrapUp
      <3>2. CASE kind # "empty"
        <4>1. messages' = Append(messages, t)
          BY <3>2, <2>1, <2>4 DEF WrapUp, Push
        <4> QED
          BY <4>1, <2>3
      <3> QED
        BY <3>1, <3>2
    <2>6. reply' \in Reply
      <3>1. CASE kind = "text"
        <4>1. reply' = [reply EXCEPT !.text = [t EXCEPT !.raw = FALSE],
                                     !.generated = TRUE, !.verbatim = ~raw]
          BY <3>1, <2>1, <2>4 DEF WrapUp
        <4> QED
          BY <4>1, <2>3, <1>r, ReplyTyped
      <3>2. CASE kind # "text"
        BY <3>2, <2>1, <1>r DEF WrapUp
      <3> QED
        BY <3>1, <3>2
    <2>7. pc' \in Places /\ pc' \notin {"output", "draft"} /\ gens' \in Nat /\ needsFull' \in BOOLEAN
      BY <2>1 DEF WrapUp, Places
    <2> QED
      BY <2>1, <2>3, <2>4, <2>5, <2>6, <2>7 DEF WrapUp
  <1>21. CASE ShowValue
    BY <1>21, <1>0, <1>r, ReplyTyped DEF ShowValue, ShowInstead, Places
  <1>22. CASE ShowAnswer
    BY <1>22 DEF ShowAnswer, Places
  <1>23. CASE ShowFallback
    BY <1>23, <1>0, <1>r, ReplyTyped DEF ShowFallback, Places, Reasons
  <1>24. CASE Complete
    BY <1>24, <1>0, <1>r, ReplyTyped DEF Complete, ShowInstead, Places
  <1>25. CASE Keep
    BY <1>25 DEF Keep, Places
  <1>26. CASE Close
    <2>1. PICK full \in BOOLEAN : CloseWith(full)
      BY <1>26 DEF Close
    <2>2. Unpressed \in Int
      BY DEF Unpressed
    <2>3. /\ messages' \in Seq(Text) /\ working' \in Seq(Text)
          /\ stop' \in Reasons /\ pc' \in Places /\ pc' \notin {"output", "draft"}
      <3>1. <<>> \in Seq(Text)
        OBVIOUS
      <3>2. messages' = <<>> /\ working' = <<>> /\ stop' = "" /\ pc' = "idle"
        BY <2>1 DEF CloseWith
      <3> QED
        BY <3>1, <3>2 DEF Reasons, Places
    <2>4. /\ intent' \in Policy /\ retried' \in Retries /\ reply' \in Reply
          /\ tool' \in Tool /\ output' \in Output
      BY <2>1, BlankTyped DEF CloseWith
    <2>5. needsFull' \in BOOLEAN
      BY <2>1 DEF CloseWith, Abandons
    <2> QED
      BY <2>1, <2>2, <2>3, <2>4, <2>5 DEF CloseWith
  <1>27. CASE UNCHANGED vars
    BY <1>27 DEF vars
  <1> QED
    BY <1>1, <1>2, <1>3, <1>4, <1>5, <1>6, <1>7, <1>8, <1>9, <1>10, <1>11, <1>12,
           <1>13, <1>14, <1>15, <1>16, <1>17, <1>18, <1>19, <1>20, <1>21, <1>22,
           <1>23, <1>24, <1>25, <1>26, <1>27 DEF Next, Step

\* The values the accounts are about.
LEMMA Typed ==
    ASSUME TypeOK
    PROVE  /\ steps \in Nat /\ calls \in Nat /\ gens \in Nat /\ pressed \in Int
           /\ retried \in [empty : BOOLEAN, broken : BOOLEAN, refusal : BOOLEAN,
                            greeting : BOOLEAN, language : Nat]
           /\ intent.hinted \in BOOLEAN /\ reply \in Reply
           /\ pc \in {"output", "draft"} => output.text \in Text
  BY DEF TypeOK, Retries, Policy

LEMMA BeginsAccounted ==
    ASSUME TurnInv, NEW n, NEW i \in Intent, NEW full, BeginWith(n, i, full)
    PROVE  Accounts' /\ StopAccounts' /\ Routing'
  <1>0. /\ steps \in Nat /\ calls \in Nat /\ gens \in Nat /\ pressed \in Int
        /\ MaxSteps \in Nat /\ MaxToolCalls \in Nat \ {0}
    BY Typed, TurnAssumption DEF TurnInv
  <1> QED
    BY <1>0 DEF TurnInv, Accounts, StopAccounts, Routing, BeginWith, Intent, AllowTools,
                Unpressed

\* Every step keeps the accounts and the routing.
LEMMA AccountsStep == TurnInv /\ [Next]_vars => Accounts' /\ StopAccounts' /\ Routing'
  <1> SUFFICES ASSUME TurnInv, [Next]_vars PROVE Accounts' /\ StopAccounts' /\ Routing'
    OBVIOUS
  <1>0. /\ steps \in Nat /\ calls \in Nat /\ gens \in Nat /\ pressed \in Int
        /\ retried \in [empty : BOOLEAN, broken : BOOLEAN, refusal : BOOLEAN,
                         greeting : BOOLEAN, language : Nat]
        /\ intent.hinted \in BOOLEAN /\ reply \in Reply
        /\ MaxSteps \in Nat /\ MaxToolCalls \in Nat \ {0}
    BY Typed, TurnAssumption DEF TurnInv
  <1> USE <1>0 DEF TurnInv, Accounts, StopAccounts, Routing, AllowTools
  <1>1. CASE Begin
    BY <1>1, BeginsAccounted DEF Begin
  <1>2. CASE PressStop
    BY <1>2 DEF PressStop, Unpressed
  <1>3. CASE Cancelled
    BY <1>3 DEF Cancelled
  <1>4. CASE OutOfSteps
    BY <1>4 DEF OutOfSteps
  <1>5. CASE \E kind \in OutputKinds, raw \in BOOLEAN : Generate(kind, raw)
    BY <1>5 DEF Generate
  <1>6. CASE GenerationFailed
    BY <1>6 DEF GenerationFailed
  <1>7. CASE NudgeEmpty
    BY <1>7 DEF NudgeEmpty, Nudge
  <1>8. CASE NudgeBroken
    BY <1>8 DEF NudgeBroken, Nudge
  <1>9. CASE NudgeCall
    BY <1>9 DEF NudgeCall, Nudge
  <1>10. CASE \E ok \in BOOLEAN : RunTool(ok)
    BY <1>10 DEF RunTool, Taken, CanNudgeCall, Rescued, IsCall
  <1>11. CASE UnknownTool
    BY <1>11 DEF UnknownTool, Taken
  <1>12. CASE Draft
    BY <1>12 DEF Draft, Drafting, Taken
  <1>13. CASE Native
    BY <1>13 DEF Native, Drafting, Taken
  <1>14. CASE AskLanguage
    BY <1>14 DEF AskLanguage, Nudge
  <1>15. CASE AskGreeting
    BY <1>15 DEF AskGreeting, Nudge
  <1>16. CASE AskImage
    BY <1>16 DEF AskImage, Nudge
  <1>17. CASE Describe
    BY <1>17, WrittenNotNoText DEF Describe, ImageRefused, Authors, Assistants
  <1>18. CASE \E described \in BOOLEAN : Accept(described)
    BY <1>18 DEF Accept, ImageRefused
  <1>19. CASE NoWrapUp
    BY <1>19 DEF NoWrapUp
  <1>20. CASE \E kind \in {"empty", "debris", "text"}, raw \in BOOLEAN : WrapUp(kind, raw)
    BY <1>20 DEF WrapUp
  <1>21. CASE ShowValue
    BY <1>21 DEF ShowValue
  <1>22. CASE ShowAnswer
    BY <1>22 DEF ShowAnswer
  <1>23. CASE ShowFallback
    BY <1>23 DEF ShowFallback
  <1>24. CASE Complete
    BY <1>24 DEF Complete
  <1>25. CASE Keep
    BY <1>25 DEF Keep
  <1>26. CASE Close
    <2>1. PICK full \in BOOLEAN : CloseWith(full)
      BY <1>26 DEF Close
    <2>2. Accounts'
      <3>1. /\ pc' = "idle" /\ steps' = 0 /\ gens' = 0 /\ calls' = 0
            /\ pressed' = Unpressed
        BY <2>1 DEF CloseWith
      <3>2. 0 <= MaxSteps /\ 0 <= MaxToolCalls
        OBVIOUS
      <3> QED
        BY <3>1, <3>2
    <2>3. StopAccounts'
      BY <2>1 DEF CloseWith
    <2>4. ~intent'.hinted /\ calls' = 0
      BY <2>1 DEF CloseWith, NoIntent
    <2>5. Routing'
      BY <2>4
    <2> QED
      BY <2>2, <2>3, <2>5
  <1>27. CASE UNCHANGED vars
    BY <1>27 DEF vars
  <1> QED
    BY <1>1, <1>2, <1>3, <1>4, <1>5, <1>6, <1>7, <1>8, <1>9, <1>10, <1>11, <1>12,
           <1>13, <1>14, <1>15, <1>16, <1>17, <1>18, <1>19, <1>20, <1>21, <1>22,
           <1>23, <1>24, <1>25, <1>26, <1>27 DEF Next, Step

\* The inductive invariant holds in every reachable state.
THEOREM TurnInvariant == Spec => []TurnInv
  <1>1. Init => TurnInv
    BY InitInv
  <1>2. TurnInv /\ [Next]_vars => TurnInv'
    BY TypeStep, AccountsStep DEF TurnInv
  <1> QED
    BY <1>1, <1>2, PTL DEF Spec

LEMMA InvBudgets == TurnInv => WithinBudgets
  <1> SUFFICES ASSUME TurnInv PROVE WithinBudgets
    OBVIOUS
  <1>1. steps \in Nat /\ gens \in Nat /\ MaxSteps \in Nat
    BY Typed, TurnAssumption DEF TurnInv
  <1>2. pc \in {"idle", "loop", "output", "draft", "wrap", "show", "note", "close"}
    BY DEF TurnInv, TypeOK, Places
  <1> QED
    BY <1>1, <1>2 DEF TurnInv, Accounts, WithinBudgets

\* No tool call beyond max_tool_calls and at most one generation beyond max_steps,
\* for any budgets and whatever the model writes.
THEOREM Budgets == Spec => []WithinBudgets
  BY InvBudgets, TurnInvariant, PTL

LEMMA InvStop == TurnInv => StopSoon
  <1> SUFFICES ASSUME TurnInv PROVE StopSoon
    OBVIOUS
  <1>1. gens \in Nat /\ pressed \in Int
    BY Typed DEF TurnInv
  <1>2. pc \in {"idle", "loop", "output", "draft", "wrap", "show", "note", "close"}
    BY DEF TurnInv, TypeOK, Places
  <1> QED
    BY <1>1, <1>2 DEF TurnInv, Accounts, StopAccounts, StopSoon

\* After a press of the stop button at most one generation is asked for.
THEOREM StopIsSoon == Spec => []StopSoon
  BY InvStop, TurnInvariant, PTL

LEMMA InvNudged == TurnInv => ToolsAfterNudge
  BY DEF TurnInv, Routing, ToolsAfterNudge

\* A turn for text runs a tool only after a nudge.
THEOREM NudgedFirst == Spec => []ToolsAfterNudge
  BY InvNudged, TurnInvariant, PTL
-----------------------------------------------------------------------------
(* What is shown is stored.                                                  *)

\* From the first answer on, an answer that was not refused is what the
\* transcript ends with.
StoredInv ==
    /\ pc = "idle" => reply.text = NoText
    /\ Unrejected =>
        /\ pc \in {"loop", "output"} => reply.text = NoText
        /\ pc \in {"wrap", "show"} => reply.text = NoText \/ Kept
        /\ pc \in {"note", "close"} => Kept

\* A cleaned text is its own clean-up.
LEMMA CleanText ==
    ASSUME NEW m \in Text
    PROVE  [[m EXCEPT !.raw = FALSE] EXCEPT !.raw = FALSE] = [m EXCEPT !.raw = FALSE]
  BY DEF Text

LEMMA AppendKept ==
    ASSUME messages \in Seq(Text), NEW m \in Text, messages' = Append(messages, m),
           [m EXCEPT !.raw = FALSE] = [reply'.text EXCEPT !.raw = FALSE]
    PROVE  Kept'
  <1>1. messages' # <<>> /\ Last(messages') = m
    BY DEF Last
  <1> QED
    BY <1>1 DEF Kept

LEMMA ReplaceKept ==
    ASSUME messages \in Seq(Text), NEW m \in Text,
           messages' = ReplaceLast(messages, m), reply'.text = m
    PROVE  Kept'
  <1>1. \A ms \in Seq(Text) : Append(ms, m) # <<>> /\ Last(Append(ms, m)) = m
    BY DEF Last
  <1>2. messages # <<>> => Front(messages) \in Seq(Text)
    BY DEF Front
  <1> QED
    BY <1>1, <1>2 DEF ReplaceLast, Kept

\* The runtime's sentence in the answer's place.
LEMMA ShownKept ==
    ASSUME TypeOK, NEW by \in Authors, ShowInstead(by)
    PROVE  Kept'
  <1>1. reply'.text = Written(by)
    BY DEF TypeOK, Reply, ShowInstead
  <1> QED
    BY <1>1, StepTexts, ReplaceKept DEF TypeOK, ShowInstead

LEMMA BeginsStored ==
    ASSUME StoredInv, NEW n, NEW i, NEW full, BeginWith(n, i, full)
    PROVE  StoredInv'
  BY DEF StoredInv, BeginWith, Unrejected

LEMMA StoredStep == TypeOK /\ StoredInv /\ [Next]_vars => StoredInv'
  <1> SUFFICES ASSUME TypeOK, StoredInv, [Next]_vars PROVE StoredInv'
    OBVIOUS
  <1>0. /\ messages \in Seq(Text) /\ reply \in Reply
        /\ retried \in [empty : BOOLEAN, broken : BOOLEAN, refusal : BOOLEAN,
                        greeting : BOOLEAN, language : Nat]
        /\ pc \in {"output", "draft"} => output.text \in Text /\ Stored \in Text
        /\ \A by \in Authors : Written(by) \in Text /\ Written(by) # NoText
    BY StepTexts, WrittenNotNoText DEF TypeOK, Retries
  <1> USE <1>0 DEF StoredInv
  <1>1. CASE Begin
    BY <1>1, BeginsStored DEF Begin
  <1>2. CASE PressStop \/ Cancelled \/ OutOfSteps \/ GenerationFailed \/ NoWrapUp
             \/ ShowAnswer \/ UNCHANGED vars
    BY <1>2 DEF vars, PressStop, Cancelled, OutOfSteps, GenerationFailed, NoWrapUp, ShowAnswer,
                Unrejected, Kept
  <1>3. CASE \E kind \in OutputKinds, raw \in BOOLEAN : Generate(kind, raw)
    BY <1>3 DEF Generate, Unrejected
  <1>4. CASE NudgeEmpty \/ NudgeBroken \/ NudgeCall
    BY <1>4 DEF NudgeEmpty, NudgeBroken, NudgeCall, Nudge, Unrejected
  <1>5. CASE (\E ok \in BOOLEAN : RunTool(ok)) \/ UnknownTool
    BY <1>5 DEF RunTool, UnknownTool, Taken, Unrejected
  <1>6. CASE Draft \/ Native
    BY <1>6 DEF Draft, Native, Drafting, Taken
  <1>7. CASE AskLanguage
    BY <1>7 DEF AskLanguage, Nudge, Unrejected
  <1>8. CASE AskGreeting
    BY <1>8 DEF AskGreeting, Nudge, Unrejected
  <1>9. CASE AskImage
    BY <1>9 DEF AskImage, Nudge, Unrejected
  <1>10. CASE Describe
    <2>1. Kept'
      BY <1>10, ReplaceKept DEF Describe, Authors, Assistants
    <2> QED
      BY <1>10, <2>1 DEF Describe
  <1>11. CASE \E described \in BOOLEAN : Accept(described)
    <2>1. reply'.text = reply.text /\ pc' = "wrap"
      BY <1>11 DEF Accept, Reply
    <2>2. CASE reply.text # NoText
      <3>1. reply.text \in Text /\ messages' = Append(messages, reply.text)
        BY <1>11, <2>2 DEF Accept, Push, Reply
      <3> QED
        BY <2>1, <3>1, AppendKept
    <2> QED
      BY <2>1, <2>2
  <1>12. CASE \E kind \in {"empty", "debris", "text"}, raw \in BOOLEAN : WrapUp(kind, raw)
    <2>1. PICK kind \in {"empty", "debris", "text"}, raw \in BOOLEAN : WrapUp(kind, raw)
      BY <1>12
    <2>2. CASE kind # "text"
      BY <2>1, <2>2 DEF WrapUp
    <2>3. CASE kind = "text"
      <3>1. /\ output'.text = [turn |-> turn, gen |-> gens + 1, by |-> "model", raw |-> raw]
            /\ messages' = Append(messages, output'.text)
            /\ reply'.text = [output'.text EXCEPT !.raw = FALSE]
        BY <2>1, <2>3 DEF WrapUp, Push, Reply
      <3>2. output'.text \in Text
        <4>1. turn \in Nat /\ gens + 1 \in Nat /\ "model" \in Authors
          BY DEF TypeOK, Authors, Assistants
        <4> QED
          BY <3>1, <4>1 DEF Text
      <3>3. [output'.text EXCEPT !.raw = FALSE] = [reply'.text EXCEPT !.raw = FALSE]
        BY <3>1, <3>2, CleanText
      <3>4. Kept'
        BY <3>1, <3>2, <3>3, AppendKept
      <3> QED
        BY <2>1, <3>4 DEF WrapUp
    <2> QED
      BY <2>2, <2>3
  <1>13. CASE ShowValue
    BY <1>13, ShownKept DEF ShowValue, Authors, Assistants
  <1>14. CASE ShowFallback
    <2>1. reply'.text = Written("fallback")
      BY <1>14 DEF ShowFallback, Reply
    <2>2. Kept'
      BY <1>14, <2>1, ReplaceKept DEF ShowFallback, Authors, Assistants
    <2> QED
      BY <1>14, <2>2 DEF ShowFallback
  <1>15. CASE Complete
    <2>1. PICK by \in Authors : ShowInstead(by)
      BY <1>15 DEF Complete, Authors, Assistants
    <2>2. Kept'
      BY <2>1, ShownKept
    <2> QED
      BY <1>15, <2>2 DEF Complete
  <1>16. CASE Keep
    BY <1>16 DEF Keep, Unrejected, Kept
  <1>17. CASE Close
    <2>1. pc' = "idle" /\ reply' = NoReply
      BY <1>17 DEF Close, CloseWith
    <2>2. reply'.text = NoText
      BY <2>1 DEF NoReply
    <2> QED
      BY <2>1, <2>2
  <1> HIDE <1>0 DEF StoredInv
  <1> QED
    BY <1>1, <1>2, <1>3, <1>4, <1>5, <1>6, <1>7, <1>8, <1>9, <1>10, <1>11, <1>12,
           <1>13, <1>14, <1>15, <1>16, <1>17 DEF Next, Step

\* Through every nudge, description, wrap-up and replacement, whatever the budgets:
\* a turn whose answers were not refused stores what it shows.
THEOREM StoresWhatItShows == Spec => []ShownIsStored
  <1>1. Init => StoredInv
    <2> SUFFICES ASSUME Init PROVE StoredInv
      OBVIOUS
    <2>1. pc = "idle" /\ reply = NoReply
      BY DEF Init
    <2>2. reply.text = NoText
      BY <2>1 DEF NoReply
    <2> QED
      BY <2>1, <2>2 DEF StoredInv
  <1>2. TurnInv /\ StoredInv /\ [Next]_vars => StoredInv'
    BY StoredStep DEF TurnInv
  <1>3. StoredInv => ShownIsStored
    BY DEF StoredInv, ShownIsStored
  <1> QED
    BY <1>1, <1>2, <1>3, TurnInvariant, PTL DEF Spec

-----------------------------------------------------------------------------
(* Transcripts that agree.                                                   *)

LEMMA AgreeReflexive ==
    ASSUME NEW s \in Seq(Message)
    PROVE  Agree(s, s)
  BY DEF Agree

\* What follows on both sides changes nothing.
LEMMA AgreeTail ==
    ASSUME NEW s \in Seq(Message), NEW t \in Seq(Message), NEW u \in Seq(Message), Agree(s, t)
    PROVE  Agree(s \o u, t \o u)
  <1> DEFINE a == s \o u
             b == t \o u
  <1>1. /\ Len(a) = Len(s) + Len(u)
        /\ \A k \in 1 .. Len(s) : a[k] = s[k]
        /\ \A k \in Len(s) + 1 .. Len(a) : a[k] = u[k - Len(s)]
    BY Concat
  <1>2. /\ Len(b) = Len(t) + Len(u)
        /\ \A k \in 1 .. Len(t) : b[k] = t[k]
        /\ \A k \in Len(t) + 1 .. Len(b) : b[k] = u[k - Len(t)]
    BY Concat
  <1>3. Len(s) \in Nat /\ Len(u) \in Nat /\ Len(t) = Len(s)
    BY DEF Agree
  <1> HIDE DEF a, b
  <1>4. ASSUME NEW k \in 1 .. Len(a)
        PROVE  a[k] = b[k] \/ (IsAssistant(a[k]) /\ IsAssistant(b[k]))
    <2>1. CASE k \in 1 .. Len(s)
      BY <1>1, <1>2, <1>3, <2>1 DEF Agree
    <2>2. CASE k \notin 1 .. Len(s)
      <3>1. k \in Len(s) + 1 .. Len(a) /\ k \in Len(t) + 1 .. Len(b)
        BY <1>1, <1>2, <1>3, <2>2
      <3>2. a[k] = u[k - Len(s)] /\ b[k] = u[k - Len(s)]
        BY <1>1, <1>2, <1>3, <3>1
      <3> QED
        BY <3>2
    <2> QED
      BY <2>1, <2>2
  <1> QED
    BY <1>1, <1>2, <1>3, <1>4 DEF Agree, a, b

\* The assistant's last message may be another one.
LEMMA AgreeLast ==
    ASSUME NEW s \in Seq(Message), NEW p \in Seq(Message), NEW m \in Message, NEW n \in Message,
           Agree(s, Append(p, m)), IsAssistant(m), IsAssistant(n)
    PROVE  Agree(s, Append(p, n))
  <1> DEFINE a == Append(p, m)
             b == Append(p, n)
  <1>1. /\ Len(p) \in Nat /\ Len(a) = Len(p) + 1 /\ Len(b) = Len(p) + 1
        /\ a[Len(p) + 1] = m /\ b[Len(p) + 1] = n
        /\ \A k \in 1 .. Len(p) : a[k] = p[k] /\ b[k] = p[k]
    OBVIOUS
  <1> HIDE DEF a, b
  <1>2. Agree(s, a)
    BY DEF a
  <1>3. ASSUME NEW k \in 1 .. Len(s)
        PROVE  s[k] = b[k] \/ (IsAssistant(s[k]) /\ IsAssistant(b[k]))
    <2>1. k \in 1 .. Len(p) \/ k = Len(p) + 1
      BY <1>1, <1>2 DEF Agree
    <2>2. s[k] = a[k] \/ (IsAssistant(s[k]) /\ IsAssistant(a[k]))
      BY <1>2 DEF Agree
    <2> QED
      BY <1>1, <2>1, <2>2
  <1>4. Agree(s, b)
    BY <1>1, <1>2, <1>3 DEF Agree
  <1> QED
    BY <1>4 DEF b

\* A prompt that extends a transcript is the transcript and what follows it.
LEMMA Extended ==
    ASSUME NEW s \in Seq(Message), NEW p \in Seq(Message), D!Extends(s, p)
    PROVE  LET u == SubSeq(p, Len(s) + 1, Len(p)) IN
           u \in Seq(Message) /\ s \o u = p
  <1> DEFINE u == SubSeq(p, Len(s) + 1, Len(p))
  <1>0. Len(s) <= Len(p) /\ SubSeq(s, 1, Len(s)) = SubSeq(p, 1, Len(s))
    BY DEF D!Extends, D!IsPrefix
  <1>00. SubSeq(s, 1, Len(s)) = s
    BY SubSeqFull
  <1>1. Len(s) \in Nat /\ Len(p) \in Nat /\ Len(s) <= Len(p) /\ s = SubSeq(p, 1, Len(s))
    BY <1>0, <1>00
  <1>2. u \in Seq(Message)
    BY <1>1, Suffix
  <1>3. SubSeq(p, 1, Len(s)) \o u = SubSeq(p, 1, Len(p))
    <2>1. 1 \in 1 .. Len(p) + 1 /\ Len(s) \in 1 - 1 .. Len(p) /\ Len(p) \in Len(s) .. Len(p)
      BY <1>1
    <2> QED
      BY <2>1, ConcatAdjacentSubSeq
  <1>4. SubSeq(p, 1, Len(p)) = p
    BY SubSeqFull
  <1> QED
    BY <1>1, <1>2, <1>3, <1>4

LEMMA ExtendsItself ==
    ASSUME NEW s \in Seq(Message), s # <<>>
    PROVE  D!Extends(s, s)
  <1>1. SubSeq(s, 1, Len(s)) = SubSeq(s, 1, Len(s)) /\ Len(s) <= Len(s)
    OBVIOUS
  <1> QED
    BY <1>1 DEF D!Extends, D!IsPrefix

-----------------------------------------------------------------------------
(* The driver.                                                               *)

KvTyped == kv \in Seq(Message) /\ cached \in Seq(Message) /\ engine \in Seq(Message)

\* A generation from an engine created anew.
LEMMA FullDrives ==
    ASSUME KvTyped, D!InStep, D!NeverRewinds,
           NEW p \in Seq(Message), NEW r \in Seq(Message), NEW o, o # "threw", D!Full(p, r, o)
    PROVE  /\ KvTyped' /\ D!InStep' /\ D!NeverRewinds'
           /\ Agreed'
           /\ o # "mismatch" => engine' = cached' /\ cached' = p \o r
  <1>0. <<>> \in Seq(Message) /\ p \o r \in Seq(Message)
    OBVIOUS
  <1>1. CASE o = "mismatch"
    BY <1>0, <1>1 DEF D!Full, KvTyped, D!InStep, D!NeverRewinds, Agreed
  <1>2. CASE o # "mismatch"
    <2>1. D!Prefilled(<<>>, <<>>, p) = p /\ ~D!Rewinds(<<>>, <<>>, p)
      BY DEF D!Prefilled, D!Extends, D!Rewinds
    <2>2. kv' = p \o r /\ cached' = p \o r /\ engine' = p \o r /\ ~rewound'
      BY <1>2, <2>1 DEF D!Full, D!Run, D!NeverRewinds
    <2>3. Agreed'
      BY <1>0, <2>2, AgreeReflexive DEF Agreed
    <2> QED
      BY <1>0, <2>2, <2>3 DEF KvTyped, D!InStep, D!NeverRewinds
  <1> QED
    BY <1>1, <1>2

\* A generation that prefills a suffix where the driver can.
LEMMA DeltaDrives ==
    ASSUME KvTyped, D!InStep, D!NeverRewinds,
           NEW p \in Seq(Message), NEW r \in Seq(Message), NEW o, o # "threw", D!Delta(p, r, o)
    PROVE  /\ KvTyped' /\ D!InStep' /\ D!NeverRewinds'
           /\ Agreed \/ ~D!Covers(p) => Agreed'
           /\ o # "mismatch" => engine' = cached' /\ cached' = p \o r
  <1>1. CASE ~D!Covers(p)
    BY <1>1, FullDrives DEF D!Delta
  <1>2. CASE D!Covers(p) /\ o = "mismatch"
    BY <1>2 DEF D!Delta, D!driver, KvTyped, D!InStep, D!NeverRewinds, Agreed, Agree
  <1>3. CASE D!Covers(p) /\ o # "mismatch"
    <2>0. p \o r \in Seq(Message)
      OBVIOUS
    <2>1. D!Run(kv, engine, p, r, o)
      BY <1>3 DEF D!Delta
    <2>2. cached' = p \o r /\ engine' = p \o r
      BY <1>3, <2>1 DEF D!Run
    <2>3. CASE engine = <<>> /\ kv = <<>>
      <3>1. D!Prefilled(kv, engine, p) = p /\ ~D!Rewinds(kv, engine, p)
        BY <2>3 DEF D!Prefilled, D!Extends, D!Rewinds
      <3>2. kv' = p \o r /\ ~rewound'
        BY <2>1, <3>1 DEF D!Run, D!NeverRewinds
      <3>3. Agreed'
        BY <2>0, <2>2, <3>2, AgreeReflexive DEF Agreed
      <3> QED
        BY <2>0, <2>2, <3>2, <3>3 DEF KvTyped, D!InStep, D!NeverRewinds
    <2>4. CASE ~(engine = <<>> /\ kv = <<>>)
      <3> DEFINE u == SubSeq(p, Len(cached) + 1, Len(p))
      <3>1. engine = cached /\ D!Extends(cached, p) /\ cached # <<>>
        BY <1>3, <2>4 DEF D!InStep, D!Covers, D!Extends
      <3>2. u \in Seq(Message) /\ cached \o u = p
        BY <3>1, Extended DEF KvTyped
      <3>3. D!Prefilled(kv, engine, p) = kv \o u /\ ~D!Rewinds(kv, engine, p)
        BY <3>1 DEF D!Prefilled, D!Rewinds
      <3> HIDE DEF u
      <3>4. kv' = (kv \o u) \o r /\ ~rewound'
        BY <2>1, <3>3 DEF D!Run, D!NeverRewinds
      <3>5. kv \o u \in Seq(Message)
        BY <3>2 DEF KvTyped
      <3>6. (kv \o u) \o r \in Seq(Message)
        BY <3>5
      <3>7. ASSUME Agreed PROVE Agreed'
        <4>1. Agree(kv, cached)
          BY <3>1, <3>7 DEF Agreed
        <4>2. Agree(kv \o u, p)
          BY <3>2, <4>1, AgreeTail DEF KvTyped
        <4>3. Agree((kv \o u) \o r, p \o r)
          BY <3>5, <4>2, AgreeTail
        <4> QED
          BY <2>2, <3>4, <4>3 DEF Agreed
      <3>8. Agreed \/ ~D!Covers(p) => Agreed'
        BY <1>3, <3>7
      <3> QED
        BY <2>0, <2>2, <3>4, <3>6, <3>8 DEF KvTyped, D!InStep, D!NeverRewinds
    <2> QED
      BY <2>3, <2>4
  <1> QED
    BY <1>1, <1>2, <1>3

-----------------------------------------------------------------------------
(* Prompts.                                                                  *)

\* The concatenations of the first sequences of a list, one after the other.
Joins(F, M, s) ==
    /\ F \in [1 .. Len(s) -> Seq(M)]
    /\ F[1] = s[1]
    /\ \A k \in 1 .. Len(s) : k # 1 => F[k] = F[k - 1] \o s[k]
    /\ FlattenSeq(s) = F[Len(s)]

\* FlattenSeq is what its recursion says.
LEMMA Joined ==
    ASSUME NEW M, NEW s \in Seq(Seq(M)), s # <<>>
    PROVE  \E F : Joins(F, M, s)
  <1> DEFINE S == Seq(M)
             n == Len(s)
             next(t, k) == IF k = 1 THEN s[1] ELSE t \o s[k]
             step == [k \in 1 .. n |-> [t \in S |-> next(t, k)]]
             eq(F) == F = [k \in 1 .. Len(s) |-> IF k = 1 THEN s[k] ELSE F[k - 1] \o s[k]]
  <1>0. n \in Nat /\ n # 0 /\ 1 \in 1 .. n /\ n \in 1 .. n /\ <<>> \in S /\ \A k \in 1 .. n : s[k] \in S
    OBVIOUS
  <1>1. step \in [1 .. n -> [S -> S]]
    <2>1. ASSUME NEW k \in 1 .. n, NEW t \in S PROVE next(t, k) \in S
      <3>1. s[k] \in S /\ s[1] \in S
        BY <1>0
      <3> HIDE DEF n
      <3>2. t \o s[k] \in S
        BY <3>1
      <3> QED
        BY <3>1, <3>2
    <2> HIDE DEF next, S, n
    <2> QED
      BY <2>1
  <1>2. \A k \in 1 .. n : \A t \in S : step[k][t] = next(t, k)
    OBVIOUS
  <1>3. \E F : F \in [1 .. n -> S] /\ eq(F)
    <2> HIDE DEF n, S, step
    <2> DEFINE b == <<>>
    <2>0. b \in S
      BY <1>0
    <2>00. n \in Nat
      BY <1>0
    <2> HIDE DEF b
    <2>01. PICK F : Steps(F, S, b, n, step)
      BY <1>1, <2>0, <2>00, Recursion
    <2>1. F \in [0 .. n -> S] /\ \A k \in 1 .. n : F[k] = step[k][F[k - 1]]
      BY <2>01 DEF Steps
    <2> DEFINE G == [k \in 1 .. n |-> F[k]]
    <2>2. ASSUME NEW k \in 1 .. n
          PROVE  G[k] \in S /\ G[k] = IF k = 1 THEN s[1] ELSE G[k - 1] \o s[k]
      <3>1. k \in 0 .. n /\ k - 1 \in 0 .. n
        BY <1>0
      <3>2. F[k] = next(F[k - 1], k) /\ F[k] \in S
        BY <1>2, <2>1, <3>1
      <3>3. CASE k = 1
        BY <3>2, <3>3
      <3>4. CASE k # 1
        <4>1. k - 1 \in 1 .. n
          BY <1>0, <3>4
        <4> QED
          BY <3>2, <3>4, <4>1
      <3> QED
        BY <3>3, <3>4
    <2>3. eq(G)
      <3>1. \A k \in 1 .. n : G[k] = IF k = 1 THEN s[k] ELSE G[k - 1] \o s[k]
        BY <2>2
      <3> QED
        BY <3>1 DEF n
    <2>4. G \in [1 .. n -> S]
      BY <2>2
    <2> QED
      BY <2>3, <2>4
  <1>4. PICK F : eq(F) /\ FlattenSeq(s) = F[Len(s)]
    <2>1. Len(s) # 0 /\ \E F : eq(F)
      BY <1>0, <1>3
    <2> HIDE DEF S, step
    <2>2. FlattenSeq(s) = (CHOOSE F : eq(F))[Len(s)]
      BY ONLY <2>1 DEF FlattenSeq
    <2> QED
      BY <2>1, <2>2
  <1> HIDE DEF S, n, step
  <1>5. F[1] = s[1] /\ \A k \in 1 .. n : k # 1 => F[k] = F[k - 1] \o s[k]
    BY <1>0, <1>4 DEF n
  <1> DEFINE holds == {k \in 1 .. n : F[k] \in S}
  <1>6. 1 \in holds
    BY <1>0, <1>5
  <1>7. ASSUME NEW k \in 1 .. n, k \in holds, k < n
        PROVE  k + 1 \in holds
    <2>1. k + 1 \in 1 .. n /\ k + 1 # 1 /\ (k + 1) - 1 = k
      BY <1>0, <1>7
    <2>2. F[k + 1] = F[k] \o s[k + 1]
      BY <1>5, <2>1
    <2>3. F[k] \in S /\ s[k + 1] \in S
      BY <1>0, <1>7, <2>1
    <2>4. F[k] \o s[k + 1] \in S
      BY <2>3 DEF S
    <2> QED
      BY <2>1, <2>2, <2>4
  <1> HIDE DEF holds
  <1>8. \A k \in 1 .. n : k \in holds
    BY <1>0, <1>6, <1>7, Induction
  <1>9. F \in [1 .. n -> S]
    <2>1. \A k \in 1 .. n : F[k] \in S
      BY <1>8 DEF holds
    <2> QED
      BY <1>4, <2>1 DEF n
  <1> QED
    BY <1>4, <1>5, <1>9 DEF Joins, S, n

LEMMA FlatTyped ==
    ASSUME NEW M, NEW s \in Seq(Seq(M))
    PROVE  FlattenSeq(s) \in Seq(M)
  <1>1. CASE s = <<>>
    BY <1>1 DEF FlattenSeq
  <1>2. CASE s # <<>>
    <2>1. PICK F : Joins(F, M, s)
      BY <1>2, Joined
    <2>2. Len(s) \in 1 .. Len(s)
      BY <1>2
    <2> QED
      BY <2>1, <2>2 DEF Joins
  <1> QED
    BY <1>1, <1>2

\* One sequence more.
LEMMA FlatAppend ==
    ASSUME NEW M, NEW s \in Seq(Seq(M)), NEW x \in Seq(M)
    PROVE  FlattenSeq(Append(s, x)) = FlattenSeq(s) \o x
  <1> DEFINE t == Append(s, x)
             n == Len(s)
  <1>0. /\ n \in Nat /\ t \in Seq(Seq(M)) /\ t # <<>> /\ Len(t) = n + 1
        /\ t[n + 1] = x /\ \A k \in 1 .. n : t[k] = s[k]
    <2> DEFINE S == Seq(M)
    <2>1. s \in Seq(S) /\ x \in S
      OBVIOUS
    <2> HIDE DEF S
    <2>2. n \in Nat /\ t \in Seq(S)
      BY <2>1
    <2>3. t # <<>> /\ Len(t) = n + 1 /\ t[n + 1] = x
      BY <2>1
    <2>4. \A k \in 1 .. n : t[k] = s[k]
      BY <2>1
    <2> QED
      BY <2>2, <2>3, <2>4 DEF S
  <1> HIDE DEF t
  <1>1. PICK G : Joins(G, M, t)
    BY <1>0, Joined
  <1>2. /\ G[1] = t[1] /\ FlattenSeq(t) = G[n + 1]
        /\ \A k \in 1 .. n + 1 : k # 1 => G[k] = G[k - 1] \o t[k]
    BY <1>0, <1>1 DEF Joins
  <1>3. CASE s = <<>>
    <2>1. n = 0 /\ FlattenSeq(s) = <<>>
      BY <1>3 DEF FlattenSeq
    <2>2. FlattenSeq(t) = x
      BY <1>0, <1>2, <2>1
    <2>3. <<>> \o x = x
      OBVIOUS
    <2> QED
      BY <2>1, <2>2, <2>3 DEF t
  <1>4. CASE s # <<>>
    <2>1. PICK F : Joins(F, M, s)
      BY <1>4, Joined
    <2>2. /\ F[1] = s[1] /\ FlattenSeq(s) = F[n]
          /\ \A k \in 1 .. n : k # 1 => F[k] = F[k - 1] \o s[k]
      BY <2>1 DEF Joins
    <2>3. n # 0 /\ 1 \in 1 .. n /\ n \in 1 .. n /\ 1 \in Nat
      BY <1>4
    <2> HIDE DEF n
    <2> DEFINE holds == {k \in 1 .. n : G[k] = F[k]}
    <2>4. 1 \in holds
      BY <1>0, <1>2, <2>2, <2>3
    <2>5. ASSUME NEW k \in 1 .. n, k \in holds, k < n
          PROVE  k + 1 \in holds
      <3>1. k + 1 \in 1 .. n /\ k + 1 \in 1 .. n + 1 /\ k + 1 # 1 /\ (k + 1) - 1 = k
        BY <1>0, <2>5
      <3>2. G[k + 1] = G[k] \o t[k + 1] /\ F[k + 1] = F[k] \o s[k + 1]
        BY <1>2, <2>2, <3>1
      <3> QED
        BY <1>0, <2>5, <3>1, <3>2
    <2> HIDE DEF holds
    <2>6. \A k \in 1 .. n : k \in holds
      BY <1>0, <2>3, <2>4, <2>5, Induction
    <2>7. G[n] = F[n]
      BY <2>3, <2>6 DEF holds
    <2>8. n + 1 \in 1 .. n + 1 /\ n + 1 # 1 /\ (n + 1) - 1 = n
      BY <1>0, <2>3
    <2>9. G[n + 1] = G[n] \o x
      BY <1>0, <1>2, <2>8
    <2> QED
      BY <1>2, <2>2, <2>7, <2>9 DEF t
  <1> QED
    BY <1>3, <1>4

LEMMA FixedTyped ==
    ASSUME NEW k \in Nat,
           NEW by \in {"tools", "small", "summary", "forced", "compress", "transcript", "describe"}
    PROVE  Fixed(by, k) \in Message
  BY DEF Fixed, Message

LEMMA TextsAreMessages == Text \subseteq Message /\ Seq(Text) \subseteq Seq(Message)
  <1>1. Text \subseteq Message
    BY DEF Text, Message
  <1> HIDE DEF Text, Message
  <1> QED
    BY <1>1

\* What precedes the turns in a prompt.
Preamble(sys) ==
    <<Fixed(IF sys THEN "tools" ELSE "small", 0)>>
        \o (IF folds = 0 THEN <<>> ELSE <<Fixed("summary", folds)>>)
LEMMA PreambleTyped ==
    ASSUME folds \in Nat, NEW sys \in BOOLEAN
    PROVE  Preamble(sys) \in Seq(Message) /\ Len(Preamble(sys)) \in Nat \ {0}
  <1> DEFINE a == <<Fixed(IF sys THEN "tools" ELSE "small", 0)>>
             b == IF folds = 0 THEN <<>> ELSE <<Fixed("summary", folds)>>
  <1>1. a \in Seq(Message) /\ Len(a) = 1
    <2>1. Fixed("tools", 0) \in Message /\ Fixed("small", 0) \in Message
      BY FixedTyped
    <2> QED
      BY <2>1
  <1>2. b \in Seq(Message)
    <2>1. Fixed("summary", folds) \in Message
      BY FixedTyped
    <2> QED
      BY <2>1
  <1> HIDE DEF a, b
  <1>3. a \in Seq(Message) /\ b \in Seq(Message)
    BY <1>1, <1>2
  <1>4. a \o b \in Seq(Message) /\ Len(a \o b) = Len(a) + Len(b)
    BY <1>3, Concat
  <1>5. Len(b) \in Nat
    BY <1>2
  <1> QED
    BY <1>1, <1>4, <1>5 DEF Preamble, a, b

Turned(h) == [k \in 1 .. Len(h) |-> h[k].messages]
LEMMA TurnedTyped ==
    ASSUME NEW h \in Seq(Past)
    PROVE  Turned(h) \in Seq(Seq(Message))
  <1> DEFINE S == Seq(Message)
  <1>0. \A k \in 1 .. Len(h) : h[k] \in Past
    OBVIOUS
  <1>1. \A k \in 1 .. Len(h) : h[k].messages \in S
    BY <1>0 DEF Past
  <1> HIDE DEF S
  <1>2. Len(h) \in Nat
    OBVIOUS
  <1>3. [k \in 1 .. Len(h) |-> h[k].messages] \in Seq(S)
    BY <1>1, <1>2
  <1> QED
    BY <1>3 DEF Turned, S

LEMMA RenderedTyped ==
    ASSUME folds \in Nat, NEW h \in Seq(Past), NEW sys \in BOOLEAN
    PROVE  /\ include => Rendered(h, sys) = Preamble(sys) \o FlattenSeq(Turned(h))
           /\ Rendered(h, sys) \in Seq(Message) /\ Rendered(h, sys) # <<>>
           /\ ~include => Len(Rendered(h, sys)) = 1
  <1>1. include => Rendered(h, sys) = Preamble(sys) \o FlattenSeq(Turned(h))
    BY DEF Rendered, Preamble, Turned
  <1> DEFINE a == Preamble(sys)
             b == FlattenSeq(Turned(h))
  <1>2. a \in Seq(Message) /\ Len(a) \in Nat \ {0}
    BY PreambleTyped
  <1>3. b \in Seq(Message)
    BY TurnedTyped, FlatTyped
  <1> HIDE DEF a, b
  <1>4. a \o b \in Seq(Message) /\ a \o b # <<>>
    BY <1>2, <1>3
  <1>5. ASSUME ~include
        PROVE  /\ Rendered(h, sys) \in Seq(Message) /\ Rendered(h, sys) # <<>>
               /\ Len(Rendered(h, sys)) = 1
    <2> DEFINE m == Fixed(IF sys THEN "tools" ELSE "small", 0)
    <2>1. Rendered(h, sys) = <<m>>
      BY <1>5 DEF Rendered
    <2>2. m \in Message
      BY FixedTyped
    <2> HIDE DEF m
    <2> QED
      BY <2>1, <2>2
  <1> QED
    BY <1>1, <1>4, <1>5 DEF a, b

\* A turn more is rendered at the end.
LEMMA RenderedAppend ==
    ASSUME include, folds \in Nat, NEW h \in Seq(Past), NEW sys \in BOOLEAN, NEW e \in Past
    PROVE  Rendered(Append(h, e), sys) = Rendered(h, sys) \o e.messages
  <1> DEFINE g == Append(h, e)
             a == Preamble(sys)
             b == FlattenSeq(Turned(h))
             m == e.messages
  <1>1. g \in Seq(Past) /\ Len(g) = Len(h) + 1 /\ Len(h) \in Nat /\ g[Len(h) + 1] = e
        /\ \A k \in 1 .. Len(h) : g[k] = h[k]
    OBVIOUS
  <1>2. a \in Seq(Message) /\ b \in Seq(Message) /\ m \in Seq(Message)
    BY PreambleTyped, TurnedTyped, FlatTyped DEF Past
  <1>3. Turned(g) = Append(Turned(h), m)
    <2> DEFINE t == Turned(h)
    <2>1. Len(t) = Len(h) /\ t \in Seq(Seq(Message)) /\ \A k \in 1 .. Len(h) : t[k] = h[k].messages
      BY <1>1, TurnedTyped DEF Turned
    <2> HIDE DEF t
    <2>2. /\ Append(t, m) = [k \in 1 .. Len(h) + 1 |-> IF k = Len(h) + 1 THEN m ELSE t[k]]
      BY <1>1, <2>1
    <2>3. Turned(g) = [k \in 1 .. Len(h) + 1 |-> g[k].messages]
      BY <1>1 DEF Turned
    <2>4. \A k \in 1 .. Len(h) + 1 : g[k].messages = IF k = Len(h) + 1 THEN m ELSE t[k]
      BY <1>1, <2>1
    <2> QED
      BY <2>2, <2>3, <2>4 DEF t
  <1>4. FlattenSeq(Turned(g)) = b \o m
    BY <1>2, <1>3, TurnedTyped, FlatAppend
  <1>5. Rendered(g, sys) = a \o FlattenSeq(Turned(g)) /\ Rendered(h, sys) = a \o b
    BY <1>1, RenderedTyped
  <1> HIDE DEF a, b, g, m
  <1>6. a \o (b \o m) = (a \o b) \o m
    BY SMTT(30), <1>2, ConcatAssociative
  <1> QED
    BY <1>4, <1>5, <1>6 DEF g, m

\* The prompts of a turn.
LEMMA PromptTyped ==
    ASSUME ConversationTypeOK, working \in Seq(Text)
    PROVE  /\ Prompt \in Seq(Message) /\ Prompt # <<>>
           /\ ~include => Len(Prompt) = Len(working) + 1
           /\ WrapPrompt \in Seq(Message) /\ DescribePrompt \in Seq(Message)
  <1> DEFINE a == Rendered(history, system)
             f == Fixed("forced", 0)
  <1>1. a \in Seq(Message) /\ a # <<>> /\ (~include => Len(a) = 1)
    BY RenderedTyped DEF ConversationTypeOK
  <1>2. working \in Seq(Message)
    BY TextsAreMessages
  <1>3. f \in Message /\ Fixed("describe", 0) \in Message
    BY FixedTyped
  <1> HIDE DEF a, f
  <1>4. /\ a \o working \in Seq(Message) /\ a \o working # <<>>
        /\ Len(a \o working) = Len(a) + Len(working)
    BY <1>1, <1>2
  <1>5. Prompt \in Seq(Message) /\ Prompt # <<>> /\ Len(Prompt) = Len(a) + Len(working)
    BY <1>4 DEF Prompt, a
  <1>8. Len(working) \in Nat
    BY <1>2
  <1>9. ASSUME ~include PROVE Len(Prompt) = Len(working) + 1
    <2>1. Len(a) = 1
      BY <1>1, <1>9
    <2>2. Len(Prompt) = 1 + Len(working)
      BY <1>5, <2>1
    <2> QED
      BY <1>8, <2>2
  <1>6. Prompt \o <<f>> \in Seq(Message)
    BY <1>3, <1>5
  <1>7. <<Fixed("describe", 0)>> \in Seq(Message)
    BY <1>3
  <1> QED
    BY <1>5, <1>6, <1>7, <1>9 DEF WrapPrompt, DescribePrompt, f

\* Notes in the place of pictures.
LEMMA NotesTyped ==
    ASSUME NEW h \in Seq(Past)
    PROVE  WithNotes(h) \in Seq(Past)
  <1> DEFINE note(e) == [messages |-> [e.messages EXCEPT ![1].by = "note"], image |-> FALSE]
  <1>1. ASSUME NEW e \in Past PROVE note(e) \in Past
    <2> DEFINE m == e.messages
               n == [m EXCEPT ![1].by = "note"]
    <2>1. m \in Seq(Message)
      BY DEF Past
    <2>2. Len(m) \in Nat /\ DOMAIN m = 1 .. Len(m) /\ \A k \in 1 .. Len(m) : m[k] \in Message
      BY <2>1
    <2> HIDE DEF m
    <2>3. n = [k \in 1 .. Len(m) |-> IF k = 1 THEN [m[1] EXCEPT !.by = "note"] ELSE m[k]]
      BY <2>2
    <2>4. ASSUME 1 \in 1 .. Len(m) PROVE [m[1] EXCEPT !.by = "note"] \in Message
      BY <2>2, <2>4 DEF Message
    <2>5. \A k \in 1 .. Len(m) : n[k] \in Message
      BY <2>2, <2>3, <2>4
    <2> HIDE DEF n
    <2>6. n \in Seq(Message)
      <3>1. \E l \in Nat : n \in [1 .. l -> Message]
        BY <2>2, <2>3, <2>5
      <3> QED
        BY <3>1
    <2> QED
      BY <2>6 DEF Past, n, m
  <1> HIDE DEF note
  <1>2. Len(h) \in Nat /\ \A k \in 1 .. Len(h) : h[k] \in Past
    OBVIOUS
  <1>3. [k \in 1 .. Len(h) |-> IF h[k].image THEN note(h[k]) ELSE h[k]] \in Seq(Past)
    BY <1>1, <1>2
  <1> QED
    BY <1>3 DEF WithNotes, note

\* A turn that carried a picture is rewritten before the next prompt.
LEMMA PictureIsNoted ==
    ASSUME ~ReuseImages, NEW h \in Seq(Past), NEW e \in Past, e.image
    PROVE  WithNotes(Append(h, e)) # Append(h, e)
  <1> DEFINE g == Append(h, e)
             n == Len(h) + 1
  <1>1. n \in 1 .. Len(g) /\ g[n] = e
    OBVIOUS
  <1> HIDE DEF g, n
  <1>2. WithNotes(g)[n].image = FALSE
    BY <1>1 DEF WithNotes
  <1> QED
    BY <1>1, <1>2 DEF g

-----------------------------------------------------------------------------
(* The steps that do not concern the driver or the session.                  *)

\* A refusal for the language is answered with a nudge that stays in the KV cache
\* when the runtime puts a sentence of its own in the answer's place, and so is the
\* description of a picture that stays in the history.
HonestRefusals ==
    /\ "language" \in Refusals => Kinds \subseteq {"chat", "greeting", "describe"}
    /\ ReuseImages => "image" \notin Refusals

\* The runtime's answer to a recall is stored before it can be refused, and is not in
\* the prompt that follows the refusal.
AnchoredRefusals ==
    "recall" \in Kinds => "language" \notin Refusals /\ (ReuseImages => "image" \notin Refusals)

LEMMA SamePrompt ==
    ASSUME UNCHANGED <<history, system, folds, include, working>>
    PROVE  Prompt' = Prompt
  BY DEF Prompt, Rendered

\* What the shapes speak of, where the driver and the session stay as they are.
LEMMA SameDriver ==
    ASSUME UNCHANGED <<session, driver>>
    PROVE  /\ Agreed' = Agreed /\ Agree(kv, cached)' = Agree(kv, cached)
           /\ engine' = engine /\ cached' = cached
           /\ working' = working => Prompt' = Prompt /\ D!Covers(Prompt)' = D!Covers(Prompt)
  <1>1. UNCHANGED <<history, system, folds, include>> /\ UNCHANGED <<kv, cached, engine>>
    BY DEF session, driver
  <1>2. Agreed' = Agreed /\ Agree(kv, cached)' = Agree(kv, cached)
    BY <1>1 DEF Agreed, Agree
  <1>3. working' = working => Prompt' = Prompt
    BY <1>1, SamePrompt
  <1>4. working' = working => D!Covers(Prompt)' = D!Covers(Prompt)
    BY <1>1, <1>3 DEF D!Covers, D!Extends, D!IsPrefix
  <1> QED
    BY <1>1, <1>2, <1>3, <1>4

LEMMA QuietHonest ==
    ASSUME TypeOK, Regular, HonestInv, ConversationTypeOK, Quiet, HonestRefusals
    PROVE  HonestInv'
  <1>0. /\ reply \in Reply /\ output \in Output
        /\ messages \in Seq(Text) /\ working \in Seq(Text)
        /\ Prompt \in Seq(Message) /\ Prompt # <<>>
        /\ \A by \in Authors : Written(by) # NoText /\ Written(by).by = by
    BY WrittenNotNoText, PromptTyped DEF TypeOK, Written
  <1>d. /\ Agreed' = Agreed /\ Agree(kv, cached)' = Agree(kv, cached)
        /\ engine' = engine /\ cached' = cached
        /\ working' = working => Prompt' = Prompt /\ D!Covers(Prompt)' = D!Covers(Prompt)
    BY SameDriver DEF Quiet
  <1> USE <1>0, <1>d DEF HonestInv, LoopHonest, OutputHonest, DraftHonest, EndHonest, IdleHonest,
                         InLoop, AfterLoop, GivenUp, Noted, Unmatched, Said
  <1>1. CASE PressStop
    <2>1. EndHonest'
      BY <1>1 DEF PressStop, LostAnswer, NativeAnswer, HonestAnswer
    <2>2. LoopHonest' /\ OutputHonest'
      BY <1>1 DEF PressStop
    <2>3. DraftHonest' /\ IdleHonest'
      BY <1>1 DEF PressStop, OwnAnswer, NativeAnswer, Stored
    <2> QED
      BY <2>1, <2>2, <2>3
  <1>2. CASE Cancelled
    BY <1>2 DEF Cancelled
  <1>3. CASE OutOfSteps
    BY <1>3 DEF OutOfSteps, LostAnswer
  <1>4. CASE GenerationFailed
    BY <1>4 DEF GenerationFailed
  <1>5. CASE NudgeEmpty \/ NudgeBroken \/ NudgeCall
    BY <1>5 DEF NudgeEmpty, NudgeBroken, NudgeCall, Nudge
  <1>6. CASE \E ok \in BOOLEAN : RunTool(ok)
    BY <1>6 DEF RunTool, Taken, LostAnswer
  <1>7. CASE UnknownTool
    BY <1>7 DEF UnknownTool, Taken
  <1>8. CASE Draft
    BY <1>8 DEF Draft, Drafting, Taken, Cleaned, Reply, Stored, OwnAnswer
  <1>9. CASE Native
    BY <1>9 DEF Native, Drafting, Taken, Authors, Assistants, NativeAnswer
  <1>10. CASE AskLanguage
    BY <1>10 DEF AskLanguage, Nudge, HonestRefusals, Regular, NativeAnswer
  <1>11. CASE AskGreeting
    BY <1>11 DEF AskGreeting, Nudge, NativeAnswer
  <1>12. CASE AskImage
    BY <1>12 DEF AskImage, CanAskImage, ImageRefused, Nudge, HonestRefusals
  <1>13. CASE Accept(FALSE)
    <2>1. /\ pc = "draft" /\ pc' = "wrap"
          /\ reply'.text = reply.text
          /\ reply'.verbatim = (reply.text = Trimmed)
          /\ reply'.matches = (reply.text # NoText /\ ~reply.replaced /\ output.kind # "empty")
          /\ UNCHANGED <<intent, output, working, needsFull>>
      BY <1>13 DEF Accept, Reply
    <2>2. CASE Noted \/ reply.text = NoText
      BY <2>1, <2>2
    <2>3. CASE reply.replaced /\ NativeAnswer
      <3>1. reply.text # Trimmed
        BY <2>1, <2>3 DEF Trimmed, NoText, NativeAnswer, Regular
      <3>2. reply.text # NoText
        BY <2>3 DEF NoText, NativeAnswer
      <3> QED
        BY <2>1, <2>3, <3>1, <3>2 DEF LostAnswer, NativeAnswer
    <2>4. CASE OwnAnswer /\ ~Noted /\ reply.text # NoText
      <3>1. /\ reply.text = Stored /\ output.kind \in {"text", "broken"}
            /\ ~reply.replaced /\ output.text.by = "model" /\ ~needsFull
            /\ engine = cached /\ cached = Prompt \o <<output.text>>
        BY <2>1, <2>4 DEF OwnAnswer, Regular
      <3>2. IsAssistant(reply.text)
        BY <2>1, <3>1 DEF IsAssistant, Stored, Assistants, TypeOK, Text
      <3>3. cached = Append(Prompt, output.text) /\ cached # <<>>
        BY <3>1
      <3>4. Agree(kv, cached)
        BY <2>1, <3>1, <3>3 DEF Agreed
      <3>5. HonestAnswer'
        BY <2>1, <2>4, <3>1, <3>2, <3>3, <3>4 DEF HonestAnswer
      <3> QED
        BY <2>1, <3>5
    <2> QED
      BY <2>1, <2>2, <2>3, <2>4
  <1>14. CASE NoWrapUp
    BY <1>14 DEF NoWrapUp, LostAnswer, NativeAnswer, HonestAnswer
  <1>15. CASE ShowValue
    BY <1>15 DEF ShowValue, ShowInstead, LostAnswer, NativeAnswer, HonestAnswer, IsAssistant,
                 Authors, Assistants, Reply
  <1>16. CASE ShowAnswer
    BY <1>16 DEF ShowAnswer, LostAnswer, NativeAnswer, HonestAnswer
  <1>17. CASE ShowFallback
    BY <1>17 DEF ShowFallback, LostAnswer, NativeAnswer, HonestAnswer
  <1>18. CASE Complete
    <2>1. ~LostAnswer
      BY <1>18 DEF Complete, CanCount, CanAcknowledge, MustNote, LostAnswer, NativeAnswer
    <2>2. PICK by \in Assistants : ShowInstead(by)
      BY <1>18 DEF Complete, Assistants
    <2>3. by \in Authors
      BY DEF Authors
    <2>4. /\ reply'.text = Written(by) /\ reply'.matches
          /\ output' = output /\ Prompt' = Prompt
      BY <1>18, <2>2 DEF Complete, ShowInstead, Reply
    <2>5. Written(by) # NoText /\ IsAssistant(Written(by))
      BY <2>3 DEF IsAssistant
    <2>6. HonestAnswer => HonestAnswer'
      BY <2>4, <2>5 DEF HonestAnswer
    <2> QED
      BY <1>18, <2>1, <2>6 DEF Complete
  <1>19. CASE Keep
    BY <1>19 DEF Keep, LostAnswer, NativeAnswer, HonestAnswer
  <1> QED
    BY <1>1, <1>2, <1>3, <1>4, <1>5, <1>6, <1>7, <1>8, <1>9, <1>10, <1>11, <1>12, <1>13,
       <1>14, <1>15, <1>16, <1>17, <1>18, <1>19 DEF Quiet

\* The answer takes the place of the last one, or follows the prompt.
LEMMA AnswerPlaced ==
    ASSUME messages \in Seq(Text), working \in Seq(Text), Asked, NEW m \in Text,
           \/ messages = working
           \/ \E t \in Text : IsAssistant(t) /\ messages = Append(working, t)
    PROVE  ReplaceLast(messages, m) = Append(working, m)
  <1>1. CASE messages = working
    BY <1>1 DEF Asked, ReplaceLast
  <1>2. ASSUME NEW t \in Text, IsAssistant(t), messages = Append(working, t)
        PROVE  ReplaceLast(messages, m) = Append(working, m)
    <2>1. messages # <<>> /\ Last(messages) = t /\ Front(messages) = working
      BY <1>2 DEF Last, Front
    <2> QED
      BY <1>2, <2>1 DEF ReplaceLast
  <1> QED
    BY <1>1, <1>2

\* A nudge and an observation are for the model to answer.
LEMMA AskedAgain ==
    ASSUME TypeOK
    PROVE  /\ working' = Append(working, Written("nudge")) => Asked'
           /\ pc = "output" /\ Exchange => Asked'
  <1>1. ASSUME NEW s \in Seq(Text), NEW m \in Text, ~IsAssistant(m), working' = Append(s, m)
        PROVE  Asked'
    <2>1. Append(s, m) # <<>> /\ Last(Append(s, m)) = m
      BY DEF Last
    <2> QED
      BY <1>1, <2>1 DEF Asked
  <1>2. ~IsAssistant(Written("nudge")) /\ ~IsAssistant(Written("tool"))
    BY DEF IsAssistant, Written, Assistants
  <1>3. /\ working \in Seq(Text) /\ messages \in Seq(Text)
        /\ Written("nudge") \in Text /\ Written("tool") \in Text
        /\ pc = "output" => Stored \in Text
    BY StepTexts DEF TypeOK, Authors
  <1>4. ASSUME pc = "output", Exchange PROVE Asked'
    <2>1. working' = messages \o <<Stored, Written("tool")>>
      BY <1>4 DEF Exchange
    <2> DEFINE a == Stored
               b == Written("tool")
    <2>2. a \in Text /\ b \in Text
      BY <1>3, <1>4
    <2> HIDE DEF a, b
    <2>3. messages \o <<a, b>> = Append(Append(messages, a), b) /\ Append(messages, a) \in Seq(Text)
      BY <1>3, <2>2
    <2> QED
      BY <1>1, <1>2, <2>1, <2>2, <2>3 DEF a, b
  <1> QED
    BY <1>1, <1>2, <1>3, <1>4

\* What the runtime puts in the answer's place follows the prompt.
LEMMA ShownFollows ==
    ASSUME TypeOK, Asked, NEW by \in Assistants, ShowInstead(by), working' = working,
           \/ messages = working
           \/ reply.text # NoText /\ IsAssistant(reply.text) /\ messages = Append(working, reply.text)
    PROVE  /\ reply'.matches /\ reply'.text # NoText /\ IsAssistant(reply'.text)
           /\ messages' = Append(working, reply'.text)
  <1>1. Written(by) \in Text /\ Written(by) # NoText /\ Written(by).by = by
    BY StepTexts, WrittenNotNoText DEF Authors, Written
  <1>2. reply'.matches /\ reply'.text = Written(by) /\ messages' = ReplaceLast(messages, Written(by))
    BY DEF ShowInstead, TypeOK, Reply
  <1>3. ReplaceLast(messages, Written(by)) = Append(working, Written(by))
    <2>1. reply.text \in Text \cup {NoText}
      BY DEF TypeOK, Reply
    <2> QED
      BY <1>1, <2>1, AnswerPlaced DEF TypeOK
  <1> QED
    BY <1>1, <1>2, <1>3 DEF IsAssistant

\* The accepted answer follows the prompt, unless the runtime's is stored twice.
LEMMA AcceptAnchored ==
    ASSUME TypeOK, Regular, AnchorInv, NEW described \in BOOLEAN, Accept(described)
    PROVE  AnchorInv'
  <1>1. /\ pc = "draft" /\ pc' = "wrap"
        /\ reply'.text = reply.text
        /\ reply'.verbatim = (reply.text = Trimmed)
        /\ reply'.matches = (reply.text # NoText /\ ~reply.replaced /\ output.kind # "empty")
        /\ messages' = Append(messages, IF reply.text = NoText THEN Stored ELSE reply.text)
        /\ UNCHANGED <<intent, output, working, needsFull>>
    BY DEF Accept, Push, TypeOK, Reply
  <1>2. Asked'
    BY <1>1 DEF AnchorInv, LoopAnchored, InLoop, Asked
  <1> USE DEF AnchorInv, LoopAnchored, DraftAnchored, EndAnchored, IdleAnchored, InLoop,
              AfterLoop, GivenUp, Noted, Unmatched
  <1>3. CASE Noted \/ reply.text = NoText
    BY <1>1, <1>2, <1>3
  <1>4. CASE reply.replaced /\ NativeAnswer
    <2>1. reply.text.by = "native" /\ output.text \in Text
      BY <1>1, <1>4 DEF NativeAnswer, TypeOK
    <2>2. reply.text # NoText
      BY <2>1 DEF NoText
    <2>3. output.text.by = "model"
      BY <1>1 DEF Regular
    <2>4. reply.text # Trimmed
      BY <2>1, <2>2, <2>3 DEF Trimmed
    <2> QED
      BY <1>1, <1>2, <1>4, <2>2, <2>4 DEF NativeAnswer
  <1>5. CASE OwnAnswer /\ ~Noted /\ reply.text # NoText
    <2>1. /\ reply.text = Stored /\ output.kind \in {"text", "broken"} /\ ~reply.replaced
          /\ output.text.by = "model" /\ working = messages
      BY <1>1, <1>5 DEF OwnAnswer, Regular
    <2>2. IsAssistant(reply.text)
      BY <1>1, <2>1 DEF IsAssistant, Stored, Assistants, TypeOK, Text
    <2> QED
      BY <1>1, <1>2, <1>5, <2>1, <2>2
  <1> QED
    BY <1>1, <1>3, <1>4, <1>5

LEMMA QuietAnchored ==
    ASSUME TypeOK, Regular, AnchorInv, Quiet, AnchoredRefusals
    PROVE  AnchorInv'
  <1>0. /\ reply \in Reply /\ output \in Output
        /\ messages \in Seq(Text) /\ working \in Seq(Text)
        /\ \A by \in Authors : Written(by) # NoText /\ Written(by).by = by
    BY WrittenNotNoText DEF TypeOK, Written
  <1>a. working' = working => Asked' = Asked
    BY DEF Asked
  <1> USE <1>0, <1>a DEF AnchorInv, LoopAnchored, DraftAnchored, EndAnchored, IdleAnchored,
                         InLoop, AfterLoop, GivenUp, Noted, Unmatched
  <1>1. CASE PressStop
    BY <1>1 DEF PressStop, OwnAnswer, NativeAnswer, Stored
  <1>2. CASE Cancelled
    BY <1>2 DEF Cancelled
  <1>3. CASE OutOfSteps
    BY <1>3 DEF OutOfSteps
  <1>4. CASE GenerationFailed
    BY <1>4 DEF GenerationFailed
  <1>5. CASE NudgeEmpty \/ NudgeBroken \/ NudgeCall
    BY <1>5, AskedAgain DEF NudgeEmpty, NudgeBroken, NudgeCall, Nudge, Push
  <1>6. CASE \E ok \in BOOLEAN : RunTool(ok)
    BY <1>6, AskedAgain DEF RunTool, Taken, Exchange
  <1>7. CASE UnknownTool
    BY <1>7, AskedAgain DEF UnknownTool, Taken, Exchange
  <1>8. CASE Draft
    BY <1>8 DEF Draft, Drafting, Taken, Cleaned, Reply, Stored, OwnAnswer
  <1>9. CASE Native
    BY <1>9 DEF Native, Drafting, Taken, Authors, Assistants, NativeAnswer
  <1>10. CASE AskLanguage
    BY <1>10, AskedAgain DEF AskLanguage, Nudge, Push, AnchoredRefusals, Regular, NativeAnswer
  <1>11. CASE AskGreeting
    BY <1>11, AskedAgain DEF AskGreeting, Nudge, Push, NativeAnswer
  <1>12. CASE AskImage
    BY <1>12, AskedAgain DEF AskImage, CanAskImage, ImageRefused, Nudge, Push,
                             AnchoredRefusals, Regular, NativeAnswer
  <1>13. CASE Accept(FALSE)
    BY <1>13, AcceptAnchored DEF Accept
  <1>14. CASE NoWrapUp
    BY <1>14 DEF NoWrapUp, NativeAnswer
  <1>15. CASE ShowValue
    BY <1>15, ShownFollows DEF ShowValue, NativeAnswer, Assistants
  <1>16. CASE ShowAnswer
    BY <1>16 DEF ShowAnswer, NativeAnswer
  <1>17. CASE ShowFallback
    BY <1>17 DEF ShowFallback
  <1>18. CASE Complete
    <2>1. ~NativeAnswer
      BY <1>18 DEF Complete, CanCount, CanAcknowledge, MustNote, NativeAnswer
    <2>2. PICK by \in Assistants : ShowInstead(by)
      BY <1>18 DEF Complete, Assistants
    <2> QED
      BY <1>18, <2>1, <2>2, ShownFollows DEF Complete
  <1>19. CASE Keep
    BY <1>19 DEF Keep, NativeAnswer
  <1> QED
    BY <1>1, <1>2, <1>3, <1>4, <1>5, <1>6, <1>7, <1>8, <1>9, <1>10, <1>11, <1>12, <1>13,
       <1>14, <1>15, <1>16, <1>17, <1>18, <1>19 DEF Quiet

-----------------------------------------------------------------------------
(* The steps that use the driver.                                            *)

LEMMA AnswersTyped ==
    ASSUME NEW kind \in OutputKinds, NEW text \in Message, NEW a \in Answers(kind, text)
    PROVE  /\ a[1] \in Seq(Message) /\ a[2] # "threw"
           /\ kind # "failed" =>
                 a[2] = "ok" /\ a[1] = IF kind = "empty" THEN <<>> ELSE <<text>>
  <1>1. <<>> \in Seq(Message) /\ <<text>> \in Seq(Message)
    OBVIOUS
  <1>2. CASE kind = "failed"
    <2>1. a = <<<<>>, "mismatch">> \/ a = <<<<text>>, "splice">>
      BY <1>2 DEF Answers
    <2>2. (a[1] = <<>> \/ a[1] = <<text>>) /\ a[2] # "threw"
      BY <2>1
    <2> QED
      BY <1>1, <1>2, <2>2
  <1>3. CASE kind = "empty"
    <2>1. a = <<<<>>, "ok">>
      BY <1>3 DEF Answers
    <2> QED
      BY <1>1, <1>3, <2>1
  <1>4. CASE kind \notin {"failed", "empty"}
    <2>1. a = <<<<text>>, "ok">>
      BY <1>4 DEF Answers
    <2> QED
      BY <1>1, <1>4, <2>1
  <1> QED
    BY <1>2, <1>3, <1>4

\* What the driver keeps whatever the runtime asks of it.
DriverOK == KvTyped /\ D!InStep /\ D!NeverRewinds

\* The model writes a step of the turn.
LEMMA GenerateKeeps ==
    ASSUME TypeOK, ConversationTypeOK, DriverOK, GenerateStep
    PROVE  DriverOK' /\ (HonestInv => HonestInv') /\ (AnchorInv => AnchorInv')
  <1>1. PICK kind \in OutputKinds, raw \in BOOLEAN :
            /\ Generate(kind, raw)
            /\ \E a \in Answers(kind, output'.text) :
                  IF needsFull THEN D!Full(Prompt, a[1], a[2]) ELSE D!Delta(Prompt, a[1], a[2])
    BY DEF GenerateStep
  <1> DEFINE t == output'.text
  <1>2. /\ pc = "loop" /\ pc' = "output" /\ needsFull' = FALSE
        /\ output' = [kind |-> kind,
                      text |-> [turn |-> turn, gen |-> gens + 1, by |-> "model", raw |-> raw]]
        /\ UNCHANGED <<intent, messages, working, reply>>
    BY <1>1 DEF Generate
  <1>3. t.by = "model" /\ t \in Message /\ output'.kind = kind
    <2>1. t \in Text
      BY <1>2, OutputTyped DEF TypeOK
    <2> QED
      BY <1>2, <2>1, TextsAreMessages
  <1> HIDE DEF t
  <1>4. PICK a \in Answers(kind, t) :
            IF needsFull THEN D!Full(Prompt, a[1], a[2]) ELSE D!Delta(Prompt, a[1], a[2])
    BY <1>1 DEF t
  <1>5. /\ a[1] \in Seq(Message) /\ a[2] # "threw"
        /\ kind # "failed" => a[2] = "ok" /\ a[1] = IF kind = "empty" THEN <<>> ELSE <<t>>
    BY <1>3, AnswersTyped
  <1>6. Prompt \in Seq(Message) /\ Prompt' = Prompt
    <2>1. UNCHANGED <<history, system, folds, include, working>>
      BY <1>2 DEF GenerateStep, session
    <2> QED
      BY <2>1, SamePrompt, PromptTyped DEF TypeOK
  <1>7. /\ DriverOK' /\ (Agreed \/ ~D!Covers(Prompt) \/ needsFull => Agreed')
        /\ a[2] # "mismatch" => engine' = cached' /\ cached' = Prompt \o a[1]
    <2>1. CASE needsFull
      <3>1. D!Full(Prompt, a[1], a[2])
        BY <1>4, <2>1
      <3> QED
        BY <1>5, <1>6, <3>1, FullDrives DEF DriverOK
    <2>2. CASE ~needsFull
      <3>1. D!Delta(Prompt, a[1], a[2])
        BY <1>4, <2>2
      <3> QED
        BY <1>5, <1>6, <2>2, <3>1, DeltaDrives DEF DriverOK
    <2> QED
      BY <2>1, <2>2
  <1>8. HonestInv => LoopHonest'
    BY <1>2, <1>7 DEF HonestInv, LoopHonest, InLoop, Noted, Unmatched
  <1>9. OutputHonest'
    <2>1. kind # "failed" => engine' = cached' /\ cached' = Prompt' \o Said'
      BY <1>3, <1>5, <1>6, <1>7 DEF Said, t
    <2> QED
      BY <1>2, <1>3, <2>1 DEF OutputHonest
  <1>10. DraftHonest' /\ EndHonest' /\ IdleHonest'
    BY <1>2 DEF DraftHonest, EndHonest, IdleHonest, AfterLoop
  <1>11. AnchorInv => LoopAnchored'
    BY <1>2 DEF AnchorInv, LoopAnchored, InLoop, Asked, Noted, Unmatched
  <1>12. DraftAnchored' /\ EndAnchored' /\ IdleAnchored'
    BY <1>2 DEF DraftAnchored, EndAnchored, IdleAnchored, AfterLoop
  <1> QED
    BY <1>7, <1>8, <1>9, <1>10, <1>11, <1>12 DEF HonestInv, AnchorInv

\* The wrap-up's prompt is not the conversation's: the KV cache is given up.
LEMMA WrapUpKeeps ==
    ASSUME TypeOK, ConversationTypeOK, DriverOK, WrapUpStep
    PROVE  DriverOK' /\ HonestInv' /\ (AnchorInv => AnchorInv')
  <1>1. PICK kind \in {"empty", "debris", "text"}, raw \in BOOLEAN :
            /\ WrapUp(kind, raw)
            /\ \E a \in Answers(kind, output'.text)
                            \cup (IF kind = "empty" THEN Answers("failed", output'.text) ELSE {}) :
                  D!Delta(WrapPrompt, a[1], a[2])
    BY DEF WrapUpStep
  <1>2. /\ pc = "wrap" /\ pc' = "show" /\ needsFull' = TRUE /\ working' = working
        /\ kind \in OutputKinds /\ "failed" \in OutputKinds
    BY <1>1 DEF WrapUp, OutputKinds
  <1>3. output'.text \in Message
    <2>1. output'.text = [turn |-> turn, gen |-> gens + 1, by |-> "model", raw |-> raw]
      BY <1>1 DEF WrapUp
    <2>2. output'.text \in Text
      BY <1>2, <2>1, OutputTyped DEF TypeOK
    <2> QED
      BY <2>2, TextsAreMessages
  <1>4. PICK a : /\ a \in Answers(kind, output'.text) \/ a \in Answers("failed", output'.text)
                 /\ D!Delta(WrapPrompt, a[1], a[2])
    BY <1>1
  <1>5. a[1] \in Seq(Message) /\ a[2] # "threw"
    BY <1>2, <1>3, <1>4, AnswersTyped
  <1>6. DriverOK'
    BY <1>4, <1>5, PromptTyped, DeltaDrives DEF DriverOK, TypeOK
  <1>7. HonestInv'
    BY <1>2 DEF HonestInv, LoopHonest, OutputHonest, DraftHonest, EndHonest, IdleHonest,
                InLoop, GivenUp
  <1>8. AnchorInv => AnchorInv'
    BY <1>2 DEF AnchorInv, LoopAnchored, DraftAnchored, EndAnchored, IdleAnchored,
                InLoop, AfterLoop, Asked, GivenUp
  <1> QED
    BY <1>6, <1>7, <1>8

\* An image is described only in a turn that has one.
LEMMA DescribeKeeps ==
    ASSUME TypeOK, ConversationTypeOK, DriverOK, Regular, DescribeStep
    PROVE  /\ DriverOK'
           /\ HonestRefusals => HonestInv'
           /\ AnchoredRefusals /\ AnchorInv => AnchorInv'
  <1>1. pc = "draft" /\ pc' = "wrap" /\ ImageRefused /\ intent' = intent /\ working' = working
    BY DEF DescribeStep, Describe, Accept
  <1>2. \E r \in Seq(Message) : \E o : o # "threw" /\ D!Full(DescribePrompt, r, o)
    <2>1. CASE Describe
      <3>1. Written("described") \in Message
        <4>1. Written("described") \in Text
          BY StepTexts DEF Authors, Assistants
        <4> QED
          BY <4>1, TextsAreMessages
      <3>2. <<Written("described")>> \in Seq(Message)
        BY <3>1
      <3>3. D!Full(DescribePrompt, <<Written("described")>>, "ok")
        BY <2>1 DEF DescribeStep, Describe, Accept
      <3> QED
        BY <3>2, <3>3
    <2>2. CASE ~Describe
      <3>1. PICK a \in Answers("empty", NoText) \cup Answers("failed", NoText) :
                D!Full(DescribePrompt, a[1], a[2])
        BY <2>2 DEF DescribeStep
      <3>2. NoText \in Message /\ "empty" \in OutputKinds /\ "failed" \in OutputKinds
        BY DEF NoText, Message, OutputKinds
      <3>3. a[1] \in Seq(Message) /\ a[2] # "threw"
        BY <3>1, <3>2, AnswersTyped
      <3> QED
        BY <3>1, <3>3
    <2> QED
      BY <2>1, <2>2
  <1>3. DriverOK'
    BY <1>2, PromptTyped, FullDrives DEF DriverOK, TypeOK
  <1>4. HonestRefusals => HonestInv'
    <2>1. HonestRefusals => Noted'
      BY <1>1 DEF HonestRefusals, ImageRefused, Noted
    <2> QED
      BY <1>1, <2>1 DEF HonestInv, LoopHonest, OutputHonest, DraftHonest, EndHonest, IdleHonest,
                        InLoop, GivenUp
  <1>5. ASSUME AnchoredRefusals, AnchorInv PROVE AnchorInv'
    <2>1. CASE Describe
      <3>1. Asked /\ Asked'
        BY <1>1, <1>5 DEF AnchorInv, LoopAnchored, InLoop, Asked
      <3>2. CASE Noted
        BY <1>1, <3>1, <3>2 DEF AnchorInv, LoopAnchored, DraftAnchored, EndAnchored,
                                IdleAnchored, InLoop, GivenUp, Noted
      <3>3. CASE ~Noted
        <4>1. working = messages
          BY <1>1, <1>5, <3>3 DEF AnchorInv, LoopAnchored, InLoop, NativeAnswer, Noted,
                                  ImageRefused, AnchoredRefusals, Regular
        <4>2. Written("described") \in Text /\ Written("described") # NoText
          BY StepTexts, WrittenNotNoText DEF Authors, Assistants
        <4>3. IsAssistant(Written("described"))
          BY DEF IsAssistant, Written, Assistants
        <4>4. ReplaceLast(messages, Written("described")) = Append(working, Written("described"))
          BY <3>1, <4>1, <4>2, AnswerPlaced DEF TypeOK
        <4>5. /\ messages' = Append(working', reply'.text)
              /\ reply'.matches /\ reply'.text # NoText /\ IsAssistant(reply'.text)
          BY <1>1, <2>1, <4>2, <4>3, <4>4 DEF Describe
        <4> QED
          BY <1>1, <3>1, <4>5 DEF AnchorInv, LoopAnchored, DraftAnchored, EndAnchored,
                                  IdleAnchored, InLoop
      <3> QED
        BY <3>2, <3>3
    <2>2. CASE Accept(TRUE)
      BY <1>5, <2>2, AcceptAnchored
    <2> QED
      BY <2>1, <2>2 DEF DescribeStep
  <1> QED
    BY <1>3, <1>4, <1>5

\* A compaction generates on a KV cache of its own and leaves a shorter history.
LEMMA CompactKeeps ==
    ASSUME ConversationTypeOK, DriverOK, NEW h \in Seq(Past), Compact(h)
    PROVE  DriverOK' /\ folds' \in Nat /\ history' \in Seq(Past)
  <1> DEFINE aux == <<Fixed("compress", 0), Fixed("transcript", folds)>>
             sum == <<Fixed("summary", folds + 1)>>
             rest == SubSeq(h, Len(h) - RecentTurns + 1, Len(h))
  <1>1. folds \in Nat /\ folds + 1 \in Nat /\ RecentTurns \in Nat /\ Len(h) \in Nat
    BY ConversationAssumption DEF ConversationTypeOK
  <1>2. /\ Foldable(h)
        /\ \/ D!Full(aux, sum, "ok") /\ folds' = folds + 1 /\ history' = rest
           \/ D!Full(aux, <<>>, "ok") /\ folds' = folds /\ history' = h
    BY DEF Compact
  <1>3. aux \in Seq(Message) /\ sum \in Seq(Message) /\ <<>> \in Seq(Message)
    <2>1. /\ Fixed("compress", 0) \in Message /\ Fixed("transcript", folds) \in Message
          /\ Fixed("summary", folds + 1) \in Message
      BY <1>1, FixedTyped
    <2> QED
      BY <2>1
  <1>4. rest \in Seq(Past)
    <2>1. Len(h) - RecentTurns \in Nat /\ Len(h) - RecentTurns <= Len(h)
      BY <1>1, <1>2 DEF Foldable
    <2> QED
      BY <2>1, Suffix
  <1> HIDE DEF aux, sum, rest
  <1>5. DriverOK'
    BY <1>2, <1>3, FullDrives DEF DriverOK
  <1> QED
    BY <1>1, <1>2, <1>4, <1>5

\* Rendering the history keeps it one.
LEMMA DegradedTyped ==
    ASSUME NEW h \in Seq(Past)
    PROVE  Degraded(h) \in Seq(Past)
  BY NotesTyped DEF Degraded

\* The next turn: its prompt continues the anchor, or begins with none of what the
\* KV cache holds, unless it is prefilled anew.
LEMMA BeginKeeps ==
    ASSUME TypeOK, ConversationTypeOK, DriverOK, BeginTurn
    PROVE  /\ ConversationTypeOK' /\ DriverOK'
           /\ (HonestInv => HonestInv') /\ (AnchorInv => AnchorInv')
  <1>1. PICK i \in Intent :
            /\ system' = NeedsTools(i) /\ include' = include
            /\ \/ /\ history' = Degraded(history)
                  /\ UNCHANGED <<folds, driver>>
                  /\ BeginWith(turn + 1, i, system' # system \/ history' # history)
               \/ /\ Compact(Degraded(history))
                  /\ BeginWith(turn + 1, i, TRUE)
    BY DEF BeginTurn
  <1>2. /\ pc = "idle" /\ pc' = "loop" /\ working' = messages' /\ reply' = reply
    BY <1>1 DEF BeginWith
  <1>3. HonestInv \/ AnchorInv => reply' = NoReply
    BY <1>2 DEF HonestInv, AnchorInv, IdleHonest, IdleAnchored
  <1>4. Degraded(history) \in Seq(Past) /\ system' \in BOOLEAN /\ include' \in BOOLEAN
    BY <1>1, DegradedTyped DEF ConversationTypeOK, NeedsTools
  <1> DEFINE m == [turn |-> turn + 1, gen |-> 0, by |-> "user", raw |-> FALSE]
  <1>7. Asked' /\ working' = <<m>>
    <2>1. messages' = <<m>>
      BY <1>1 DEF BeginWith
    <2>2. ~IsAssistant(m)
      BY DEF IsAssistant, Assistants
    <2> HIDE DEF m
    <2> QED
      BY <1>2, <2>1, <2>2 DEF Asked, Last
  <1> HIDE DEF m
  <1>5. /\ DriverOK' /\ folds' \in Nat /\ history' \in Seq(Past)
        /\ HonestInv => needsFull' \/ Agreed' \/ TooLong'
    <2>1. CASE Compact(Degraded(history)) /\ BeginWith(turn + 1, i, TRUE)
      <3>1. needsFull'
        BY <2>1 DEF BeginWith
      <3> QED
        BY <1>4, <2>1, <3>1, CompactKeeps
    <2>2. CASE /\ history' = Degraded(history)
               /\ UNCHANGED <<folds, driver>>
               /\ BeginWith(turn + 1, i, system' # system \/ history' # history)
      <3>1. DriverOK' /\ Agreed' = Agreed /\ TooLong' = TooLong
        BY <1>1, <2>2 DEF driver, DriverOK, KvTyped, D!InStep, D!NeverRewinds, Agreed, Agree,
                          TooLong
      <3>2. needsFull' = (needsFull \/ system' # system \/ history' # history)
        BY <2>2 DEF BeginWith
      <3>3. HonestInv /\ ~needsFull' => Agreed \/ TooLong
        BY <1>2, <2>2, <3>2 DEF HonestInv, IdleHonest
      <3> QED
        BY <1>4, <2>2, <3>1, <3>3 DEF ConversationTypeOK
    <2> QED
      BY <1>1, <2>1, <2>2
  <1>9. ConversationTypeOK'
    BY <1>4, <1>5 DEF ConversationTypeOK, DriverOK, KvTyped
  <1>10. TooLong' => ~D!Covers(Prompt)'
    <2> DEFINE f == Fixed(IF system' THEN "tools" ELSE "small", 0)
    <2>1. ASSUME TooLong' PROVE Len(Prompt') = 2
      <3>1. Rendered(history, system)' = <<f>>
        BY <2>1 DEF TooLong, Rendered
      <3>2. Prompt' = <<f>> \o <<m>>
        BY <1>7, <3>1 DEF Prompt
      <3> HIDE DEF f
      <3> QED
        BY <3>2
    <2>2. ASSUME TooLong', D!Covers(Prompt)' PROVE FALSE
      <3>1. Len(cached') <= Len(Prompt')
        BY <2>2 DEF D!Covers, D!Extends, D!IsPrefix
      <3>2. Len(cached') > 2 /\ Len(cached') \in Nat
        BY <1>9, <2>2 DEF ConversationTypeOK, TooLong
      <3>3. Len(Prompt') = 2
        BY <2>1, <2>2
      <3>4. Len(cached') <= 2
        BY <3>1, <3>3
      <3> QED
        BY <3>2, <3>4
    <2> QED
      BY <2>2
  <1>6. HonestInv => HonestInv'
    BY <1>2, <1>3, <1>5, <1>10 DEF HonestInv, LoopHonest, OutputHonest, DraftHonest, EndHonest,
                                   IdleHonest, AfterLoop, Unmatched, NoReply
  <1>8. AnchorInv => AnchorInv'
    BY <1>2, <1>3, <1>7 DEF AnchorInv, LoopAnchored, DraftAnchored, EndAnchored, IdleAnchored,
                            AfterLoop, Unmatched, NoReply
  <1> QED
    BY <1>5, <1>6, <1>8, <1>9

\* Switching the history off or on gives the KV cache up.
LEMMA SwitchKeeps ==
    ASSUME TypeOK, Regular, ConversationTypeOK, DriverOK, SwitchHistory
    PROVE  /\ TypeOK' /\ Regular' /\ ConversationTypeOK' /\ DriverOK'
           /\ (HonestInv => HonestInv') /\ (AnchorInv => AnchorInv')
  <1>1. /\ pc = "idle" /\ pc' = "idle" /\ reply' = reply /\ needsFull' = TRUE
        /\ include' = ~include /\ include' \in BOOLEAN
    BY DEF SwitchHistory
  <1>2. TypeOK' /\ Regular'
    BY DEF SwitchHistory, TypeOK, Regular, AfterLoop
  <1>3. ConversationTypeOK' /\ DriverOK'
    BY <1>1 DEF SwitchHistory, driver, ConversationTypeOK, DriverOK, KvTyped, D!InStep,
                D!NeverRewinds
  <1>4. HonestInv => HonestInv'
    BY <1>1 DEF HonestInv, LoopHonest, OutputHonest, DraftHonest, EndHonest, IdleHonest,
                InLoop, AfterLoop
  <1>5. AnchorInv => AnchorInv'
    BY <1>1 DEF AnchorInv, LoopAnchored, DraftAnchored, EndAnchored, IdleAnchored,
                InLoop, AfterLoop
  <1> QED
    BY <1>2, <1>3, <1>4, <1>5

\* The end of a turn.  Where the KV cache is kept, the anchor is what the next
\* prompt will begin with, and the cache agrees with it.
LEMMA CloseKeeps ==
    ASSUME TypeOK, Regular, ConversationTypeOK, DriverOK, CloseTurn
    PROVE  /\ ConversationTypeOK' /\ DriverOK'
           /\ (HonestInv => HonestInv') /\ (AnchorInv => AnchorInv')
  <1> DEFINE e == [messages |-> messages, image |-> intent.image]
             h == Append(history, e)
             p == Prompt \o <<reply.text>>
  <1>0. messages \in Seq(Message) /\ working \in Seq(Message) /\ intent.image \in BOOLEAN
    BY TextsAreMessages DEF TypeOK, Policy
  <1>1. e \in Past /\ h \in Seq(Past)
    <2>1. e \in Past
      BY <1>0 DEF Past
    <2> HIDE DEF e
    <2> QED
      BY <2>1 DEF ConversationTypeOK
  <1>2. \/ /\ CloseWith(FALSE)
           /\ history' = h
           /\ IF Reanchors THEN D!Sync(p) ELSE UNCHANGED driver
           /\ UNCHANGED <<system, folds, include>>
        \/ /\ CloseWith(TRUE)
           /\ Compact(h)
           /\ UNCHANGED <<system, include>>
    BY DEF CloseTurn
  <1>3. p \in Seq(Message)
    <2>1. reply.text \in Message
      <3>1. reply.text \in Text \cup {NoText}
        BY DEF TypeOK, Reply
      <3>2. NoText \in Message
        BY DEF NoText, Message
      <3> QED
        BY <3>1, <3>2, TextsAreMessages
    <2>2. Prompt \in Seq(Message)
      BY PromptTyped DEF TypeOK
    <2> QED
      BY <2>1, <2>2
  <1>4. pc = "close" /\ pc' = "idle" /\ reply' = NoReply
    BY <1>2 DEF CloseWith
  <1>5. (IdleHonest' => HonestInv') /\ (IdleAnchored' => AnchorInv')
    BY <1>4 DEF HonestInv, LoopHonest, OutputHonest, DraftHonest, EndHonest, AnchorInv,
                LoopAnchored, DraftAnchored, EndAnchored, InLoop, AfterLoop
  <1>6. CASE CloseWith(TRUE) /\ Compact(h) /\ UNCHANGED <<system, include>>
    <2> HIDE DEF h
    <2>1. DriverOK' /\ folds' \in Nat /\ history' \in Seq(Past)
      BY <1>1, <1>6, CompactKeeps
    <2>2. needsFull'
      BY <1>6 DEF CloseWith
    <2>3. IdleHonest' /\ IdleAnchored'
      BY <1>4, <2>2 DEF IdleHonest, IdleAnchored
    <2> QED
      BY <1>5, <1>6, <2>1, <2>3 DEF ConversationTypeOK, DriverOK, KvTyped
  <1>7. CASE /\ CloseWith(FALSE)
             /\ history' = h
             /\ IF Reanchors THEN D!Sync(p) ELSE UNCHANGED driver
             /\ UNCHANGED <<system, folds, include>>
    <2>1. DriverOK' /\ ConversationTypeOK'
      <3> HIDE DEF h, p
      <3>1. DriverOK'
        <4>1. CASE Reanchors
          BY <1>3, <1>7, <4>1 DEF D!Sync, DriverOK, KvTyped, D!InStep, D!NeverRewinds
        <4>2. CASE ~Reanchors
          BY <1>7, <4>2 DEF driver, DriverOK, KvTyped, D!InStep, D!NeverRewinds
        <4> QED
          BY <4>1, <4>2
      <3> QED
        BY <1>1, <1>7, <3>1 DEF ConversationTypeOK, DriverOK, KvTyped
    <2>2. needsFull' = (needsFull \/ Abandons)
      BY <1>7 DEF CloseWith
    <2>4. ASSUME ~needsFull'
          PROVE  ~needsFull /\ stop \notin {"cancelled", "error"} /\ ~Unmatched
      BY <2>2, <2>4 DEF Abandons, Unmatched
    <2>9. include' = include
      BY <1>7
    <2>10. ASSUME ~needsFull', ~include PROVE TooLong'
      <3>1. reply.generated /\ (reply.verbatim \/ reply.matches) /\ ~Abandons
        BY <2>2, <2>10 DEF Abandons
      <3>2. reply.matches
        BY <1>4, <2>4, <2>10, <3>1 DEF Regular
      <3>3. cached' = p
        BY <1>7, <3>1, <3>2 DEF Reanchors, D!Sync
      <3>4. Prompt \in Seq(Message) /\ Len(Prompt) = Len(working) + 1
        BY <2>10, PromptTyped DEF TypeOK
      <3>5. Len(working) \in Nat \ {0}
        BY <1>0, <1>4 DEF Regular
      <3>6. Len(p) = Len(Prompt) + 1 /\ Len(Prompt) \in Nat
        BY <3>4
      <3> HIDE DEF p
      <3>7. Len(cached') > 2
        BY <3>3, <3>4, <3>5, <3>6
      <3> QED
        BY <2>9, <2>10, <3>7 DEF TooLong
    <2>3. ASSUME needsFull' \/ Noted PROVE IdleHonest' /\ IdleAnchored'
      <3>1. CASE needsFull'
        BY <1>4, <3>1 DEF IdleHonest, IdleAnchored
      <3>2. CASE ~needsFull' /\ ~include
        BY <1>4, <2>9, <2>10, <3>2 DEF IdleHonest, IdleAnchored
      <3>3. CASE Noted /\ include
        <4>1. e.image /\ ~ReuseImages
          BY <3>3 DEF Noted
        <4> HIDE DEF e
        <4>2. WithNotes(h) # h
          BY <1>1, <4>1, PictureIsNoted DEF ConversationTypeOK
        <4>3. Degraded(history)' # history'
          BY <1>7, <2>9, <3>3, <4>2 DEF Degraded, WithNotes
        <4> QED
          BY <1>4, <4>3 DEF IdleHonest, IdleAnchored
      <3> QED
        BY <2>3, <3>1, <3>2, <3>3
    <2>5. ASSUME reply.matches, ~needsFull'
          PROVE  kv' = kv /\ cached' = p /\ engine' = p
      <3>1. Reanchors
        BY <2>2, <2>5 DEF Reanchors
      <3> HIDE DEF p, h
      <3> QED
        BY <1>7, <3>1 DEF D!Sync
    <2>6. Prompt \in Seq(Message) /\ reply.text \in Text \cup {NoText}
      BY PromptTyped DEF TypeOK, Reply
    <2>7. ASSUME HonestInv, ~needsFull', ~Noted PROVE IdleHonest'
      <3>1. HonestAnswer
        BY <1>4, <2>4, <2>7 DEF HonestInv, EndHonest, AfterLoop, GivenUp, LostAnswer
      <3>2. Agree(kv, Append(Prompt, output.text))
        BY <3>1 DEF HonestAnswer
      <3>3. output.text \in Message /\ reply.text \in Message /\ kv \in Seq(Message)
        <4>1. output.text \in Text \cup {NoText} /\ NoText \in Message
          BY DEF TypeOK, Output, NoText, Message
        <4> QED
          BY <2>6, <4>1, TextsAreMessages DEF DriverOK, KvTyped
      <3>4. IsAssistant(output.text) /\ IsAssistant(reply.text)
        BY <3>1 DEF HonestAnswer, IsAssistant, Assistants
      <3>5. Agree(kv, Append(Prompt, reply.text))
        BY <2>6, <3>2, <3>3, <3>4, AgreeLast
      <3>6. Append(Prompt, reply.text) = p
        BY <2>6
      <3>7. kv' = kv /\ cached' = p /\ engine' = p
        BY <2>5, <2>7, <3>1 DEF HonestAnswer
      <3> HIDE DEF p
      <3>8. Agreed'
        BY <3>5, <3>6, <3>7 DEF Agreed, Agree
      <3> QED
        BY <1>4, <3>8 DEF IdleHonest
    <2>8. ASSUME AnchorInv, ~needsFull', ~Noted, include PROVE IdleAnchored'
      <3>1. reply.matches /\ reply.text # NoText /\ messages = Append(working, reply.text)
        BY <1>4, <2>4, <2>8 DEF AnchorInv, EndAnchored, AfterLoop, GivenUp
      <3>2. Rendered(history, system)' = p
        <4>1. Rendered(history, system)' = Rendered(h, system)
          BY <1>7 DEF Rendered
        <4>2. Rendered(h, system) = Rendered(history, system) \o messages
          BY <1>1, <2>8, RenderedAppend DEF ConversationTypeOK
        <4> DEFINE one == <<reply.text>>
                   before == Rendered(history, system)
        <4>3. messages = working \o one /\ one \in Seq(Text)
          BY <2>6, <3>1 DEF TypeOK
        <4>4. before \in Seq(Message) /\ working \in Seq(Message) /\ one \in Seq(Message)
          BY <1>0, <4>3, RenderedTyped, TextsAreMessages DEF ConversationTypeOK
        <4> HIDE DEF one, before
        <4>5. before \o (working \o one) = (before \o working) \o one
          BY SMTT(30), <4>4, ConcatAssociative
        <4> QED
          BY <4>1, <4>2, <4>3, <4>5 DEF one, before, Prompt
      <3>3. cached' = p
        BY <2>5, <2>8, <3>1
      <3>4. p # <<>>
        BY <2>6, <3>1
      <3> HIDE DEF p
      <3>5. D!Extends(p, p)
        BY <1>3, <3>4, ExtendsItself
      <3>6. D!Extends(cached, Rendered(history, system))'
        BY <3>2, <3>3, <3>5 DEF D!Extends, D!IsPrefix
      <3> QED
        BY <1>4, <3>6 DEF IdleAnchored
    <2>11. ASSUME ~include PROVE IdleAnchored'
      BY <1>4, <2>9, <2>11 DEF IdleAnchored
    <2> QED
      BY <1>5, <2>1, <2>3, <2>7, <2>8, <2>11
  <1> QED
    BY <1>2, <1>6, <1>7

-----------------------------------------------------------------------------
(* The session.                                                              *)

\* A step of a session is one of its turn, or is taken between two turns.
LEMMA TurnSteps ==
    ASSUME [ConversationNext]_all
    PROVE  [Next]_vars \/ BeginTurn \/ SwitchHistory
  <1>1. GenerateStep => Step
    BY DEF GenerateStep, Step
  <1>2. WrapUpStep => Step
    BY DEF WrapUpStep, Step
  <1>3. DescribeStep => Step
    BY DEF DescribeStep, Step
  <1>4. CloseTurn => Step
    BY DEF CloseTurn, Close, Step
  <1>5. Quiet => PressStop \/ Step
    BY DEF Quiet, Step
  <1>6. UNCHANGED all => UNCHANGED vars
    BY DEF all
  <1> QED
    BY <1>1, <1>2, <1>3, <1>4, <1>5, <1>6 DEF ConversationNext, Next

\* What holds of a turn by itself holds of the turns of a session.
LEMMA SessionTurns ==
    ASSUME TurnInv, [ConversationNext]_all
    PROVE  TurnInv' /\ (StoredInv => StoredInv')
  <1>1. CASE [Next]_vars
    BY <1>1, TypeStep, AccountsStep, StoredStep DEF TurnInv
  <1>2. CASE BeginTurn
    <2>1. PICK i \in Intent, full \in BOOLEAN : BeginWith(turn + 1, i, full)
      BY <1>2 DEF BeginTurn
    <2>2. turn + 1 \in Nat
      BY DEF TurnInv, TypeOK
    <2>3. TypeOK'
      BY <2>1, <2>2, BeginsTyped DEF TurnInv
    <2>4. Accounts' /\ StopAccounts' /\ Routing'
      BY <2>1, BeginsAccounted
    <2>5. StoredInv => StoredInv'
      BY <2>1, BeginsStored
    <2> QED
      BY <2>3, <2>4, <2>5 DEF TurnInv
  <1>3. CASE SwitchHistory
    <2>1. /\ UNCHANGED <<turn, pc, intent, steps, calls, gens, retried, output, messages,
                         working, reply, tool, stop, pressed>>
          /\ needsFull' = TRUE
      BY <1>3 DEF SwitchHistory
    <2>2. TypeOK'
      BY <2>1 DEF TurnInv, TypeOK
    <2>3. Accounts' /\ StopAccounts' /\ Routing'
      BY <2>1 DEF TurnInv, Accounts, StopAccounts, Routing, AllowTools
    <2>4. StoredInv => StoredInv'
      BY <2>1 DEF StoredInv, Unrejected, Kept, Stored
    <2> QED
      BY <2>2, <2>3, <2>4 DEF TurnInv
  <1> QED
    BY <1>1, <1>2, <1>3, TurnSteps

\* A prompt that a message is added to is one.
LEMMA Nonempty ==
    ASSUME TypeOK
    PROVE  /\ working' = Append(working, Written("nudge")) => working' # <<>>
           /\ pc = "output" /\ Exchange => working' # <<>>
  <1>1. /\ working \in Seq(Text) /\ messages \in Seq(Text)
        /\ Written("nudge") \in Text /\ Written("tool") \in Text
        /\ pc = "output" => Stored \in Text
    BY StepTexts DEF TypeOK, Authors
  <1>2. Append(working, Written("nudge")) # <<>>
    BY <1>1
  <1>3. ASSUME pc = "output", Exchange PROVE working' # <<>>
    <2> DEFINE a == Stored
               b == Written("tool")
    <2>1. working' = messages \o <<a, b>> /\ a \in Text /\ b \in Text
      BY <1>1, <1>3 DEF Exchange
    <2> HIDE DEF a, b
    <2> QED
      BY <1>1, <2>1
  <1> QED
    BY <1>2, <1>3

\* The answer taken word for word is the model's own.
LEMMA AcceptRegular ==
    ASSUME TypeOK, Regular, NEW described \in BOOLEAN, Accept(described)
    PROVE  Regular'
  <1>1. /\ pc = "draft" /\ pc' = "wrap"
        /\ reply'.generated = (reply.text # NoText)
        /\ reply'.verbatim = (reply.text = Trimmed)
        /\ reply'.matches = (reply.text # NoText /\ ~reply.replaced /\ output.kind # "empty")
        /\ intent' = intent /\ working' = working
    BY DEF Accept, TypeOK, Reply
  <1>2. ASSUME reply'.generated, reply'.verbatim PROVE reply'.matches
    <2>1. reply.text # NoText /\ reply.text = Trimmed
      BY <1>1, <1>2
    <2>2. output.kind # "empty" /\ reply.text = output.text
      BY <2>1 DEF Trimmed
    <2>3. reply.text.by = "model"
      BY <1>1, <2>2 DEF Regular
    <2>4. ~reply.replaced
      BY <1>1, <2>3 DEF Regular
    <2> QED
      BY <1>1, <2>1, <2>2, <2>4
  <1> QED
    BY <1>1, <1>2 DEF Regular

\* A turn begins with an intent of the users, only the model's generations are
\* drafted, and an answer taken word for word is anchored.
LEMMA RegularKept ==
    ASSUME TypeOK, Regular, [ConversationNext]_all
    PROVE  Regular'
  <1>0. CASE BeginTurn
    BY <1>0 DEF BeginTurn, BeginWith, Intent, Regular, AfterLoop
  <1>00. CASE SwitchHistory
    BY <1>00 DEF SwitchHistory, Regular, AfterLoop
  <1>r. reply \in [text : Text \cup {NoText}, replaced : BOOLEAN, generated : BOOLEAN,
                   verbatim : BOOLEAN, matches : BOOLEAN]
    BY DEF TypeOK, Reply
  <1> USE <1>r DEF Regular, AfterLoop
  <1>1. CASE GenerateStep
    BY <1>1 DEF GenerateStep, Generate
  <1>2. CASE WrapUpStep
    <2>1. PICK kind \in {"empty", "debris", "text"}, raw \in BOOLEAN : WrapUp(kind, raw)
      BY <1>2 DEF WrapUpStep
    <2>2. /\ pc = "wrap" /\ pc' = "show" /\ needsFull' = TRUE
          /\ intent' = intent /\ working' = working
      BY <2>1 DEF WrapUp
    <2> QED
      BY <2>2
  <1>3. CASE DescribeStep
    <2>1. CASE Describe
      BY <2>1 DEF Describe
    <2>2. CASE Accept(TRUE)
      BY <2>2, AcceptRegular
    <2> QED
      BY <1>3, <2>1, <2>2 DEF DescribeStep
  <1>4. CASE CloseTurn
    <2>1. pc' = "idle" /\ reply' = NoReply
      BY <1>4 DEF CloseTurn, CloseWith
    <2>2. ~reply'.generated
      BY <2>1 DEF NoReply
    <2> QED
      BY <2>1, <2>2
  <1>5. CASE Quiet
    <2>1. CASE PressStop \/ Cancelled \/ OutOfSteps \/ GenerationFailed
      BY <2>1 DEF PressStop, Cancelled, OutOfSteps, GenerationFailed
    <2>2. CASE NudgeEmpty \/ NudgeBroken \/ NudgeCall
      BY <2>2, Nonempty DEF NudgeEmpty, NudgeBroken, NudgeCall, Nudge
    <2>3. CASE (\E ok \in BOOLEAN : RunTool(ok)) \/ UnknownTool
      BY <2>3, Nonempty DEF RunTool, UnknownTool, Taken
    <2>4. CASE Draft
      <3>1. /\ pc = "output" /\ pc' = "draft"
            /\ UNCHANGED <<intent, working, output, needsFull>>
        BY <2>4 DEF Draft, Drafting, Taken
      <3>2. /\ ~reply'.replaced
            /\ reply'.generated = reply.generated /\ reply'.verbatim = reply.verbatim
            /\ reply'.matches = reply.matches
        BY <2>4 DEF Draft
      <3> QED
        BY <3>1, <3>2
    <2>9. CASE Native
      <3>1. /\ pc = "output" /\ pc' = "draft"
            /\ UNCHANGED <<intent, working, output, needsFull>>
        BY <2>9 DEF Native, Drafting, Taken
      <3>2. reply'.text.by = "native" /\ reply'.matches
        BY <2>9 DEF Native, Written
      <3> QED
        BY <3>1, <3>2
    <2>5. CASE AskLanguage \/ AskGreeting \/ AskImage
      BY <2>5, Nonempty DEF AskLanguage, AskGreeting, AskImage, Nudge
    <2>6. CASE Accept(FALSE)
      BY <2>6, AcceptRegular
    <2>7. CASE NoWrapUp \/ ShowAnswer \/ ShowFallback \/ Keep
      BY <2>7 DEF NoWrapUp, ShowAnswer, ShowFallback, Keep
    <2>8. CASE ShowValue \/ Complete
      BY <2>8 DEF ShowValue, Complete, ShowInstead
    <2> QED
      BY <1>5, <2>1, <2>2, <2>3, <2>4, <2>5, <2>6, <2>7, <2>8, <2>9 DEF Quiet
  <1>6. CASE UNCHANGED all
    BY <1>6 DEF all, vars
  <1> QED
    BY <1>0, <1>00, <1>1, <1>2, <1>3, <1>4, <1>5, <1>6 DEF ConversationNext

\* Every step of a session keeps the types and the driver's contract, and under its
\* hypothesis on what is refused, each of the two invariants.
LEMMA SessionKeeps ==
    ASSUME TypeOK, Regular, ConversationTypeOK, DriverOK, [ConversationNext]_all
    PROVE  /\ ConversationTypeOK' /\ DriverOK'
           /\ HonestRefusals /\ HonestInv => HonestInv'
           /\ AnchoredRefusals /\ AnchorInv => AnchorInv'
  <1> USE DEF ConversationTypeOK, DriverOK, KvTyped, session
  <1>0. CASE SwitchHistory
    BY <1>0, SwitchKeeps
  <1>1. CASE BeginTurn
    BY <1>1, BeginKeeps
  <1>2. CASE GenerateStep
    BY <1>2, GenerateKeeps DEF GenerateStep
  <1>3. CASE WrapUpStep
    BY <1>3, WrapUpKeeps DEF WrapUpStep
  <1>4. CASE DescribeStep
    BY <1>4, DescribeKeeps DEF DescribeStep
  <1>5. CASE CloseTurn
    BY <1>5, CloseKeeps
  <1>6. CASE Quiet
    <2>1. ConversationTypeOK' /\ DriverOK'
      BY <1>6 DEF Quiet, driver, D!InStep, D!NeverRewinds
    <2>2. HonestRefusals /\ HonestInv => HonestInv'
      BY <1>6, QuietHonest
    <2>3. AnchoredRefusals /\ AnchorInv => AnchorInv'
      BY <1>6, QuietAnchored
    <2> QED
      BY <2>1, <2>2, <2>3
  <1>7. CASE UNCHANGED all
    <2>0. UNCHANGED <<vars, session, driver>>
      BY <1>7 DEF all
    <2>1. ConversationTypeOK' /\ DriverOK'
      BY <2>0 DEF driver, D!InStep, D!NeverRewinds
    <2>2. HonestInv => HonestInv'
      <3>1. /\ Agreed' = Agreed /\ Agree(kv, cached)' = Agree(kv, cached)
            /\ engine' = engine /\ cached' = cached /\ Prompt' = Prompt
            /\ D!Covers(Prompt)' = D!Covers(Prompt)
        BY <2>0, SameDriver DEF vars
      <3>2. /\ Degraded(history)' = Degraded(history) /\ history' = history
            /\ TooLong' = TooLong
        BY <2>0, <3>1 DEF Degraded, WithNotes, TooLong
      <3> QED
        BY <2>0, <3>1, <3>2 DEF vars, HonestInv, LoopHonest, OutputHonest, DraftHonest,
           EndHonest, IdleHonest, InLoop, AfterLoop, GivenUp, Noted, Unmatched, Said,
           OwnAnswer, NativeAnswer, LostAnswer, HonestAnswer, Stored
    <2>3. AnchorInv => AnchorInv'
      <3>1. /\ D!Extends(cached, Rendered(history, system))'
                  = D!Extends(cached, Rendered(history, system))
            /\ Degraded(history)' = Degraded(history) /\ history' = history
            /\ include' = include
        BY <2>0 DEF driver, Degraded, WithNotes, Rendered, D!Extends, D!IsPrefix
      <3> QED
        BY <2>0, <3>1 DEF vars, AnchorInv, LoopAnchored, DraftAnchored, EndAnchored,
           IdleAnchored, Asked, InLoop, AfterLoop, GivenUp, Noted, Unmatched,
           OwnAnswer, NativeAnswer, Stored
    <2> QED
      BY <2>1, <2>2, <2>3
  <1> QED
    BY <1>0, <1>1, <1>2, <1>3, <1>4, <1>5, <1>6, <1>7 DEF ConversationNext

LEMMA SessionBegins ==
    ASSUME ConversationInit
    PROVE  /\ TurnInv /\ StoredInv
           /\ Regular /\ ConversationTypeOK /\ DriverOK
           /\ HonestInv /\ AnchorInv
  <1>1. TurnInv
    BY InitInv DEF ConversationInit
  <1>2. pc = "idle" /\ reply = NoReply /\ needsFull
    BY DEF ConversationInit, Init
  <1>3. StoredInv /\ Regular
    BY <1>2 DEF StoredInv, NoReply, Regular, AfterLoop
  <1>4. <<>> \in Seq(Past) /\ <<>> \in Seq(Message)
    OBVIOUS
  <1>5. ConversationTypeOK /\ DriverOK
    BY <1>4 DEF ConversationInit, D!DriverInit, ConversationTypeOK, DriverOK, KvTyped,
                D!InStep, D!NeverRewinds
  <1>6. HonestInv
    BY <1>2 DEF HonestInv, LoopHonest, OutputHonest, DraftHonest, EndHonest, IdleHonest,
                InLoop, AfterLoop
  <1>7. AnchorInv
    BY <1>2 DEF AnchorInv, LoopAnchored, DraftAnchored, EndAnchored, IdleAnchored,
                InLoop, AfterLoop
  <1> QED
    BY <1>1, <1>3, <1>5, <1>6, <1>7

\* What holds whatever is refused.
SessionInv == TurnInv /\ StoredInv /\ Regular /\ ConversationTypeOK /\ DriverOK

LEMMA SessionStep == SessionInv /\ [ConversationNext]_all => SessionInv'
  BY SessionTurns, SessionKeeps, RegularKept DEF SessionInv, TurnInv

LEMMA SessionInvariant == ConversationSpec => []SessionInv
  <1>1. ConversationInit => SessionInv
    BY SessionBegins DEF SessionInv
  <1> QED
    BY <1>1, SessionStep, PTL DEF ConversationSpec

\* What is proved of one turn holds of every turn of a session, whatever the
\* driver answers and whenever the history is compacted.
THEOREM TurnsOfASession ==
    ConversationSpec => [](WithinBudgets /\ StopSoon /\ ToolsAfterNudge /\ ShownIsStored)
  <1>1. SessionInv => WithinBudgets /\ StopSoon /\ ToolsAfterNudge
    BY InvBudgets, InvStop, InvNudged DEF SessionInv
  <1>2. SessionInv => ShownIsStored
    BY DEF SessionInv, StoredInv, ShownIsStored
  <1> QED
    BY <1>1, <1>2, SessionInvariant, PTL

\* "... instead of letting the engine rewind" (gemma4_hybrid_runner.cpp:1054): the
\* agent's own calls, with every compaction, description and failed generation
\* among them, never erase a KV cache in use, as long as the engine does not throw.
THEOREM AgentNeverRewinds == ConversationSpec => []D!NeverRewinds
  <1>1. SessionInv => D!NeverRewinds
    BY DEF SessionInv, DriverOK
  <1> QED
    BY <1>1, SessionInvariant, PTL

LEMMA HonestInvariant ==
    ASSUME HonestRefusals
    PROVE  ConversationSpec => []HonestInv
  <1>1. ConversationInit => SessionInv /\ HonestInv
    BY SessionBegins DEF SessionInv
  <1>2. SessionInv /\ HonestInv /\ [ConversationNext]_all => (SessionInv /\ HonestInv)'
    BY SessionStep, SessionKeeps DEF SessionInv, TurnInv
  <1> QED
    BY <1>1, <1>2, PTL DEF ConversationSpec

LEMMA AnchorInvariant ==
    ASSUME AnchoredRefusals
    PROVE  ConversationSpec => []AnchorInv
  <1>1. ConversationInit => SessionInv /\ AnchorInv
    BY SessionBegins DEF SessionInv
  <1>2. SessionInv /\ AnchorInv /\ [ConversationNext]_all => (SessionInv /\ AnchorInv)'
    BY SessionStep, SessionKeeps DEF SessionInv, TurnInv
  <1> QED
    BY <1>1, <1>2, PTL DEF ConversationSpec

\* Whenever a suffix is about to be prefilled, every message before it is in the KV
\* cache (needs_full_prefill_, cache_covers, sync_transcript), whatever is generated,
\* run, described and compacted, and for any number of turns.
THEOREM KvIsHonest ==
    ASSUME HonestRefusals
    PROVE  ConversationSpec => []KvHonest
  <1>1. HonestInv => KvHonest
    BY DEF HonestInv, LoopHonest, InLoop, Agreed, KvHonest
  <1> QED
    BY <1>1, HonestInvariant, PTL

\* A turn whose prompt needs no full prefill finds its prompt begin with the anchor:
\* what sync_transcript recorded is what render_history renders.
THEOREM PromptsAreAnchored ==
    ASSUME AnchoredRefusals
    PROVE  ConversationSpec => []Anchored
  <1>1. AnchorInv => Anchored
    BY DEF AnchorInv, IdleAnchored, Anchored
  <1> QED
    BY <1>1, AnchorInvariant, PTL

\* The inductive invariant as the run checks it, where both of its parts hold.
THEOREM ConversationInvariant ==
    ASSUME HonestRefusals, AnchoredRefusals
    PROVE  ConversationSpec => []ConversationInv
  <1>1. SessionInv /\ HonestInv /\ AnchorInv => ConversationInv
    BY DEF SessionInv, DriverOK, ConversationInv
  <1> QED
    BY <1>1, SessionInvariant, HonestInvariant, AnchorInvariant, PTL
================================================================================
