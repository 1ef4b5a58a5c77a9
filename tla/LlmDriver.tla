------------------------------- MODULE LlmDriver -------------------------------
(***************************************************************************)
(* The driver of the language model (MnnAgentLlm): which of the prompts it *)
(* is given extend what the KV cache holds, and may be prefilled by their  *)
(* suffix, and when the engine is created anew.  The engine below it is    *)
(* MNN's Llm, modelled from how the driver uses it: it compares a prompt   *)
(* with the text it was last told, prefills what follows, and otherwise    *)
(* erases its KV cache in place and prefills everything.                   *)
(*                                                                         *)
(* A prompt is a sequence of messages.  The caller is anyone here; in      *)
(* Conversation it is the agent.                                           *)
(***************************************************************************)
EXTENDS Integers, Sequences, SequencesExt

CONSTANTS
    Messages,  \* what prompts and replies are made of
    Prompts,   \* the prompts a caller has
    Replies,   \* what the model may write; no reply is an empty text
    MaxHeld,   \* bound on the messages the KV cache holds when a caller asks
    Failures   \* how a generation may fail: "mismatch" of placeholders and
               \* pictures, "splice" of a picture, "threw" by the engine

ASSUME DriverAssumption ==
    /\ Prompts \subseteq Seq(Messages) \ {<<>>}
    /\ Replies \subseteq Messages
    /\ MaxHeld \in Nat
    /\ Failures \subseteq {"mismatch", "splice", "threw"}

VARIABLES
    kv,       \* what the KV cache holds
    cached,   \* cached_messages_: what the driver believes it holds
    engine,   \* the text the engine compares the next prompt with
    rewound   \* history: was a KV cache in use erased in place?

driver == <<kv, cached, engine, rewound>>

Extends(known, prompt) == known # <<>> /\ IsPrefix(known, prompt)

\* Mistake: only the number of messages is compared.
CoversByLength(prompt) == cached # <<>> /\ Len(cached) <= Len(prompt)

\* cache_covers
Covers(prompt) == Extends(cached, prompt)

\* Llm::response on a KV cache `held`, the engine's text being `told`.
Prefilled(held, told, prompt) ==
    IF Extends(told, prompt)
    THEN held \o SubSeq(prompt, Len(told) + 1, Len(prompt)) ELSE prompt
Rewinds(held, told, prompt) == held # <<>> /\ ~Extends(told, prompt)

\* Mistake: the engine is not told what its KV cache holds.
RunUntold(held, told, prompt, reply, outcome) ==
    /\ kv' = Prefilled(held, told, prompt) \o reply
    /\ rewound' = (rewound \/ Rewinds(held, told, prompt))
    /\ cached' = prompt \o reply
    /\ engine' = told

\* run_generation.  A picture that could not be spliced is reported after the
\* fact; an exception leaves a prefilled cache nobody keeps book of.
Run(held, told, prompt, reply, outcome) ==
    /\ kv' = Prefilled(held, told, prompt) \o reply
    /\ rewound' = (rewound \/ Rewinds(held, told, prompt))
    /\ IF outcome = "threw"
       THEN cached' = cached /\ engine' = told
       ELSE cached' = prompt \o reply /\ engine' = cached'

\* generate_full: from an engine created anew.
Full(prompt, reply, outcome) ==
    IF outcome = "mismatch"
    THEN kv' = <<>> /\ engine' = <<>> /\ UNCHANGED <<cached, rewound>>
    ELSE Run(<<>>, <<>>, prompt, reply, outcome)

\* generate_delta
Delta(prompt, reply, outcome) ==
    IF ~Covers(prompt) THEN Full(prompt, reply, outcome)
    ELSE IF outcome = "mismatch" THEN UNCHANGED driver
    ELSE Run(kv, engine, prompt, reply, outcome)

\* sync_transcript
Sync(prompt) ==
    /\ cached' = prompt /\ engine' = prompt
    /\ UNCHANGED <<kv, rewound>>

\* reset_conversation
Reset ==
    /\ kv' = <<>> /\ engine' = <<>> /\ cached' = <<>>
    /\ UNCHANGED rewound

DriverInit == kv = <<>> /\ cached = <<>> /\ engine = <<>> /\ rewound = FALSE

Outcomes == {"ok"} \cup Failures
Texts == {<<>>} \cup {<<r>> : r \in Replies}

Ask ==
    /\ Len(kv) <= MaxHeld
    /\ \E p \in Prompts, r \in Texts, o \in Outcomes : Full(p, r, o) \/ Delta(p, r, o)

DriverNext == Ask \/ (\E p \in Prompts : Sync(p)) \/ Reset

DriverSpec == DriverInit /\ [][DriverNext]_driver

-----------------------------------------------------------------------------

\* "the driver checks the contract itself and falls back to a pristine engine
\* instead of letting the engine rewind" (gemma4_hybrid_runner.cpp:1054): a KV
\* cache in use is never erased in place, whatever prompts the caller has and in
\* whatever order it generates, anchors and resets.
NeverRewinds == ~rewound

\* The values of the variables.
DriverTypeOK ==
    /\ kv \in Seq(Messages) /\ cached \in Seq(Messages) /\ engine \in Seq(Messages)
    /\ rewound \in BOOLEAN

\* What it rests on: the engine compares with what the driver believes, or is new.
InStep == engine = cached \/ (engine = <<>> /\ kv = <<>>)

\* The driver and the engine below it agree on what the KV cache holds, between
\* any two calls; inductive unless the engine may throw.
DriverInv == DriverTypeOK /\ InStep /\ NeverRewinds

================================================================================
