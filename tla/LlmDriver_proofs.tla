----------------------------- MODULE LlmDriver_proofs -----------------------------
(***************************************************************************)
(* The driver's contract, for any prompts, replies and callers: as long as *)
(* the engine does not throw, the driver and the engine agree on what the  *)
(* KV cache holds, and a cache in use is never erased in place.            *)
(***************************************************************************)
EXTENDS LlmDriver, TLAPS

LEMMA PromptTyped == \A p \in Prompts : p \in Seq(Messages) /\ p # <<>>
  BY DriverAssumption

LEMMA TextTyped == \A text \in Texts : text \in Seq(Messages)
  <1> SUFFICES ASSUME NEW text \in Texts PROVE text \in Seq(Messages)
    OBVIOUS
  <1>1. CASE text = <<>>
    BY <1>1
  <1>2. ASSUME NEW r \in Replies, text = <<r>> PROVE text \in Seq(Messages)
    <2>1. r \in Messages
      BY DriverAssumption
    <2> QED
      BY <1>2, <2>1
  <1> QED
    BY <1>1, <1>2 DEF Texts

\* What a generation leaves in the KV cache is made of messages.
LEMMA PrefilledTyped ==
    ASSUME NEW held \in Seq(Messages), NEW told \in Seq(Messages),
           NEW prompt \in Seq(Messages)
    PROVE  Prefilled(held, told, prompt) \in Seq(Messages)
  <1>1. SubSeq(prompt, Len(told) + 1, Len(prompt)) \in Seq(Messages)
    OBVIOUS
  <1>2. held \o SubSeq(prompt, Len(told) + 1, Len(prompt)) \in Seq(Messages)
    BY <1>1
  <1> QED
    BY <1>2 DEF Prefilled

\* A generation that does not throw keeps the invariant, from a KV cache that is
\* empty or that the prompt extends.
LEMMA RunKeeps ==
    ASSUME NEW held \in Seq(Messages), NEW told \in Seq(Messages),
           NEW prompt \in Seq(Messages), NEW reply \in Seq(Messages), NEW outcome,
           outcome # "threw", DriverInv,
           held = <<>> \/ Extends(told, prompt),
           Run(held, told, prompt, reply, outcome)
    PROVE  DriverInv'
  <1>1. Prefilled(held, told, prompt) \in Seq(Messages)
    BY PrefilledTyped
  <1>2. kv' \in Seq(Messages) /\ cached' \in Seq(Messages) /\ engine' = cached'
    <2>1. prompt \o reply \in Seq(Messages)
      OBVIOUS
    <2>2. Prefilled(held, told, prompt) \o reply \in Seq(Messages)
      BY <1>1
    <2> QED
      BY <2>1, <2>2 DEF Run
  <1>3. ~Rewinds(held, told, prompt)
    BY DEF Rewinds
  <1>4. rewound' = FALSE
    BY <1>3 DEF Run, DriverInv, NeverRewinds
  <1> QED
    BY <1>2, <1>4 DEF DriverInv, DriverTypeOK, InStep, NeverRewinds

\* generate_full
LEMMA FullKeeps ==
    ASSUME NEW prompt \in Seq(Messages), NEW reply \in Seq(Messages), NEW outcome,
           outcome # "threw", DriverInv, Full(prompt, reply, outcome)
    PROVE  DriverInv'
  <1>1. <<>> \in Seq(Messages)
    OBVIOUS
  <1>2. CASE outcome = "mismatch"
    BY <1>1, <1>2 DEF Full, DriverInv, DriverTypeOK, InStep, NeverRewinds
  <1>3. CASE outcome # "mismatch"
    <2>1. Run(<<>>, <<>>, prompt, reply, outcome)
      BY <1>3 DEF Full
    <2> QED
      BY <1>1, <2>1, RunKeeps
  <1> QED
    BY <1>2, <1>3

\* generate_delta: a prompt the driver's transcript covers extends the engine's
\* too, or the engine is new.
LEMMA DeltaKeeps ==
    ASSUME NEW prompt \in Seq(Messages), NEW reply \in Seq(Messages), NEW outcome,
           outcome # "threw", DriverInv, Delta(prompt, reply, outcome)
    PROVE  DriverInv'
  <1>1. CASE ~Covers(prompt)
    BY <1>1, FullKeeps DEF Delta
  <1>2. CASE Covers(prompt) /\ outcome = "mismatch"
    BY <1>2 DEF Delta, driver, DriverInv, DriverTypeOK, InStep, NeverRewinds
  <1>3. CASE Covers(prompt) /\ outcome # "mismatch"
    <2>1. kv \in Seq(Messages) /\ engine \in Seq(Messages)
      BY DEF DriverInv, DriverTypeOK
    <2>2. kv = <<>> \/ Extends(engine, prompt)
      BY <1>3 DEF DriverInv, InStep, Covers
    <2>3. Run(kv, engine, prompt, reply, outcome)
      BY <1>3 DEF Delta
    <2> QED
      BY <2>1, <2>2, <2>3, RunKeeps
  <1> QED
    BY <1>1, <1>2, <1>3

LEMMA StepKeeps ==
    ASSUME "threw" \notin Failures, DriverInv, [DriverNext]_driver
    PROVE  DriverInv'
  <1>1. CASE Ask
    <2>1. PICK p \in Prompts, text \in Texts, o \in Outcomes :
              Full(p, text, o) \/ Delta(p, text, o)
      BY <1>1 DEF Ask
    <2>2. p \in Seq(Messages) /\ text \in Seq(Messages) /\ o # "threw"
      BY PromptTyped, TextTyped DEF Outcomes
    <2> QED
      BY <2>1, <2>2, FullKeeps, DeltaKeeps
  <1>2. ASSUME NEW p \in Prompts, Sync(p) PROVE DriverInv'
    BY <1>2, PromptTyped DEF Sync, DriverInv, DriverTypeOK, InStep, NeverRewinds
  <1>3. CASE Reset
    <2>1. <<>> \in Seq(Messages)
      OBVIOUS
    <2> QED
      BY <1>3, <2>1 DEF Reset, DriverInv, DriverTypeOK, InStep, NeverRewinds
  <1>4. CASE UNCHANGED driver
    BY <1>4 DEF driver, DriverInv, DriverTypeOK, InStep, NeverRewinds
  <1> QED
    BY <1>1, <1>2, <1>3, <1>4 DEF DriverNext

\* The driver and the engine agree on the KV cache between any two calls, unless
\* the engine throws (cache_covers, run_generation, sync_transcript).
THEOREM DriverInvariant ==
    ASSUME "threw" \notin Failures
    PROVE  DriverSpec => []DriverInv
  <1>1. DriverInit => DriverInv
    <2>1. <<>> \in Seq(Messages)
      OBVIOUS
    <2> QED
      BY <2>1 DEF DriverInit, DriverInv, DriverTypeOK, InStep, NeverRewinds
  <1>2. DriverInv /\ [DriverNext]_driver => DriverInv'
    BY StepKeeps
  <1> QED
    BY <1>1, <1>2, PTL DEF DriverSpec

\* "... instead of letting the engine rewind": it holds unless the engine throws.
THEOREM EngineNeverRewinds ==
    ASSUME "threw" \notin Failures
    PROVE  DriverSpec => []NeverRewinds
  <1>1. DriverInv => NeverRewinds
    BY DEF DriverInv
  <1> QED
    BY <1>1, DriverInvariant, PTL

================================================================================
