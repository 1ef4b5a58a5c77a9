------------------------ MODULE SessionTranscript_proofs ------------------------
(***************************************************************************)
(* Proofs about SessionTranscript, for every recent_turns_min and any      *)
(* number of turns, with kills at any place.  They are about a transcript  *)
(* that was never harmed by a write cut short or by a session created      *)
(* twice; TLC shows that the properties fail for one that was.             *)
(***************************************************************************)
EXTENDS SessionTranscript, SequenceLemmas, SequenceTheorems, TLAPS

\* Reading a file without torn lines gives the file back.
LEMMA ReadWhole ==
    ASSUME NEW file, \A k \in DOMAIN file : file[k] # Garbage
    PROVE  ReadTurns(file) = file
  BY DEF ReadTurns

\* Under the invariant the file has no torn line.
LEMMA NoGarbage ==
    ASSUME TypeOK, LogNumbered
    PROVE  /\ \A k \in DOMAIN log : log[k] # Garbage
           /\ ReadTurns(log) = log
  <1>1. \A k \in DOMAIN log : log[k] # Garbage
    <2> SUFFICES ASSUME NEW k \in DOMAIN log PROVE log[k] # Garbage
      OBVIOUS
    <2>1. log[k].id \in 1 .. clock /\ clock \in Nat
      BY DEF LogNumbered, TypeOK
    <2>2. log[k].id # 0
      BY <2>1
    <2> QED
      BY <2>2 DEF Garbage
  <1> QED
    BY <1>1, ReadWhole

\* The candidates of a compaction are the lines after the summary and before
\* the newest recent_turns_min, and the last of them is the last such line.
LEMMA CandidatesRange ==
    ASSUME TypeOK, LogNumbered, MemoryIsFile, Running, Candidates # {}
    PROVE  /\ Candidates = {k \in 1 .. (Len(turns) - RecentTurnsMin) : meta.upto < k}
           /\ LastCandidate = Len(turns) - RecentTurnsMin
           /\ LastCandidate \in DOMAIN turns
           /\ turns[LastCandidate].index = LastCandidate
           /\ meta.upto < LastCandidate
  <1> DEFINE last == Len(turns) - RecentTurnsMin
  <1>0. RecentTurnsMin \in Nat /\ Len(turns) \in Nat /\ last \in Int /\ last <= Len(turns)
        /\ DOMAIN turns = 1 .. Len(turns) /\ meta.upto \in Nat
    BY TranscriptAssumption DEF TypeOK, Meta
  <1>1. turns = log
    BY DEF MemoryIsFile
  <1>2. \A k \in 1 .. last : k \in DOMAIN turns /\ turns[k].index = k
    BY <1>0, <1>1 DEF LogNumbered
  <1>3. Candidates = {k \in 1 .. last : meta.upto < k}
    BY <1>0, <1>2 DEF Candidates, Hidden
  <1>4. last \in Candidates /\ \A j \in Candidates : j <= last
    BY <1>0, <1>3
  <1>5. LastCandidate = last
    <2>1. LastCandidate \in Candidates /\ \A j \in Candidates : j <= LastCandidate
      BY <1>4 DEF LastCandidate
    <2>2. LastCandidate \in Int /\ LastCandidate <= last /\ last <= LastCandidate
      BY <1>0, <1>3, <1>4, <2>1
    <2>3. \A a, b \in Int : a <= b /\ b <= a => a = b
      OBVIOUS
    <2> HIDE DEF last
    <2> QED
      BY <1>0, <2>2, <2>3
  <1> QED
    BY <1>0, <1>2, <1>3, <1>4, <1>5

THEOREM InitInv == Init => TranscriptInv
  <1> SUFFICES ASSUME Init PROVE TranscriptInv
    OBVIOUS
  <1>1. TypeOK
    <2>1. FreshMeta \in Meta /\ Garbage \in Turn
      BY DEF FreshMeta, Meta, Garbage, Turn
    <2>2. <<>> \in Seq(Turn)
      OBVIOUS
    <2>3. pc = "idle" => pc \in {"down", "idle", "rendered", "generating", "ended"}
      OBVIOUS
    <2>4. /\ log = <<>> /\ turns = <<>>
          /\ metaFile = FreshMeta /\ meta = FreshMeta
          /\ unterminated = FALSE /\ ended = {} /\ clock = 0
          /\ current = Garbage /\ pc = "idle"
      BY DEF Init
    <2>5. /\ log \in Seq(Turn) /\ turns \in Seq(Turn)
          /\ metaFile \in Meta /\ meta \in Meta
          /\ current \in Turn
      BY <2>1, <2>2, <2>4
    <2>6. unterminated \in BOOLEAN
      BY <2>4
    <2>7. clock \in Nat /\ ended \subseteq Nat
      BY <2>4
    <2> QED
      BY <2>3, <2>4, <2>5, <2>6, <2>7 DEF TypeOK
  <1>2. SummaryExact
    BY TranscriptAssumption DEF Init, SummaryExact, FreshMeta, Larger
  <1>3. LogNumbered
    BY TranscriptAssumption DEF Init, LogNumbered
  <1> QED
    BY <1>1, <1>2, <1>3 DEF Init, TranscriptInv, MemoryIsFile, CurrentIsNext,
                            EndedInLog, FreshMeta, Garbage

-----------------------------------------------------------------------------
(* Each action preserves the invariant. *)

\* A compaction moves the summary over the candidates and touches nothing else.
LEMMA CompactionStep ==
    ASSUME TranscriptInv, Running, CompactHistory(TRUE), Running',
           pc' \in {"down", "idle", "rendered", "generating", "ended"},
           pc' \in {"rendered", "generating"} => pc \in {"rendered", "generating"},
           UNCHANGED <<log, unterminated, turns, current, clock, ended>>
    PROVE  TranscriptInv'
  <1> USE TranscriptAssumption
  <1>0. TypeOK /\ LogNumbered /\ SummaryExact /\ MemoryIsFile /\ CurrentIsNext /\ EndedInLog
    BY DEF TranscriptInv
  <1>1. CASE UNCHANGED <<meta, metaFile>>
    BY <1>0, <1>1 DEF TranscriptInv, TypeOK, LogNumbered, SummaryExact, MemoryIsFile,
                      CurrentIsNext, EndedInLog, Running
  <1>2. CASE Candidates # {} /\ ApplyCompaction
    <2> DEFINE last == Len(turns) - RecentTurnsMin
               folded == {turns[k].id : k \in Candidates}
    <2>1. /\ Candidates = {k \in 1 .. last : meta.upto < k}
          /\ LastCandidate = last
          /\ last \in DOMAIN turns
          /\ turns[last].index = last
          /\ meta.upto < last
      BY <1>0, <1>2, CandidatesRange
    <2>2. meta \in Meta /\ meta.upto \in Nat /\ meta.summary \subseteq Nat /\ last \in Nat
          /\ turns \in Seq(Turn) /\ Len(turns) \in Nat /\ DOMAIN turns = 1 .. Len(turns)
      BY <1>0, <2>1 DEF TypeOK, Meta
    <2>3. Larger(meta.upto, turns[LastCandidate].index) = last
      BY <2>1, <2>2 DEF Larger
    <2>4. meta' = [meta EXCEPT !.upto = last, !.summary = meta.summary \cup folded]
          /\ metaFile' = meta'
      BY <1>2, <2>3 DEF ApplyCompaction
    <2>5. folded \subseteq Nat
      <3>1. \A k \in Candidates : turns[k] \in Turn
        BY <2>1, <2>2
      <3> QED
        BY <3>1 DEF Turn
    <2>6. /\ meta'.upto = last
          /\ meta'.summary = meta.summary \cup folded
          /\ meta'.turns = meta.turns
          /\ meta' \in Meta
      BY <2>2, <2>4, <2>5 DEF Meta
    <2> HIDE DEF folded
    <2>7. TypeOK'
      BY <1>0, <2>4, <2>6 DEF TypeOK
    <2>8. SummaryExact'
      <3>1. metaFile.upto = meta.upto /\ metaFile.summary = meta.summary /\ turns = log
        BY <1>0 DEF MemoryIsFile
      <3>2. metaFile'.upto = last /\ metaFile'.summary = metaFile.summary \cup folded
        BY <2>4, <2>6, <3>1
      <3>3. last <= Larger(0, Len(log) - RecentTurnsMin)
        BY <2>2, <3>1 DEF Larger
      <3>4. \A i \in folded : \E k \in DOMAIN log : log[k].id = i
        BY <2>1, <2>2, <3>1 DEF folded
      <3>5. \A k \in DOMAIN log : log[k].id \in folded <=> k \in Candidates
        <4>1. \A j, k \in DOMAIN log : log[j].id = log[k].id => j = k
          <5> SUFFICES ASSUME NEW j \in DOMAIN log, NEW k \in DOMAIN log, j # k
                       PROVE  log[j].id # log[k].id
            OBVIOUS
          <5>1. j \in Nat /\ k \in Nat /\ log[j].id \in Int /\ log[k].id \in Int
            BY <1>0, <2>2, <3>1 DEF LogNumbered, TypeOK
          <5>2. (j < k => log[j].id < log[k].id) /\ (k < j => log[k].id < log[j].id)
            BY <1>0 DEF LogNumbered
          <5> QED
            BY <5>1, <5>2
        <4>2. Candidates \subseteq DOMAIN log
          BY <2>1, <2>2, <3>1
        <4> QED
          BY <3>1, <4>1, <4>2 DEF folded
      <3>6. \A k \in DOMAIN log : k \in Candidates <=> (k <= last /\ ~(k <= meta.upto))
        BY <2>1, <2>2, <3>1
      <3>7. \A k \in DOMAIN log : log[k].id \in metaFile'.summary <=> k <= last
        <4> SUFFICES ASSUME NEW k \in DOMAIN log
                     PROVE  log[k].id \in metaFile'.summary <=> k <= last
          OBVIOUS
        <4>1. log[k].id \in metaFile.summary <=> k <= meta.upto
          BY <1>0, <3>1 DEF SummaryExact
        <4>2. k <= meta.upto => k <= last
          BY <2>1, <2>2, <3>1
        <4> QED
          BY <3>2, <3>5, <3>6, <4>1, <4>2
      <3> HIDE DEF last
      <3>8. \A i \in metaFile'.summary : \E k \in DOMAIN log : log[k].id = i
        BY <1>0, <3>2, <3>4 DEF SummaryExact
      <3> QED
        BY <3>2, <3>3, <3>7, <3>8 DEF SummaryExact
    <2>9. MemoryIsFile'
      BY <1>0, <2>4, <2>6 DEF MemoryIsFile
    <2>10. LogNumbered' /\ CurrentIsNext' /\ EndedInLog'
      BY <1>0 DEF LogNumbered, CurrentIsNext, EndedInLog
    <2> QED
      BY <2>7, <2>8, <2>9, <2>10 DEF TranscriptInv
  <1> QED
    BY <1>1, <1>2 DEF CompactHistory

\* Opening a session reads back exactly what the files hold.
LEMMA OpenStep == TranscriptInv /\ Open => TranscriptInv'
  <1> SUFFICES ASSUME TranscriptInv, Open PROVE TranscriptInv'
    OBVIOUS
  <1>0. TypeOK /\ LogNumbered /\ SummaryExact /\ EndedInLog
    BY DEF TranscriptInv
  <1>1. turns' = log
    BY <1>0, NoGarbage DEF Open
  <1>2. /\ meta' \in Meta
        /\ meta'.turns = Len(log)
        /\ meta'.upto = metaFile.upto
        /\ meta'.summary = metaFile.summary
    BY <1>0, <1>1 DEF Open, TypeOK, Meta
  <1>3. TypeOK'
    BY <1>0, <1>1, <1>2 DEF Open, TypeOK
  <1>4. MemoryIsFile'
    BY <1>1, <1>2 DEF Open, MemoryIsFile
  <1>5. LogNumbered' /\ SummaryExact' /\ EndedInLog' /\ CurrentIsNext'
    BY <1>0 DEF Open, LogNumbered, SummaryExact, EndedInLog, CurrentIsNext
  <1> QED
    BY <1>3, <1>4, <1>5 DEF TranscriptInv

\* Turning old pictures into text changes neither numbers nor identities.
LEMMA StrippedSame ==
    ASSUME TypeOK
    PROVE  /\ Stripped \in Seq(Turn)
           /\ Len(Stripped) = Len(turns)
           /\ DOMAIN Stripped = DOMAIN turns
           /\ \A k \in DOMAIN turns : /\ Stripped[k].index = turns[k].index
                                     /\ Stripped[k].id = turns[k].id
  <1>0. turns \in Seq(Turn)
    BY DEF TypeOK
  <1>1. \A t \in Turn : /\ StripImage(t) \in Turn
                        /\ StripImage(t).index = t.index
                        /\ StripImage(t).id = t.id
    BY DEF StripImage, Turn
  <1>2. DOMAIN turns = 1 .. Len(turns) /\ Len(turns) \in Nat
        /\ \A k \in DOMAIN turns : turns[k] \in Turn
    BY <1>0
  <1>3. \A k \in DOMAIN turns : Stripped[k] = StripImage(turns[k])
    BY DEF Stripped
  <1>4. DOMAIN Stripped = 1 .. Len(turns)
    BY <1>2 DEF Stripped
  <1>5. Stripped \in [1 .. Len(turns) -> Turn]
    BY <1>1, <1>2 DEF Stripped
  <1>6. Stripped \in Seq(Turn) /\ Len(Stripped) = Len(turns)
    BY <1>2, <1>4, <1>5
  <1> QED
    BY <1>1, <1>2, <1>3, <1>4, <1>6

LEMMA BeginTurnStep == TranscriptInv /\ BeginTurn => TranscriptInv'
  <1> USE TranscriptAssumption
  <1> SUFFICES ASSUME TranscriptInv, BeginTurn PROVE TranscriptInv'
    OBVIOUS
  <1>0. TypeOK /\ LogNumbered /\ SummaryExact /\ MemoryIsFile /\ EndedInLog
    BY DEF TranscriptInv
  <1>1. turns = log /\ meta.upto = metaFile.upto /\ meta.summary = metaFile.summary
        /\ meta.turns = Len(turns)
    BY <1>0 DEF BeginTurn, MemoryIsFile, Running
  <1>2. /\ turns' = log' /\ log' \in Seq(Turn)
        /\ Len(log') = Len(log) /\ DOMAIN log' = DOMAIN log
        /\ \A k \in DOMAIN log : log'[k].index = log[k].index /\ log'[k].id = log[k].id
        /\ unterminated' = FALSE
    <2>1. PICK include \in BOOLEAN : RenderHistory(include)
      BY DEF BeginTurn
    <2>2. CASE include /\ Stripped # turns
      BY <1>0, <1>1, <2>1, <2>2, StrippedSame DEF RenderHistory
    <2>3. CASE ~(include /\ Stripped # turns)
      BY <1>0, <1>1, <2>1, <2>3 DEF RenderHistory, LogNumbered, TypeOK
    <2> QED
      BY <2>2, <2>3
  <1>3. /\ clock \in Nat /\ clock' = clock + 1 /\ clock' \in Nat /\ clock' > 0
        /\ clock < clock'
    BY <1>0 DEF BeginTurn, TypeOK
  <1>4. Len(turns) \in Nat /\ Len(turns') = Len(turns) /\ DOMAIN log = 1 .. Len(log)
    BY <1>0, <1>1, <1>2 DEF TypeOK
  <1>5. /\ current'.index = Len(turns') + 1
        /\ current'.id = clock'
        /\ current' \in Turn
    <2>1. PICK image \in BOOLEAN :
            current' = [index |-> meta.turns + 1, id |-> clock', image |-> image]
      BY DEF BeginTurn
    <2> QED
      BY <1>1, <1>3, <1>4, <2>1 DEF Turn
  <1>6. TypeOK'
    <2>1. pc' \in {"down", "idle", "rendered", "generating", "ended"}
      BY DEF BeginTurn
    <2> QED
      BY <1>0, <1>2, <1>3, <1>5, <2>1 DEF BeginTurn, TypeOK
  <1>7. LogNumbered'
    <2>1. \A k \in DOMAIN log : log[k].id \in 1 .. clock'
      BY <1>0, <1>3 DEF LogNumbered
    <2>2. clock' <= MaxTurns
      BY <1>0, <1>3 DEF BeginTurn, TypeOK
    <2> QED
      BY <1>0, <1>2, <2>1, <2>2 DEF LogNumbered
  <1>8. SummaryExact'
    BY <1>0, <1>2 DEF BeginTurn, SummaryExact
  <1>9. MemoryIsFile'
    BY <1>1, <1>2, <1>4 DEF BeginTurn, MemoryIsFile
  <1>10. CurrentIsNext'
    <2>1. \A k \in DOMAIN log' : log'[k].id < clock'
      BY <1>0, <1>2, <1>3 DEF LogNumbered
    <2> QED
      BY <1>3, <1>5, <2>1 DEF CurrentIsNext
  <1>11. EndedInLog'
    BY <1>0, <1>2 DEF BeginTurn, EndedInLog
  <1> QED
    BY <1>6, <1>7, <1>8, <1>9, <1>10, <1>11 DEF TranscriptInv

\* One more line: the file stays numbered and the summary stays where it was.
LEMMA LineAppended ==
    ASSUME TranscriptInv, pc = "generating", UNCHANGED clock,
           log' = Append(log, current), unterminated' = FALSE,
           metaFile'.upto = metaFile.upto, metaFile'.summary = metaFile.summary
    PROVE  /\ log' \in Seq(Turn)
           /\ Len(log') = Len(log) + 1
           /\ LogNumbered'
           /\ SummaryExact'
           /\ \A i \in ended \cup {current.id} : \E k \in DOMAIN log' : log'[k].id = i
  <1> USE TranscriptAssumption
  <1>0. TypeOK /\ LogNumbered /\ SummaryExact /\ EndedInLog
    BY DEF TranscriptInv
  <1>1. turns = log /\ current.index = Len(log) + 1 /\ current.id = clock /\ clock > 0
        /\ (\A k \in DOMAIN log : log[k].id < clock)
    BY DEF TranscriptInv, MemoryIsFile, CurrentIsNext, Running
  <1>2. log \in Seq(Turn) /\ Len(log) \in Nat /\ DOMAIN log = 1 .. Len(log)
        /\ current \in Turn /\ clock \in Nat
    BY <1>0 DEF TypeOK
  <1>3. /\ log' \in Seq(Turn)
        /\ Len(log') = Len(log) + 1
        /\ DOMAIN log' = 1 .. (Len(log) + 1)
        /\ log'[Len(log) + 1] = current
        /\ \A k \in DOMAIN log : log'[k] = log[k]
    BY <1>2
  <1>4. \A k \in DOMAIN log' : k \in DOMAIN log \/ k = Len(log) + 1
    BY <1>2, <1>3
  <1>5. LogNumbered'
    <2>1. \A k \in DOMAIN log' : log'[k].index = k /\ log'[k].id \in 1 .. clock
      <3> SUFFICES ASSUME NEW k \in DOMAIN log'
                   PROVE  log'[k].index = k /\ log'[k].id \in 1 .. clock
        OBVIOUS
      <3>1. CASE k \in DOMAIN log
        BY <1>0, <1>3, <3>1 DEF LogNumbered
      <3>2. CASE k = Len(log) + 1
        BY <1>1, <1>2, <1>3, <3>2
      <3> QED
        BY <1>4, <3>1, <3>2
    <2>2. \A j, k \in DOMAIN log' : j < k => log'[j].id < log'[k].id
      <3> SUFFICES ASSUME NEW j \in DOMAIN log', NEW k \in DOMAIN log', j < k
                   PROVE  log'[j].id < log'[k].id
        OBVIOUS
      <3>1. j \in DOMAIN log
        BY <1>2, <1>3
      <3>2. CASE k \in DOMAIN log
        BY <1>0, <1>3, <3>1, <3>2 DEF LogNumbered
      <3>3. CASE k = Len(log) + 1
        BY <1>1, <1>3, <3>1, <3>3
      <3> QED
        BY <1>4, <3>2, <3>3
    <2> QED
      BY <1>0, <2>1, <2>2 DEF LogNumbered
  <1>6. SummaryExact'
    <2>1. metaFile \in Meta /\ metaFile.upto \in Nat
      BY <1>0 DEF TypeOK, Meta
    <2>2. metaFile.upto <= Len(log)
      BY <1>0, <1>2, <2>1 DEF SummaryExact, Larger
    <2>3. metaFile.upto <= Larger(0, Len(log') - RecentTurnsMin)
      BY <1>0, <1>2, <1>3, <2>1 DEF SummaryExact, Larger
    <2>4. \A i \in metaFile.summary : \E k \in DOMAIN log' : log'[k].id = i
      <3> SUFFICES ASSUME NEW i \in metaFile.summary
                   PROVE  \E k \in DOMAIN log' : log'[k].id = i
        OBVIOUS
      <3>1. PICK k \in DOMAIN log : log[k].id = i
        BY <1>0 DEF SummaryExact
      <3> QED
        BY <1>2, <1>3, <3>1
    <2>5. \A k \in DOMAIN log' : log'[k].id \in metaFile.summary <=> k <= metaFile.upto
      <3> SUFFICES ASSUME NEW k \in DOMAIN log'
                   PROVE  log'[k].id \in metaFile.summary <=> k <= metaFile.upto
        OBVIOUS
      <3>1. CASE k \in DOMAIN log
        BY <1>0, <1>3, <3>1 DEF SummaryExact
      <3>2. CASE k = Len(log) + 1
        <4>1. ~(k <= metaFile.upto)
          BY <1>2, <2>1, <2>2, <3>2
        <4>2. \A j \in DOMAIN log : log[j].id # clock
          BY <1>0, <1>1 DEF LogNumbered
        <4>3. clock \notin metaFile.summary
          BY <1>0, <4>2 DEF SummaryExact
        <4> QED
          BY <1>1, <1>3, <3>2, <4>1, <4>3
      <3> QED
        BY <1>4, <3>1, <3>2
    <2> QED
      BY <2>3, <2>4, <2>5 DEF SummaryExact
  <1>7. \A i \in ended \cup {current.id} : \E k \in DOMAIN log' : log'[k].id = i
    <2>1. \A i \in ended : \E k \in DOMAIN log' : log'[k].id = i
      <3> SUFFICES ASSUME NEW i \in ended
                   PROVE  \E k \in DOMAIN log' : log'[k].id = i
        OBVIOUS
      <3>1. PICK k \in DOMAIN log : log[k].id = i
        BY <1>0 DEF EndedInLog
      <3> QED
        BY <1>2, <1>3, <3>1
    <2>2. Len(log) + 1 \in DOMAIN log'
      BY <1>2, <1>3
    <2> QED
      BY <1>3, <2>1, <2>2
  <1> QED
    BY <1>3, <1>5, <1>6, <1>7

LEMMA AppendTurnStep == TranscriptInv /\ AppendTurn => TranscriptInv'
  <1> SUFFICES ASSUME TranscriptInv, AppendTurn PROVE TranscriptInv'
    OBVIOUS
  <1>0. TypeOK /\ LogNumbered /\ MemoryIsFile /\ CurrentIsNext
    BY DEF TranscriptInv
  <1>1. /\ log' = Append(log, current) /\ turns' = log' /\ unterminated' = FALSE
        /\ ended' = ended \cup {current.id} /\ UNCHANGED clock
    BY <1>0 DEF AppendTurn, Glue, LogNumbered, MemoryIsFile, Running
  <1>2. /\ meta' \in Meta /\ metaFile' = meta' /\ meta'.turns = Len(turns')
        /\ meta'.upto = metaFile.upto /\ meta'.summary = metaFile.summary
    <2>1. turns' \in Seq(Turn) /\ Len(turns') \in Nat
      BY <1>0, <1>1 DEF TypeOK
    <2> QED
      BY <1>0, <2>1 DEF AppendTurn, TypeOK, Meta, MemoryIsFile, Running
  <1>3. /\ log' \in Seq(Turn) /\ LogNumbered' /\ SummaryExact' /\ EndedInLog'
    BY <1>1, <1>2, LineAppended DEF AppendTurn, EndedInLog
  <1>4. TypeOK'
    BY <1>0, <1>1, <1>2, <1>3 DEF AppendTurn, TypeOK, Turn
  <1>5. MemoryIsFile' /\ CurrentIsNext'
    BY <1>1, <1>2 DEF AppendTurn, MemoryIsFile, CurrentIsNext
  <1> QED
    BY <1>3, <1>4, <1>5 DEF TranscriptInv

LEMMA CrashStep ==
    ASSUME ~harm', TranscriptInv, Crash
    PROVE  TranscriptInv'
  <1>0. TypeOK /\ LogNumbered /\ SummaryExact /\ EndedInLog
    BY DEF TranscriptInv
  <1>1. /\ turns' = <<>> /\ meta' = FreshMeta /\ pc' = "down"
        /\ UNCHANGED <<metaFile, current, clock, ended>>
    BY DEF Crash
  <1>2. MemoryIsFile' /\ CurrentIsNext'
    BY <1>1 DEF MemoryIsFile, CurrentIsNext, Running
  <1>3. /\ log' \in Seq(Turn) /\ unterminated' = FALSE
        /\ LogNumbered' /\ SummaryExact' /\ EndedInLog'
    <2>1. CASE UNCHANGED <<log, unterminated>>
      BY <1>0, <1>1, <2>1 DEF TypeOK, LogNumbered, SummaryExact, EndedInLog
    <2>2. CASE pc = "generating" /\ log' = Glue(log, current) /\ unterminated' = FALSE
      <3>1. log' = Append(log, current)
        BY <1>0, <2>2 DEF Glue, LogNumbered
      <3> QED
        BY <1>1, <2>2, <3>1, LineAppended DEF EndedInLog
    <2> QED
      BY <2>1, <2>2 DEF Crash
  <1>4. TypeOK'
    <2>1. FreshMeta \in Meta /\ <<>> \in Seq(Turn)
      BY DEF FreshMeta, Meta
    <2> QED
      BY <1>0, <1>1, <1>3, <2>1 DEF TypeOK
  <1> QED
    BY <1>2, <1>3, <1>4 DEF TranscriptInv

THEOREM StepInv == UnharmedInv /\ [Next]_vars => UnharmedInv'
  <1> SUFFICES ASSUME UnharmedInv, [Next]_vars PROVE UnharmedInv'
    OBVIOUS
  <1>a. harm' \in BOOLEAN /\ (~harm' => ~harm)
    BY DEF UnharmedInv, Next, Open, Recreate, BeginTurn, CheckBudget, AppendTurn,
           AppendTurnFails, PostTurn, AbortTurn, CompactRequest, Crash, vars
  <1> SUFFICES ASSUME ~harm' PROVE TranscriptInv'
    BY <1>a DEF UnharmedInv
  <1>b. TranscriptInv
    BY <1>a DEF UnharmedInv
  <1>1. CASE Open
    BY <1>1, <1>b, OpenStep
  <1>2. CASE Recreate
    BY <1>2 DEF Recreate
  <1>3. CASE BeginTurn
    BY <1>3, <1>b, BeginTurnStep
  <1>4. CASE CheckBudget
    BY <1>4, <1>b, CompactionStep DEF CheckBudget, Running
  <1>5. CASE AppendTurn
    BY <1>5, <1>b, AppendTurnStep
  <1>6. CASE AppendTurnFails
    BY <1>6 DEF AppendTurnFails
  <1>7. CASE PostTurn
    <2>1. CompactHistory(TRUE)
      BY <1>7 DEF PostTurn, CompactHistory
    <2> QED
      BY <1>7, <1>b, <2>1, CompactionStep DEF PostTurn, Running
  <1>8. CASE CompactRequest
    BY <1>8, <1>b, CompactionStep DEF CompactRequest, Running
  <1>9. CASE AbortTurn
    BY <1>9, <1>b DEF AbortTurn, TranscriptInv, TypeOK, LogNumbered, SummaryExact, MemoryIsFile,
                CurrentIsNext, EndedInLog, Running
  <1>10. CASE Crash
    BY <1>10, <1>b, CrashStep
  <1>11. CASE UNCHANGED vars
    BY <1>11, <1>b DEF vars, TranscriptInv, TypeOK, LogNumbered, SummaryExact, MemoryIsFile,
                 CurrentIsNext, EndedInLog, Running
  <1> QED
    BY <1>1, <1>2, <1>3, <1>4, <1>5, <1>6, <1>7, <1>8, <1>9, <1>10, <1>11 DEF Next

-----------------------------------------------------------------------------
(* The properties. *)

\* The files and the memory agree as TranscriptInv says until the transcript is
\* harmed, for every recent_turns_min and however many turns, compactions and
\* crashes.
THEOREM UnharmedInvariant == Spec => []UnharmedInv
  <1>1. Init => UnharmedInv
    BY InitInv DEF Init, UnharmedInv
  <1>2. UnharmedInv /\ [Next]_vars => UnharmedInv'
    BY StepInv
  <1> QED
    BY <1>1, <1>2, PTL DEF Spec

\* Every past turn is in the prompt exactly once, as text or in the summary.
THEOREM ContextExactly == Spec => []ContextExact
  <1>1. UnharmedInv => ContextExact
    BY DEF UnharmedInv, TranscriptInv, ContextExact, LogNumbered, SummaryExact, MemoryIsFile, Hidden
  <1> QED
    BY <1>1, UnharmedInvariant, PTL

\* No compaction ever hides one of the newest recent_turns_min turns.
THEOREM WindowStaysVerbatim == Spec => []WindowVerbatim
  <1>1. UnharmedInv => WindowVerbatim
    <2> SUFFICES ASSUME TranscriptInv, Running, NEW k \in DOMAIN turns,
                        k > Len(turns) - RecentTurnsMin
                 PROVE  ~Hidden(turns[k])
      BY DEF UnharmedInv, WindowVerbatim
    <2>1. turns = log /\ meta.upto = metaFile.upto /\ turns[k].index = k
      BY DEF TranscriptInv, MemoryIsFile, LogNumbered
    <2>2. k \in Nat /\ k > 0 /\ Len(turns) \in Nat /\ metaFile.upto \in Nat
      BY DEF TranscriptInv, TypeOK, Meta
    <2>3. metaFile.upto <= Larger(0, Len(turns) - RecentTurnsMin)
      BY <2>1 DEF TranscriptInv, SummaryExact
    <2>4. metaFile.upto < k
      BY <2>2, <2>3, TranscriptAssumption DEF Larger
    <2> QED
      BY <2>1, <2>2, <2>4 DEF Hidden
  <1> QED
    BY <1>1, UnharmedInvariant, PTL

\* No turn the app saw end is ever missing from the file.
THEOREM EndedTurnsAreKept == Spec => []EndedTurnsKept
  <1>1. UnharmedInv => EndedTurnsKept
    BY DEF UnharmedInv, TranscriptInv, EndedTurnsKept
  <1> QED
    BY <1>1, UnharmedInvariant, PTL

\* The number of a turn is its position, before and after it is stored.
THEOREM TurnNumbers == Spec => []TurnsNumbered
  <1>1. UnharmedInv => TurnsNumbered
    BY DEF UnharmedInv, TranscriptInv, TurnsNumbered, LogNumbered, MemoryIsFile, CurrentIsNext
  <1> QED
    BY <1>1, UnharmedInvariant, PTL

\* Only a compaction changes what meta.json records as summarised, and it adds.
THEOREM SummaryGrows == Spec => SummaryOnlyGrows
  <1> DEFINE Grows == /\ metaFile.upto <= metaFile'.upto
                      /\ metaFile.summary \subseteq metaFile'.summary
  <1>1. ASSUME TranscriptInv, ~harm', [Next]_vars
        PROVE  [Grows]_vars
    <2>0. /\ metaFile \in Meta /\ metaFile.upto \in Nat
      BY <1>1 DEF TranscriptInv, TypeOK, Meta
    <2>1. CASE UNCHANGED metaFile
      BY <2>0, <2>1
    <2>2. CASE Running /\ Candidates # {} /\ ApplyCompaction
      <3>1. /\ meta.upto = metaFile.upto /\ meta.summary = metaFile.summary
            /\ meta \in Meta /\ meta.upto \in Nat
        BY <1>1, <2>2 DEF TranscriptInv, MemoryIsFile, TypeOK, Meta
      <3>2. LastCandidate \in DOMAIN turns /\ turns[LastCandidate].index = LastCandidate
        BY <1>1, <2>2, CandidatesRange DEF TranscriptInv
      <3>3. turns[LastCandidate].index \in Nat
        BY <1>1, <3>2 DEF TranscriptInv, TypeOK
      <3>4. meta.upto <= Larger(meta.upto, turns[LastCandidate].index)
        BY <3>1, <3>3 DEF Larger
      <3>5. /\ metaFile'.upto = Larger(meta.upto, turns[LastCandidate].index)
            /\ meta.summary \subseteq metaFile'.summary
        BY <2>2, <3>1 DEF ApplyCompaction, Meta
      <3> QED
        BY <3>1, <3>4, <3>5
    <2>3. CASE AppendTurn
      <3>1. metaFile'.upto = metaFile.upto /\ metaFile'.summary = metaFile.summary
        BY <1>1, <2>3 DEF AppendTurn, TranscriptInv, MemoryIsFile, TypeOK, Meta, Running
      <3> QED
        BY <2>0, <3>1
    <2>4. CASE Recreate \/ AppendTurnFails
      BY <1>1, <2>4 DEF Recreate, AppendTurnFails
    <2>5. CASE CheckBudget \/ PostTurn \/ CompactRequest
      BY <2>1, <2>2, <2>5 DEF CheckBudget, PostTurn, CompactRequest, CompactHistory, Running
    <2> QED
      BY <1>1, <2>1, <2>3, <2>4, <2>5
         DEF Next, vars, Open, BeginTurn, AbortTurn, Crash
  <1> DEFINE GrowsUnharmed == ~harm' => /\ metaFile.upto <= metaFile'.upto
                                        /\ metaFile.summary \subseteq metaFile'.summary
  <1>2. UnharmedInv /\ [Next]_vars => (~harm' => ~harm)
    BY DEF UnharmedInv, Next, Open, Recreate, BeginTurn, CheckBudget, AppendTurn,
           AppendTurnFails, PostTurn, AbortTurn, CompactRequest, Crash, vars
  <1>3. UnharmedInv /\ [Next]_vars => [GrowsUnharmed]_vars
    BY <1>1, <1>2 DEF UnharmedInv
  <1> QED
    BY <1>3, UnharmedInvariant, PTL DEF Spec, SummaryOnlyGrows

-----------------------------------------------------------------------------
(* The session implements the abstract log of turns. *)

Stored == [k \in DOMAIN log |-> log[k].id]

\* One more line with a new identity is a Store of the abstract log.
LEMMA StoreStep ==
    ASSUME TranscriptInv, pc = "generating",
           log' = Append(log, current),
           ended' \in {ended, ended \cup {current.id}},
           metaFile'.upto = metaFile.upto, metaFile'.summary = metaFile.summary,
           UNCHANGED harm
    PROVE  Promised!Next
  <1>1. /\ log \in Seq(Turn) /\ current \in Turn /\ clock \in Nat
        /\ current.id = clock /\ clock > 0 /\ clock <= MaxTurns
        /\ \A k \in DOMAIN log : log[k].id < clock
        /\ \A i \in ended : \E k \in DOMAIN log : log[k].id = i
    BY DEF TranscriptInv, TypeOK, LogNumbered, CurrentIsNext, EndedInLog
  <1>2. /\ Len(log) \in Nat /\ DOMAIN log = 1 .. Len(log)
        /\ DOMAIN log' = 1 .. (Len(log) + 1)
        /\ log'[Len(log) + 1] = current
        /\ \A k \in DOMAIN log : log'[k] = log[k]
    BY <1>1
  <1>3. Stored \in Seq(Nat) /\ Len(Stored) = Len(log) /\ DOMAIN Stored = DOMAIN log
    <2>a. \A k \in 1 .. Len(log) : log[k] \in Turn
      BY <1>1
    <2>1. \A k \in 1 .. Len(log) : log[k].id \in Nat
      BY <2>a DEF Turn
    <2>2. Stored \in [1 .. Len(log) -> Nat]
      BY <1>2, <2>1 DEF Stored
    <2> QED
      BY <1>2, <2>2
  <1>4. Stored' = Append(Stored, current.id)
    <2> DEFINE longer == Append(Stored, current.id)
    <2>1. current.id \in Nat
      BY <1>1
    <2>2. /\ longer \in Seq(Nat) /\ Len(longer) = Len(log) + 1
          /\ longer[Len(log) + 1] = current.id
          /\ \A k \in 1 .. Len(log) : longer[k] = Stored[k]
      BY <1>3, <2>1, AppendProperties
    <2> HIDE DEF longer
    <2>3. longer = [k \in 1 .. (Len(log) + 1) |-> longer[k]]
      BY <1>2, <2>2
    <2>4. \A k \in 1 .. (Len(log) + 1) : longer[k] = log'[k].id
      BY <1>2, <2>2 DEF Stored
    <2>5. Stored' = longer
      BY <1>2, <2>3, <2>4 DEF Stored
    <2> QED
      BY <2>5 DEF longer
  <1>5. /\ current.id \in 1 .. MaxTurns
        /\ \A k \in DOMAIN Stored : Stored[k] # current.id
        /\ current.id \notin ended
    <2>a. \A k \in DOMAIN log : log[k] \in Turn
      BY <1>1
    <2>1. \A k \in DOMAIN log : log[k].id \in Nat /\ log[k].id # clock
      BY <1>1, <2>a DEF Turn
    <2> QED
      BY <1>1, <2>1, TranscriptAssumption DEF Stored
  <1>6. \E turn \in 1 .. MaxTurns : Promised!Store(turn)
    BY <1>4, <1>5 DEF Promised!Store, Stored
  <1> QED
    BY <1>6 DEF Promised!Next

\* A compaction is a Fold of the abstract log.
LEMMA FoldStep ==
    ASSUME TranscriptInv, Running, Candidates # {}, ApplyCompaction,
           UNCHANGED <<log, ended, harm>>
    PROVE  Promised!Next
  <1> DEFINE last == Len(turns) - RecentTurnsMin
  <1>1. TypeOK /\ LogNumbered /\ MemoryIsFile
    BY DEF TranscriptInv
  <1>2. /\ Candidates = {k \in 1 .. last : meta.upto < k}
        /\ LastCandidate = last /\ last \in DOMAIN turns
        /\ turns[last].index = last /\ meta.upto < last
    BY <1>1, CandidatesRange
  <1>3. /\ turns = log /\ meta.upto = metaFile.upto /\ meta.summary = metaFile.summary
        /\ meta \in Meta /\ meta.upto \in Nat /\ last \in Nat
        /\ Len(log) \in Nat /\ DOMAIN log = 1 .. Len(log)
    BY <1>1, <1>2 DEF MemoryIsFile, TypeOK, Meta
  <1>4. Larger(meta.upto, turns[LastCandidate].index) = last
    BY <1>2, <1>3 DEF Larger
  <1>5. /\ metaFile'.upto = last
        /\ metaFile'.summary = metaFile.summary \cup {turns[k].id : k \in Candidates}
    BY <1>3, <1>4 DEF ApplyCompaction, Meta
  <1>6. /\ DOMAIN Stored = DOMAIN log /\ Stored' = Stored
        /\ \A k \in DOMAIN log : Stored[k] = log[k].id
    BY DEF Stored
  <1>7. Len(Stored) = Len(log)
    BY <1>3, <1>6
  <1>8. Candidates = (metaFile.upto + 1) .. last /\ Candidates \subseteq DOMAIN log
    <2>1. \A k : k \in Candidates <=> k \in 1 .. last /\ meta.upto < k
      BY <1>2
    <2>2. \A k : (k \in 1 .. last /\ meta.upto < k) <=> k \in (meta.upto + 1) .. last
      BY <1>3
    <2>3. last <= Len(log)
      BY <1>2, <1>3
    <2>4. \A k \in 1 .. last : k \in DOMAIN log
      BY <1>3, <2>3
    <2> HIDE DEF last
    <2>5. Candidates \subseteq DOMAIN log
      BY <2>1, <2>4
    <2>6. Candidates = (metaFile.upto + 1) .. last
      BY <1>3, <2>1, <2>2
    <2> QED
      BY <2>5, <2>6
  <1>9. {turns[k].id : k \in Candidates} = {Stored[k] : k \in (metaFile.upto + 1) .. last}
    BY <1>3, <1>6, <1>8
  <1>10. last \in (metaFile.upto + 1) .. (Len(Stored) - RecentTurnsMin)
    BY <1>2, <1>3, <1>7, TranscriptAssumption
  <1>11. Promised!Fold(last)
    <2> HIDE DEF last
    <2> QED
      BY <1>5, <1>6, <1>9 DEF Promised!Fold, Stored
  <1> HIDE DEF last
  <1> QED
    BY <1>10, <1>11 DEF Promised!Next, Stored

\* Pictures that become text change no identity.
LEMMA RewriteSame ==
    ASSUME TranscriptInv, BeginTurn
    PROVE  Stored' = Stored
  <1>1. TypeOK /\ turns = log
    BY DEF TranscriptInv, MemoryIsFile, BeginTurn, Running
  <1>2. PICK include \in BOOLEAN : RenderHistory(include)
    BY DEF BeginTurn
  <1>3. CASE log' = Stripped
    BY <1>1, <1>3, StrippedSame DEF Stored
  <1>4. CASE log' = log
    BY <1>4 DEF Stored
  <1> QED
    BY <1>2, <1>3, <1>4 DEF RenderHistory

\* Until the transcript is harmed, a session is a log of turns that only grows,
\* with a summary of a growing beginning of it, whatever the process did with
\* the files in between and wherever it was killed.
THEOREM ImplementsTurnLog == Spec => KeepsTurnLog
  <1>1. Init => Promised!Init
    BY DEF Init, Promised!Init, FreshMeta
  <1>2. ASSUME UnharmedInv, UnharmedInv', [Next]_vars
        PROVE  [Promised!Next]_(Promised!logVars)
    <2>1. CASE harm'
      BY <2>1 DEF Promised!Next, Promised!Harm
    <2>2. CASE ~harm'
      <3>1. ~harm /\ TranscriptInv /\ UNCHANGED harm
        BY <1>2, <2>2
           DEF UnharmedInv, Next, Open, Recreate, BeginTurn, CheckBudget, AppendTurn,
               AppendTurnFails, PostTurn, AbortTurn, CompactRequest, Crash, vars
      <3>2. CASE UNCHANGED <<log, ended>> /\ UNCHANGED metaFile
        BY <3>1, <3>2 DEF Promised!logVars
      <3>3. CASE BeginTurn
        BY <3>1, <3>3, RewriteSame DEF Promised!logVars, Stored, BeginTurn
      <3>4. CASE CheckBudget \/ PostTurn \/ CompactRequest
        <4>1. Running /\ UNCHANGED <<log, ended, harm>>
          BY <3>4 DEF CheckBudget, PostTurn, CompactRequest, Running
        <4>2. UNCHANGED metaFile \/ (Candidates # {} /\ ApplyCompaction)
          BY <3>4 DEF CheckBudget, PostTurn, CompactRequest, CompactHistory
        <4> QED
          BY <3>1, <3>2, <4>1, <4>2, FoldStep
      <3>5. CASE AppendTurn
        <4>1. /\ log' = Append(log, current) /\ ended' = ended \cup {current.id}
              /\ pc = "generating"
          BY <3>1, <3>5 DEF AppendTurn, Glue, TranscriptInv, LogNumbered
        <4>2. metaFile'.upto = metaFile.upto /\ metaFile'.summary = metaFile.summary
          BY <3>1, <3>5 DEF AppendTurn, TranscriptInv, MemoryIsFile, TypeOK, Meta, Running
        <4> QED
          BY <3>1, <4>1, <4>2, StoreStep
      <3>6. CASE Crash
        <4>1. UNCHANGED <<metaFile, ended>>
          BY <3>6 DEF Crash
        <4>2. CASE UNCHANGED log
          BY <3>2, <4>1, <4>2
        <4>3. CASE pc = "generating" /\ log' = Glue(log, current)
          <5>1. log' = Append(log, current)
            BY <3>1, <4>3 DEF Glue, TranscriptInv, LogNumbered
          <5> QED
            BY <3>1, <4>1, <4>3, <5>1, StoreStep
        <4> QED
          BY <2>2, <3>6, <4>2, <4>3 DEF Crash
      <3>7. CASE Open \/ AbortTurn \/ UNCHANGED vars
        BY <3>2, <3>7 DEF Open, AbortTurn, vars
      <3> QED
        BY <1>2, <2>2, <3>3, <3>4, <3>5, <3>6, <3>7 DEF Next, Recreate, AppendTurnFails
    <2> QED
      BY <1>2, <2>1, <2>2 DEF UnharmedInv
  <1>3. UnharmedInv /\ UnharmedInv' /\ [Next]_vars => [Promised!Next]_(Promised!logVars)
    BY <1>2
  <1> QED
    BY <1>1, <1>3, UnharmedInvariant, PTL DEF Spec, KeepsTurnLog, Promised!Spec
-----------------------------------------------------------------------------
(* The order of a transcript, a harmed one too. *)

\* The lines that can be read are of turns 1 .. n, each later than those before.
Ordered(file, n) ==
    /\ file \in Seq(Turn)
    /\ \A k \in DOMAIN file : file[k] # Garbage => file[k].id \in 1 .. n
    /\ \A j, k \in DOMAIN file :
          j < k /\ file[j] # Garbage /\ file[k] # Garbage => file[j].id < file[k].id

Readable(file) == \A k \in DOMAIN file : file[k] # Garbage

UnderWay == pc \in {"rendered", "generating"}

\* The last turn that can be in the transcript: not the one under way.
Recorded == IF UnderWay THEN clock - 1 ELSE clock

\* What OrderKept rests on.
OrderInv ==
    /\ TypeOK
    /\ Ordered(turns, Recorded) /\ Readable(turns)
    /\ Ordered(log, Recorded)
    /\ UnderWay => current.id = clock /\ clock > 0

\* A file is in order up to any later turn.
LEMMA OrderedUpTo ==
    ASSUME NEW file, NEW n \in Nat, NEW m \in Nat, n <= m, Ordered(file, n)
    PROVE  Ordered(file, m)
  <1>1. \A i \in 1 .. n : i \in 1 .. m
    OBVIOUS
  <1> QED
    BY <1>1 DEF Ordered

\* One more line that cannot be read, or of the next turn.
LEMMA AppendOrdered ==
    ASSUME NEW file, NEW n \in Nat, NEW line \in Turn, Ordered(file, n),
           line = Garbage \/ line.id = n + 1
    PROVE  Ordered(Append(file, line), n + 1)
  <1> DEFINE g == Append(file, line)
  <1>1. /\ file \in Seq(Turn) /\ Len(file) \in Nat /\ DOMAIN file = 1 .. Len(file)
        /\ g \in Seq(Turn) /\ DOMAIN g = 1 .. Len(file) + 1
        /\ g[Len(file) + 1] = line /\ \A k \in 1 .. Len(file) : g[k] = file[k]
    BY DEF Ordered
  <1> HIDE DEF g
  <1>2. ASSUME NEW k \in DOMAIN g, g[k] # Garbage
        PROVE  g[k].id \in 1 .. n + 1
    <2>1. CASE k = Len(file) + 1
      BY <1>1, <1>2, <2>1
    <2>2. CASE k # Len(file) + 1
      <3>1. k \in DOMAIN file /\ g[k] = file[k]
        BY <1>1, <2>2
      <3>2. file[k].id \in 1 .. n
        BY <1>2, <3>1 DEF Ordered
      <3> QED
        BY <3>1, <3>2
    <2> QED
      BY <2>1, <2>2
  <1>3. ASSUME NEW j \in DOMAIN g, NEW k \in DOMAIN g,
               j < k, g[j] # Garbage, g[k] # Garbage
        PROVE  g[j].id < g[k].id
    <2>1. j \in DOMAIN file /\ g[j] = file[j]
      BY <1>1, <1>3
    <2>2. file[j].id \in 1 .. n
      BY <1>3, <2>1 DEF Ordered
    <2>3. CASE k = Len(file) + 1
      BY <1>1, <1>3, <2>1, <2>2, <2>3
    <2>4. CASE k # Len(file) + 1
      <3>1. k \in DOMAIN file /\ g[k] = file[k]
        BY <1>1, <2>4
      <3> QED
        BY <1>3, <2>1, <3>1 DEF Ordered
    <2> QED
      BY <2>3, <2>4
  <1>4. Ordered(g, n + 1)
    BY <1>1, <1>2, <1>3 DEF Ordered
  <1> QED
    BY <1>4 DEF g

\* A line that runs into an unfinished one makes that one unreadable.
LEMMA GlueOrdered ==
    ASSUME NEW file, NEW n \in Nat, NEW line \in Turn, Ordered(file, n),
           line = Garbage \/ line.id = n + 1
    PROVE  Ordered(Glue(file, line), n + 1)
  <1>1. CASE unterminated
    <2> DEFINE g == [file EXCEPT ![Len(file)] = Garbage]
    <2>1. Garbage \in Turn /\ file \in Seq(Turn)
      BY DEF Garbage, Turn, Ordered
    <2>2. /\ g \in Seq(Turn) /\ DOMAIN g = DOMAIN file
          /\ \A k \in DOMAIN g : g[k] # Garbage => g[k] = file[k]
      <3>1. Len(file) \in Nat /\ DOMAIN file = 1 .. Len(file)
        BY <2>1
      <3>2. /\ g = [k \in 1 .. Len(file) |-> IF k = Len(file) THEN Garbage ELSE file[k]]
            /\ \A k \in 1 .. Len(file) : file[k] \in Turn
        <4>1. DOMAIN g = 1 .. Len(file)
          BY <3>1
        <4>2. \A k \in 1 .. Len(file) : g[k] = IF k = Len(file) THEN Garbage ELSE file[k]
          BY <3>1
        <4>3. g = [k \in 1 .. Len(file) |-> g[k]]
          BY <4>1
        <4>4. \A k \in 1 .. Len(file) : file[k] \in Turn
          BY <2>1, <3>1
        <4> HIDE DEF g
        <4> QED
          BY <4>1, <4>2, <4>3, <4>4
      <3>3. g \in [1 .. Len(file) -> Turn]
        BY <2>1, <3>2
      <3>4. g \in Seq(Turn)
        BY ZenonT(40), <3>1, <3>3, SeqDef
      <3> QED
        BY <3>1, <3>2, <3>4
    <2> HIDE DEF g
    <2>3. Ordered(g, n)
      <3>1. \A k \in DOMAIN g : g[k] # Garbage => g[k].id \in 1 .. n
        BY <2>2 DEF Ordered
      <3>2. \A j, k \in DOMAIN g :
                j < k /\ g[j] # Garbage /\ g[k] # Garbage => g[j].id < g[k].id
        BY <2>2 DEF Ordered
      <3> QED
        BY <2>2, <3>1, <3>2 DEF Ordered
    <2>4. Ordered(g, n + 1)
      BY <2>3, OrderedUpTo
    <2> QED
      BY <1>1, <2>4 DEF Glue, g
  <1>2. CASE ~unterminated
    BY <1>2, AppendOrdered DEF Glue
  <1> QED
    BY <1>1, <1>2

\* Upto is the function by which ReadTurns is defined.
Reads(Upto, file) ==
    Upto = [k \in 0 .. Len(file) |->
               IF k = 0 THEN <<>>
               ELSE IF file[k] # Garbage THEN Append(Upto[k - 1], file[k])
               ELSE Upto[k - 1]]

\* There is such a function for every file.
LEMMA ReadsExist ==
    ASSUME NEW file \in Seq(Turn), ~Readable(file)
    PROVE  \E Upto : Reads(Upto, file) /\ ReadTurns(file) = Upto[Len(file)]
  <1> DEFINE next(f, k) == IF file[k] # Garbage THEN Append(f, file[k]) ELSE f
             below(F, n) == F = [k \in 0 .. n |-> IF k = 0 THEN <<>> ELSE next(F[k - 1], k)]
             holds == {n \in Nat : \E F : below(F, n)}
  <1>1. 0 \in holds
    <2> DEFINE F == [k \in 0 .. 0 |-> <<>>]
    <2>1. below(F, 0)
      <3> HIDE DEF next
      <3> QED
        OBVIOUS
    <2> QED
      BY <2>1
  <1>2. ASSUME NEW n \in Nat, n \in holds
        PROVE  n + 1 \in holds
    <2> HIDE DEF next
    <2>1. PICK F : below(F, n)
      BY <1>2
    <2> DEFINE G == [k \in 0 .. n + 1 |-> IF k <= n THEN F[k] ELSE next(F[n], n + 1)]
    <2>2. DOMAIN G = 0 .. n + 1
      OBVIOUS
    <2>3. ASSUME NEW k \in 0 .. n + 1
          PROVE  G[k] = IF k = 0 THEN <<>> ELSE next(G[k - 1], k)
      <3>1. CASE k = 0
        BY <2>1, <3>1
      <3>2. CASE k # 0 /\ k <= n
        <4>1. G[k] = F[k] /\ G[k - 1] = F[k - 1]
          BY <3>2
        <4> QED
          BY <2>1, <3>2, <4>1
      <3>3. CASE k = n + 1
        <4>1. G[k] = next(F[n], n + 1) /\ G[n] = F[n]
          BY <3>3
        <4> QED
          BY <3>3, <4>1
      <3> QED
        BY <3>1, <3>2, <3>3
    <2>4. below(G, n + 1)
      BY <2>2, <2>3
    <2> HIDE DEF G
    <2>5. \E H : below(H, n + 1)
      BY <2>4
    <2> QED
      BY <2>5
  <1>3. \A k \in 0 .. Len(file) : k \in holds
    <2> HIDE DEF holds
    <2> QED
      BY <1>1, <1>2, Induction
  <1>4. \E Upto : Reads(Upto, file)
    BY <1>3 DEF Reads
  <1> QED
    BY <1>4 DEF Reads, Readable, ReadTurns

\* Reading a file keeps its order and leaves out what cannot be read.
LEMMA ReadOrdered ==
    ASSUME NEW file, NEW n \in Nat, Ordered(file, n)
    PROVE  Ordered(ReadTurns(file), n) /\ Readable(ReadTurns(file))
  <1>1. CASE Readable(file)
    BY <1>1, ReadWhole DEF Readable
  <1>2. CASE ~Readable(file)
    <2>0. file \in Seq(Turn) /\ Len(file) \in Nat /\ DOMAIN file = 1 .. Len(file)
      BY DEF Ordered
    <2>1. PICK Upto : Reads(Upto, file) /\ ReadTurns(file) = Upto[Len(file)]
      BY <1>2, <2>0, ReadsExist
    \* What was read of the first k lines is in order, and before what follows.
    <2> DEFINE good(g, k) ==
                   /\ Ordered(g, n) /\ Readable(g)
                   /\ \A i \in DOMAIN g : \A j \in k + 1 .. Len(file) :
                          file[j] # Garbage => g[i].id < file[j].id
               holds == {k \in 0 .. Len(file) : good(Upto[k], k)}
    <2>2. 0 \in holds
      <3>1. Upto[0] = <<>>
        BY <2>0, <2>1 DEF Reads
      <3>2. good(<<>>, 0)
        BY DEF Ordered, Readable
      <3> HIDE DEF good
      <3> QED
        BY <2>0, <3>1, <3>2
    <2>3. ASSUME NEW k \in 0 .. Len(file), k \in holds, k < Len(file)
          PROVE  k + 1 \in holds
      <3>0. k \in Nat /\ k + 1 \in 1 .. Len(file) /\ k + 1 \in 0 .. Len(file)
        BY <2>0, <2>3
      <3>1. Upto[k + 1] = IF file[k + 1] # Garbage THEN Append(Upto[k], file[k + 1]) ELSE Upto[k]
        <4>1. k + 1 # 0 /\ (k + 1) - 1 = k
          BY <3>0
        <4> QED
          BY <2>1, <3>0, <4>1 DEF Reads
      <3> DEFINE g == Upto[k]
                 line == file[k + 1]
                 h == Append(g, line)
      <3>2. good(g, k)
        BY <2>3
      <3>3. line \in Turn /\ (line # Garbage => line.id \in 1 .. n)
        BY <2>0, <3>0 DEF Ordered
      <3>4. CASE line = Garbage
        <4>1. \A j \in k + 2 .. Len(file) : j \in k + 1 .. Len(file)
          BY <2>0, <3>0
        <4>2. good(g, k + 1)
          BY <2>0, <3>0, <3>2, <4>1
        <4> HIDE DEF good
        <4> QED
          BY <3>0, <3>1, <3>4, <4>2
      <3>5. CASE line # Garbage
        <4>1. /\ g \in Seq(Turn) /\ Len(g) \in Nat /\ DOMAIN g = 1 .. Len(g)
              /\ Readable(g)
          BY <3>2 DEF Ordered
        <4> HIDE DEF g
        <4>2. /\ h \in Seq(Turn) /\ DOMAIN h = 1 .. Len(g) + 1
              /\ h[Len(g) + 1] = line /\ \A i \in 1 .. Len(g) : h[i] = g[i]
          BY <3>3, <4>1
        <4> HIDE DEF h
        <4>3. ASSUME NEW i \in DOMAIN h
              PROVE  (i \in DOMAIN g /\ h[i] = g[i]) \/ (i = Len(g) + 1 /\ h[i] = line)
          <5>1. i \in 1 .. Len(g) \/ i = Len(g) + 1
            BY <4>1, <4>2
          <5> QED
            BY <4>1, <4>2, <5>1
        <4>4. \A i \in DOMAIN g : g[i].id < line.id /\ g[i].id \in 1 .. n
          <5>1. k + 1 \in k + 1 .. Len(file)
            BY <2>0, <3>0
          <5> QED
            BY <3>2, <3>5, <5>1, <4>1 DEF Ordered, Readable
        <4>5. Readable(h)
          BY <3>5, <4>1, <4>3 DEF Readable
        <4>6. Ordered(h, n)
          <5>1. \A i \in DOMAIN h : h[i].id \in 1 .. n
            BY <3>3, <3>5, <4>3, <4>4
          <5>2. ASSUME NEW i \in DOMAIN h, NEW j \in DOMAIN h, i < j
                PROVE  h[i].id < h[j].id
            <6>1. i \in DOMAIN g /\ h[i] = g[i]
              BY <4>1, <4>2, <4>3, <5>2
            <6>2. CASE j \in DOMAIN g
              <7>1. h[j] = g[j]
                BY <4>1, <4>2, <6>2
              <7> QED
                BY <3>2, <4>1, <5>2, <6>1, <6>2, <7>1 DEF Ordered, Readable
            <6>3. CASE j \notin DOMAIN g
              BY <4>3, <4>4, <6>1, <6>3
            <6> QED
              BY <6>2, <6>3
          <5> QED
            BY <4>2, <5>1, <5>2 DEF Ordered
        <4>7. ASSUME NEW i \in DOMAIN h, NEW j \in (k + 1) + 1 .. Len(file), file[j] # Garbage
              PROVE  h[i].id < file[j].id
          <5>1. j \in k + 1 .. Len(file) /\ j \in DOMAIN file /\ k + 1 < j /\ k + 1 \in DOMAIN file
            BY <2>0, <3>0
          <5>2. line.id < file[j].id
            BY <3>5, <4>7, <5>1 DEF Ordered
          <5>3. \A m \in DOMAIN g : g[m].id < file[j].id
            BY <3>2, <4>7, <5>1
          <5> QED
            BY <4>3, <5>2, <5>3
        <4>8. good(h, k + 1)
          BY <4>5, <4>6, <4>7
        <4>9. Upto[k + 1] = h
          BY <3>1, <3>5 DEF h, g
        <4> HIDE DEF good
        <4> QED
          BY <3>0, <4>8, <4>9
      <3> QED
        BY <3>4, <3>5
    <2> HIDE DEF holds
    <2>4. \A k \in 0 .. Len(file) : k \in holds
      BY <2>0, <2>2, <2>3, Induction
    <2>5. good(Upto[Len(file)], Len(file))
      BY <2>0, <2>4 DEF holds
    <2> QED
      BY <2>1, <2>5
  <1> QED
    BY <1>1, <1>2


\* Pictures that become text change no order.
LEMMA StrippedOrdered ==
    ASSUME NEW n \in Nat, Ordered(turns, n), Readable(turns), 0 \notin 1 .. n
    PROVE  Ordered(Stripped, n) /\ Readable(Stripped)
  <1> DEFINE s == Stripped
  <1>1. turns \in Seq(Turn) /\ Len(turns) \in Nat /\ DOMAIN turns = 1 .. Len(turns)
    BY DEF Ordered
  <1>2. \A k \in DOMAIN turns : StripImage(turns[k]) \in Turn /\ StripImage(turns[k]).id = turns[k].id
    <2> SUFFICES ASSUME NEW k \in DOMAIN turns
                 PROVE  StripImage(turns[k]) \in Turn /\ StripImage(turns[k]).id = turns[k].id
      OBVIOUS
    <2>1. turns[k] \in Turn
      BY <1>1
    <2> QED
      BY <2>1 DEF StripImage, Turn
  <1>3. s \in [1 .. Len(turns) -> Turn] /\ \A k \in DOMAIN turns : s[k].id = turns[k].id
    BY <1>1, <1>2 DEF Stripped
  <1>4. s \in Seq(Turn) /\ DOMAIN s = DOMAIN turns
    BY <1>1, <1>3, SeqDef
  <1> HIDE DEF s
  <1>5. \A k \in DOMAIN s : s[k].id \in 1 .. n
    BY <1>3, <1>4 DEF Ordered, Readable
  <1>6. Readable(s)
    BY <1>5 DEF Readable, Garbage
  <1>7. Ordered(s, n)
    BY SMTT(30), <1>3, <1>4, <1>5 DEF Ordered, Readable
  <1> QED
    BY <1>6, <1>7 DEF s

\* The last turn a compaction folds is one of the transcript.
LEMMA LastFolded ==
    ASSUME TypeOK, Candidates # {}
    PROVE  LastCandidate \in DOMAIN turns
  <1> USE TranscriptAssumption
  <1>1. /\ turns \in Seq(Turn) /\ Len(turns) \in Nat /\ DOMAIN turns = 1 .. Len(turns)
        /\ Len(turns) - RecentTurnsMin \in Int /\ Len(turns) - RecentTurnsMin <= Len(turns)
    BY DEF TypeOK
  <1>2. Candidates \subseteq DOMAIN turns
    <2> SUFFICES ASSUME NEW k \in Candidates PROVE k \in 1 .. Len(turns)
      BY <1>1
    <2>1. k \in 1 .. (Len(turns) - RecentTurnsMin)
      BY DEF Candidates
    <2> QED
      BY <1>1, <2>1
  <1> DEFINE before == {Len(turns) - k : k \in Candidates}
  <1>3. before \subseteq Nat /\ before # {}
    BY <1>1, <1>2
  <1>4. PICK i \in before : \A j \in before : i <= j
    <2> HIDE DEF before
    <2> QED
      BY <1>3, Least
  <1>5. PICK k \in Candidates : i = Len(turns) - k
    BY <1>4
  <1>6. ASSUME NEW j \in Candidates
        PROVE  j <= k
    <2>1. Len(turns) - k <= Len(turns) - j
      BY <1>4, <1>5
    <2> QED
      BY <1>1, <1>2, <2>1
  <1>7. LastCandidate \in Candidates
    BY <1>5, <1>6 DEF LastCandidate
  <1> QED
    BY <1>2, <1>7

\* A compaction leaves a summary of turns, whatever it folds.
LEMMA CompactionTyped ==
    ASSUME TypeOK, CompactHistory(TRUE)
    PROVE  meta' \in Meta /\ metaFile' \in Meta
  <1>1. CASE UNCHANGED <<meta, metaFile>>
    BY <1>1 DEF TypeOK
  <1>2. CASE Candidates # {} /\ ApplyCompaction
    <2>1. LastCandidate \in DOMAIN turns /\ turns \in Seq(Turn)
      BY <1>2, LastFolded DEF TypeOK
    <2>0. \A k \in DOMAIN turns : turns[k].index \in Nat /\ turns[k].id \in Nat
      <3>1. \A k \in DOMAIN turns : turns[k] \in Turn
        BY <2>1, ElementOfSeq
      <3> QED
        BY <3>1 DEF Turn
    <2>2. turns[LastCandidate].index \in Nat
      BY <2>0, <2>1
    <2>3. {turns[k].id : k \in Candidates} \subseteq Nat
      <3>1. Candidates \subseteq DOMAIN turns
        BY TranscriptAssumption DEF TypeOK, Candidates
      <3> QED
        BY <2>0, <3>1
    <2>4. meta \in Meta
      BY DEF TypeOK
    <2> DEFINE folded == {turns[k].id : k \in Candidates}
               last == turns[LastCandidate].index
    <2>5. meta' = [meta EXCEPT !.upto = Larger(meta.upto, last), !.summary = meta.summary \cup folded]
          /\ metaFile' = meta'
      BY <1>2 DEF ApplyCompaction
    <2> HIDE DEF folded, last
    <2>6. Larger(meta.upto, last) \in Nat /\ meta.summary \cup folded \in SUBSET Nat
      BY <2>2, <2>3, <2>4 DEF Larger, Meta, folded, last
    <2> QED
      BY <2>4, <2>5, <2>6 DEF Meta
  <1> QED
    BY <1>1, <1>2 DEF CompactHistory

\* Rendering the history writes back what was in memory.
LEMMA RenderTyped ==
    ASSUME OrderInv, NEW include_history \in BOOLEAN, RenderHistory(include_history)
    PROVE  /\ Ordered(turns', Recorded) /\ Readable(turns')
           /\ Ordered(log', Recorded) /\ unterminated' \in BOOLEAN
  <1>1. Recorded \in Nat
    BY DEF OrderInv, TypeOK, Recorded
  <1>2. CASE UNCHANGED <<turns, log, unterminated>>
    BY <1>2 DEF OrderInv, TypeOK
  <1>3. CASE turns' = Stripped /\ log' = Stripped /\ unterminated' = FALSE
    <2>1. Ordered(Stripped, Recorded) /\ Readable(Stripped)
      BY <1>1, StrippedOrdered DEF OrderInv
    <2> QED
      BY <1>3, <2>1
  <1> QED
    BY <1>2, <1>3 DEF RenderHistory

\* An append cut short leaves the line of this turn, or one that cannot be read.
LEMMA CutShortTyped ==
    ASSUME OrderInv, pc = "generating", CutShort(current)
    PROVE  Ordered(log', clock) /\ unterminated' \in BOOLEAN
  <1>1. clock - 1 \in Nat /\ clock \in Nat /\ (clock - 1) + 1 = clock /\ current \in Turn
        /\ current.id = clock /\ Ordered(log, clock - 1) /\ Garbage \in Turn
    BY DEF OrderInv, TypeOK, Recorded, UnderWay, Garbage, Turn
  <1>2. Ordered(log, clock)
    BY <1>1, OrderedUpTo
  <1>3. Ordered(Glue(log, current), clock) /\ Ordered(Glue(log, Garbage), clock)
    <2>1. Ordered(Glue(log, current), (clock - 1) + 1)
      BY <1>1, GlueOrdered
    <2>2. Ordered(Glue(log, Garbage), (clock - 1) + 1)
      BY <1>1, GlueOrdered
    <2> QED
      BY <1>1, <2>1, <2>2
  <1> QED
    BY <1>2, <1>3 DEF CutShort, OrderInv, TypeOK

\* Every step keeps the order, faults and reused ids included.
LEMMA OrderStep == OrderInv /\ [Next]_vars => OrderInv'
  <1> SUFFICES ASSUME OrderInv, [Next]_vars PROVE OrderInv'
    OBVIOUS
  <1> USE DEF UnderWay, Recorded
  <1>0. /\ TypeOK /\ clock \in Nat /\ current \in Turn
        /\ Ordered(turns, Recorded) /\ Readable(turns) /\ Ordered(log, Recorded)
        /\ UnderWay => current.id = clock /\ clock > 0
    BY DEF OrderInv, TypeOK
  <1>00. Ordered(turns, clock) /\ Ordered(log, clock)
    <2>1. Recorded \in Nat /\ Recorded <= clock
      BY <1>0
    <2> HIDE DEF Recorded
    <2> QED
      BY <1>0, <2>1, OrderedUpTo
  <1>1. CASE Open
    <2>1. Ordered(turns', clock) /\ Readable(turns')
      BY <1>0, <1>00, <1>1, ReadOrdered DEF Open
    <2>2. /\ UNCHANGED <<log, unterminated, metaFile, current, clock, ended>> /\ pc' = "idle"
          /\ meta' = [metaFile EXCEPT !.turns = Len(turns')]
      BY <1>1 DEF Open
    <2>3. turns' \in Seq(Turn) /\ Len(turns') \in Nat
      BY <2>1 DEF Ordered
    <2>4. meta' \in Meta
      BY <1>0, <2>2, <2>3 DEF TypeOK, Meta
    <2> QED
      BY <1>0, <1>00, <2>1, <2>2, <2>3, <2>4 DEF OrderInv, TypeOK
  <1>2. CASE Recreate
    <2>1. FreshMeta \in Meta /\ Ordered(<<>>, clock) /\ Readable(<<>>) /\ <<>> \in Seq(Turn)
      BY DEF FreshMeta, Meta, Ordered, Readable
    <2> QED
      BY <1>0, <1>00, <1>2, <2>1 DEF Recreate, OrderInv, TypeOK
  <1>3. CASE BeginTurn
    <2>1. PICK include_history \in BOOLEAN : RenderHistory(include_history)
      BY <1>3 DEF BeginTurn
    <2>2. /\ Ordered(turns', Recorded) /\ Readable(turns')
          /\ Ordered(log', Recorded) /\ unterminated' \in BOOLEAN
      BY <2>1, RenderTyped
    <2>3. /\ clock' = clock + 1 /\ pc = "idle" /\ pc' = "rendered"
          /\ UNCHANGED <<metaFile, meta, ended>>
      BY <1>3 DEF BeginTurn
    <2>4. Recorded = clock /\ Recorded' = clock
      BY <1>0, <2>3
    <2>5. current' \in Turn /\ current'.id = clock'
      <3>1. PICK image \in BOOLEAN : current' = [index |-> meta.turns + 1, id |-> clock', image |-> image]
        BY <1>3 DEF BeginTurn
      <3>2. meta.turns + 1 \in Nat /\ clock' \in Nat
        BY <1>0, <2>3 DEF TypeOK, Meta
      <3> QED
        BY <3>1, <3>2 DEF Turn
    <2>6. turns' \in Seq(Turn) /\ log' \in Seq(Turn)
      BY <2>2 DEF Ordered
    <2> QED
      BY <1>0, <2>2, <2>3, <2>4, <2>5, <2>6 DEF OrderInv, TypeOK
  <1>4. CASE CheckBudget
    <2>1. meta' \in Meta /\ metaFile' \in Meta
      BY <1>0, <1>4, CompactionTyped DEF CheckBudget
    <2> QED
      BY <1>0, <1>4, <2>1 DEF CheckBudget, OrderInv, TypeOK
  <1>5. CASE AppendTurn
    <2>1. clock - 1 \in Nat /\ (clock - 1) + 1 = clock /\ current.id = clock
          /\ Ordered(turns, clock - 1) /\ Ordered(log, clock - 1) /\ Readable(turns)
      BY <1>0, <1>5 DEF AppendTurn
    <2>2. /\ log' = Glue(log, current) /\ turns' = Append(turns, current)
          /\ unterminated' = FALSE /\ pc' = "ended" /\ UNCHANGED <<current, clock>>
          /\ meta' = [meta EXCEPT !.turns = Len(turns')] /\ metaFile' = meta'
          /\ ended' = ended \cup {current.id}
      BY <1>5 DEF AppendTurn
    <2>3. Ordered(turns', (clock - 1) + 1) /\ Ordered(log', (clock - 1) + 1)
      BY <1>0, <2>1, <2>2, AppendOrdered, GlueOrdered
    <2>4. Readable(turns')
      <3>1. turns \in Seq(Turn) /\ current # Garbage
        BY <1>0, <2>1 DEF TypeOK, Garbage
      <3> QED
        BY <1>0, <2>1, <2>2, <3>1 DEF Readable
    <2>5. turns' \in Seq(Turn) /\ Len(turns') \in Nat /\ log' \in Seq(Turn)
      BY <2>3 DEF Ordered
    <2>6. meta' \in Meta
      BY <1>0, <2>2, <2>5 DEF TypeOK, Meta
    <2>7. ended' \subseteq Nat
      BY <1>0, <2>1, <2>2 DEF TypeOK
    <2> QED
      BY <1>0, <2>1, <2>2, <2>3, <2>4, <2>5, <2>6, <2>7 DEF OrderInv, TypeOK
  <1>6. CASE AppendTurnFails
    <2>1. Ordered(log', clock) /\ unterminated' \in BOOLEAN
      BY <1>6, CutShortTyped DEF AppendTurnFails
    <2>2. log' \in Seq(Turn) /\ ended' \subseteq Nat
      BY <1>0, <1>6, <2>1 DEF Ordered, AppendTurnFails, TypeOK
    <2> QED
      BY <1>0, <1>00, <1>6, <2>1, <2>2 DEF AppendTurnFails, OrderInv, TypeOK
  <1>7. CASE PostTurn
    <2>1. CompactHistory(TRUE)
      BY <1>7 DEF PostTurn, CompactHistory
    <2>2. meta' \in Meta /\ metaFile' \in Meta
      BY <1>0, <2>1, CompactionTyped
    <2> QED
      BY <1>0, <1>00, <1>7, <2>2 DEF PostTurn, OrderInv, TypeOK
  <1>8. CASE AbortTurn
    BY <1>0, <1>00, <1>8 DEF AbortTurn, OrderInv, TypeOK
  <1>9. CASE CompactRequest
    <2>1. meta' \in Meta /\ metaFile' \in Meta
      BY <1>0, <1>9, CompactionTyped DEF CompactRequest
    <2> QED
      BY <1>0, <1>9, <2>1 DEF CompactRequest, OrderInv, TypeOK
  <1>10. CASE Crash
    <2>1. FreshMeta \in Meta /\ Ordered(<<>>, clock) /\ Readable(<<>>) /\ <<>> \in Seq(Turn)
      BY DEF FreshMeta, Meta, Ordered, Readable
    <2>2. /\ turns' = <<>> /\ meta' = FreshMeta /\ pc' = "down"
          /\ UNCHANGED <<metaFile, current, clock, ended>>
      BY <1>10 DEF Crash
    <2>3. Ordered(log', clock) /\ unterminated' \in BOOLEAN
      <3>1. CASE UNCHANGED <<log, unterminated>>
        BY <1>0, <1>00, <3>1 DEF TypeOK
      <3>2. CASE pc = "generating" /\ log' = Glue(log, current) /\ unterminated' = FALSE
        <4>1. clock - 1 \in Nat /\ (clock - 1) + 1 = clock /\ current.id = clock
              /\ Ordered(log, clock - 1)
          BY <1>0, <3>2
        <4>2. Ordered(Glue(log, current), (clock - 1) + 1)
          BY <1>0, <4>1, GlueOrdered
        <4> QED
          BY <3>2, <4>1, <4>2
      <3>3. CASE pc = "generating" /\ CutShort(current)
        BY <3>3, CutShortTyped
      <3> QED
        BY <1>10, <3>1, <3>2, <3>3 DEF Crash
    <2>4. log' \in Seq(Turn)
      BY <2>3 DEF Ordered
    <2> QED
      BY <1>0, <2>1, <2>2, <2>3, <2>4 DEF OrderInv, TypeOK
  <1>11. CASE UNCHANGED vars
    BY <1>0, <1>11 DEF vars, OrderInv, TypeOK
  <1> QED
    BY <1>1, <1>2, <1>3, <1>4, <1>5, <1>6, <1>7, <1>8, <1>9, <1>10, <1>11 DEF Next

\* The transcript never lists a turn twice or out of order, in the file and in
\* memory: torn lines, lines glued to them, restarts that read them back and
\* session ids that are used again included.
THEOREM OrderIsKept == Spec => []OrderKept
  <1>1. Init => OrderInv
    <2> SUFFICES ASSUME Init PROVE OrderInv
      OBVIOUS
    <2>1. TypeOK
      BY InitInv DEF TranscriptInv
    <2>2. \A n : Ordered(<<>>, n) /\ Readable(<<>>)
      BY DEF Ordered, Readable
    <2> QED
      BY <2>1, <2>2 DEF Init, OrderInv, UnderWay
  <1>2. OrderInv => OrderKept
    BY DEF OrderInv, OrderKept, Ordered, Readable
  <1> QED
    BY <1>1, <1>2, OrderStep, PTL DEF Spec
================================================================================
