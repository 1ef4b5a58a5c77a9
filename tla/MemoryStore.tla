------------------------------ MODULE MemoryStore ------------------------------
(***************************************************************************)
(* The long-term memory: its records, the rules that merge a new one into  *)
(* an old one, pruning, and the two files it is saved to.  Translated from *)
(* MemoryStore (runtime/agent/agent_memory.cpp) and from the requests of   *)
(* the app that change the memory (runtime/agent/agent_runtime.cpp).       *)
(*                                                                         *)
(* A text is its slot (what it says about the user: name, city ...), the   *)
(* value it gives it, its set of tokens, its length, and whether it says   *)
(* that it corrects something.  Importance, tags and access counts are     *)
(* left out: which of the unpinned records prune drops is a free choice.   *)
(***************************************************************************)
EXTENDS Integers, FiniteSets

CONSTANTS
    Texts,       \* the texts that are ever stored
    Kinds,       \* the kinds of records
    MaxRecords,  \* config.memory_max_records
    MaxNew,      \* bound on the records ever made
    MaxCrashes   \* bound on the deaths of the process

NoSlot == "none"

ASSUME MemoryAssumption ==
    /\ \A t \in Texts : /\ DOMAIN t = {"slot", "value", "words", "size", "corrects"}
                        /\ IsFiniteSet(t.words) /\ t.words # {} /\ t.size \in Nat
                        /\ t.corrects \in BOOLEAN
    /\ {MaxRecords, MaxNew, MaxCrashes} \subseteq Nat

VARIABLES
    records,    \* MemoryStore::records_, in the order of their ids
    sequence,   \* MemoryStore::sequence_
    file,       \* memories.jsonl
    stateFile,  \* the sequence in state.json
    up,         \* is there a process?
    made,       \* history: records made so far (created_ms)
    removed,    \* history: records the user deleted since the last save
    promised,   \* history: what was answered to the user or announced with a turn
    saved,      \* history: the ids that were ever on the disk, and whose they were
    cuts        \* history: saves that reached only the first of the two files

memory == <<records, sequence, up>>
files == <<file, stateFile>>
memoryHistory == <<made, removed, promised, saved, cuts>>

Record == [id : Nat, created : Nat, kind : Kinds, text : Texts, pinned : BOOLEAN]

MemoryTypeOK ==
    /\ records \subseteq Record /\ IsFiniteSet(records)
    /\ file \subseteq Record /\ IsFiniteSet(file)
    /\ {sequence, stateFile, made, cuts} \subseteq Nat
    /\ up \in BOOLEAN
    /\ removed \subseteq Nat
    /\ promised \in [pinned : SUBSET Nat, gone : SUBSET Nat]
    /\ saved \subseteq Nat \X Nat

Created(rs) == {r.created : r \in rs}
Pinned(rs) == {r \in rs : r.pinned}
Oldest(rs) == CHOOSE r \in rs : \A q \in rs : r.id <= q.id

-----------------------------------------------------------------------------
(* add: the three rules of de-duplication, in their order. *)

Common(t, u) == Cardinality(t.words \cap u.words)
Total(t, u) == Cardinality(t.words \cup u.words)

\* jaccard, in hundredths.
AtLeast(t, u, hundredths) == Common(t, u) * 100 >= hundredths * Total(t, u)
CloserThan(t, u, v) == Common(t, u) * Total(t, v) >= Common(t, v) * Total(t, u)

SameSlot(new, rs) ==
    {r \in rs : r.kind = new.kind /\ new.text.slot # NoSlot /\ r.text.slot = new.text.slot}

\* The closest of its kind, the oldest of those that are equally close.
Corrected(new, rs) ==
    LET kin == {r \in rs : r.kind = new.kind}
        best == {r \in kin : \A q \in kin : CloserThan(new.text, r.text, q.text)}
    IN  {r \in best : new.text.corrects /\ AtLeast(new.text, r.text, 20) /\ r = Oldest(best)}

NearDuplicates(new, rs) ==
    {r \in rs : r.kind = new.kind /\ AtLeast(new.text, r.text, 72)}

\* Mistake: the record takes the new one's pin.
AbsorbedUnpins(old, new, replaces) ==
    [old EXCEPT !.text = IF replaces \/ new.text.size > @.size THEN new.text ELSE @,
                !.pinned = new.pinned]

\* The old record keeps its id and its pin.
Absorbed(old, new, replaces) ==
    [old EXCEPT !.text = IF replaces \/ new.text.size > @.size THEN new.text ELSE @,
                !.pinned = @ \/ new.pinned]

Put(rs, old, now) == (rs \ {old}) \cup {now}

\* Mistake: prune counts the unpinned records only.
PrunedUnpinned(rs) ==
    IF Cardinality(rs \ Pinned(rs)) <= MaxRecords
    THEN {rs}
    ELSE {kept \in SUBSET rs :
            Pinned(rs) \subseteq kept /\ Cardinality(kept \ Pinned(rs)) = MaxRecords}

\* prune: the pinned records, and the best of the others as far as there is room.
Pruned(rs) ==
    IF Cardinality(rs) <= MaxRecords
    THEN {rs}
    ELSE {kept \in SUBSET rs :
            /\ Pinned(rs) \subseteq kept
            /\ IF Cardinality(Pinned(rs)) >= MaxRecords
               THEN kept = Pinned(rs)
               ELSE Cardinality(kept) = MaxRecords}

Fresh(new) ==
    [id |-> sequence, created |-> made + 1, kind |-> new.kind, text |-> new.text,
     pinned |-> new.pinned]

\* Mistake: the look for a record of the same slot is left out.
AddWithoutSlots(new) ==
    \/ /\ Corrected(new, records) # {}
       /\ LET old == Oldest(Corrected(new, records)) IN
          records' = Put(records, old, Absorbed(old, new, TRUE))
       /\ UNCHANGED <<sequence, made>>
    \/ /\ Corrected(new, records) = {}
       /\ made < MaxNew
       /\ sequence' = sequence + 1
       /\ made' = made + 1
       /\ records' \in Pruned(records \cup {Fresh(new)})

Add(new) ==
    LET slot == SameSlot(new, records)
        corrected == Corrected(new, records)
        near == NearDuplicates(new, records)
    IN
    \/ /\ slot # {}
       /\ LET old == Oldest(slot) IN
          records' = Put(records, old,
                         Absorbed(old, new, old.text.value # new.text.value))
       /\ UNCHANGED <<sequence, made>>
    \/ /\ slot = {} /\ corrected # {}
       /\ LET old == Oldest(corrected) IN
          records' = Put(records, old, Absorbed(old, new, TRUE))
       /\ UNCHANGED <<sequence, made>>
    \/ /\ slot = {} /\ corrected = {} /\ near # {}
       /\ LET old == Oldest(near) IN
          records' = Put(records, old, Absorbed(old, new, FALSE))
       /\ UNCHANGED <<sequence, made>>
    \/ /\ slot = {} /\ corrected = {} /\ near = {}
       /\ made < MaxNew
       /\ sequence' = sequence + 1
       /\ made' = made + 1
       /\ records' \in Pruned(records \cup {Fresh(new)})

New == [kind : Kinds, text : Texts, pinned : BOOLEAN]

\* remove and clear take records away; a promise about them ends.
Take(gone) ==
    /\ records' = records \ gone
    /\ removed' = removed \cup Created(gone)
    /\ promised' = [promised EXCEPT !.pinned = @ \ Created(gone)]

-----------------------------------------------------------------------------
(* save and load. *)

\* The first of the two files.
WriteRecords ==
    /\ file' = records
    /\ saved' = saved \cup {<<r.id, r.created>> : r \in records}

\* The second; the request is answered, or the turn announced as ended, after it.
WriteState ==
    /\ stateFile' = sequence
    /\ promised' = [pinned |-> Created(Pinned(records)), gone |-> promised.gone \cup removed]
    /\ removed' = {}

Larger(a, b) == IF a >= b THEN a ELSE b

Above(rs) == IF rs = {} THEN 1 ELSE (CHOOSE r \in rs : \A q \in rs : r.id >= q.id).id + 1

\* Mistake: state.json is not read.
LoadIgnoresState ==
    /\ up' = TRUE
    /\ records' = file
    /\ sequence' = Above(file)

\* load: the sequence of state.json, raised over the ids of the records.
Load ==
    /\ up' = TRUE
    /\ records' = file
    /\ sequence' = Larger(Above(file), stateFile)

Die(between) ==
    /\ up' = FALSE
    /\ records' = {}
    /\ sequence' = 1
    /\ removed' = {}
    /\ cuts' = IF between THEN cuts + 1 ELSE cuts

MemoryInit ==
    /\ up = TRUE
    /\ records = {}
    /\ sequence = 1
    /\ file = {}
    /\ stateFile = 0
    /\ made = 0
    /\ removed = {}
    /\ promised = [pinned |-> {}, gone |-> {}]
    /\ saved = {}
    /\ cuts = 0

-----------------------------------------------------------------------------
(* What must hold. *)

\* "A different value under the same kind and key replaces the old record"
\* (README.md:258), whatever records are merged, corrected, pruned or lost: at most one
\* record of a kind says what the user's name is.
OneRecordPerSlot ==
    \A r, q \in records :
        r.kind = q.kind /\ r.text.slot = q.text.slot /\ r.text.slot # NoSlot => r = q

\* "pinned records are never pruned" (README.md:234): a record that was pinned when
\* a request was answered or a turn ended is there, and pinned, until the user deletes
\* it: across merges, corrections, pruning and restarts.
PinnedStay ==
    /\ promised.pinned \subseteq Created(Pinned(file))
    /\ up => promised.pinned \subseteq Created(Pinned(records))

\* A memory whose deletion was answered, or that a turn which ended has forgotten,
\* never comes back.
DeletedStayDeleted ==
    promised.gone \cap (Created(records) \cup Created(file)) = {}

\* An id that was on the disk names one record for ever: the app's list may hold ids
\* of records that are gone.  A save reaches the two files one after the other; the
\* sequence survives one save that is cut between them, and not a second one.
IdNamesOneRecord ==
    cuts < 2 => \A a, b \in saved : a[1] = b[1] => a = b

\* The store is over its limit only with pinned records.
Capped == Cardinality(records) > MaxRecords => Pinned(records) = records

MemoryInv ==
    /\ MemoryTypeOK
    /\ \A r, q \in records : r.id = q.id => r = q
    /\ \A r \in records : r.id < sequence
    /\ Capped
    /\ OneRecordPerSlot

=============================================================================
