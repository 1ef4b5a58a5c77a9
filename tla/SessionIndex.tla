------------------------------ MODULE SessionIndex ------------------------------
(***************************************************************************)
(* The list of the conversations: sessions/index.json, one directory per   *)
(* session, and the copy of the list the running process works on.         *)
(* Translated from SessionStore (runtime/agent/agent_session.cpp) and from *)
(* the request handlers of AgentRuntime that drive it.                     *)
(*                                                                         *)
(* A request changes the memory and leaves behind the states the disk will *)
(* go through, one per file operation; kill -9 keeps those it has reached. *)
(* The answer is given with the last.  A turn is its start time; what one  *)
(* transcript holds and how it is compacted is SessionTranscript.  Session *)
(* k is the one named "s<k>".  Sessions created under a name chosen by the *)
(* client are left out.                                                    *)
(***************************************************************************)
EXTENDS Integers, Sequences

CONSTANTS
    MaxSessions,  \* config.max_sessions
    MaxId,        \* bound on the sessions ever made
    MaxClock,     \* bound on the requests and starts that read the clock
    MaxCrashes,   \* bound on the deaths of the process
    Losses        \* may index.json be lost while no process runs?

ASSUME SessionIndexAssumption ==
    /\ {MaxSessions, MaxId, MaxClock, MaxCrashes} \subseteq Nat \ {0}
    /\ Losses \in BOOLEAN

VARIABLES
    disk,      \* the directory sessions/
    todo,      \* the states of it the request under way still has to reach
    up,        \* is there a process?
    index,     \* SessionStore::index_
    sequence,  \* SessionStore::id_sequence_
    meta,      \* SessionStore::meta_ (session 0: none is open)
    clock,     \* now_ms, as the number of times it was read
    crashes,   \* deaths of the process
    promise,   \* history: what the user may count on once the request is answered
    promised   \* history: what the user may count on now

vars == <<disk, todo, up, index, sequence, meta, clock, crashes, promise, promised>>

Ids == 1 .. MaxId

\* A title is a default one the first turn replaces, the first text, the name of
\* the session, or what the user called it; "blank" is what the user called it when
\* that is nothing, or "New session".
Meta == [id : Nat, updated : Nat, title : {"default", "text", "name", "user", "blank"}]
NoMeta == [id |-> 0, updated |-> 0, title |-> "default"]

NoIndex == [sequence |-> 0, sessions |-> <<>>]

\* kept: turns announced as ended, of sessions neither deleted nor evicted.
\* deleted, named: sessions deleted (and not opened since), and those renamed to what
\* is no default title.
Promises == [kept : SUBSET (Ids \X Nat), deleted : SUBSET Ids, named : SUBSET Ids]

Disk == [dirs : SUBSET Ids, lines : [Ids -> SUBSET Nat], metas : [Ids -> Meta],
         index : [sequence : Nat, sessions : Seq(Meta)]]

TypeOK ==
    /\ disk \in Disk /\ todo \in Seq(Disk)
    /\ up \in BOOLEAN
    /\ index \in Seq(Meta) /\ meta \in Meta
    /\ {sequence, clock, crashes} \subseteq Nat
    /\ promise \in Promises /\ promised \in Promises

Listed(sessions) == {sessions[k].id : k \in DOMAIN sessions}

-----------------------------------------------------------------------------
(* File operations.  `s.disks` holds the states of the disk so far.          *)

Now(s) == s.disks[Len(s.disks)]

Write(s, d) ==
    IF d = Now(s) THEN s ELSE [s EXCEPT !.disks = Append(@, d)]

MakeDirectory(s, id) ==
    Write(s, [Now(s) EXCEPT !.dirs = @ \cup {id}])

\* meta.json cannot be written where there is no directory.
WriteMeta(s, m) ==
    IF m.id \in Now(s).dirs
    THEN Write(s, [Now(s) EXCEPT !.metas[m.id] = m])
    ELSE s

WriteIndex(s) ==
    Write(s, [Now(s) EXCEPT
                !.index = [sequence |-> s.sequence, sessions |-> s.index]])

AppendLine(s, id, turn) ==
    Write(s, [Now(s) EXCEPT !.lines[id] = @ \cup {turn}])

\* The files of a session in the order of their names; a directory among them
\* (images/) stays.
RemoveFiles(s, id) ==
    LET unlinked == Write(s, [Now(s) EXCEPT !.metas[id] = NoMeta])
    IN  Write(unlinked, [Now(unlinked) EXCEPT !.lines[id] = {}])

RemoveTree(s, id) ==
    LET emptied == RemoveFiles(s, id)
    IN  Write(emptied, [Now(emptied) EXCEPT !.dirs = @ \ {id}])

-----------------------------------------------------------------------------
(* SessionStore: every operation takes the store and gives the one after it. *)

Store == [disks |-> <<disk>>, index |-> index, sequence |-> sequence, meta |-> meta]

\* Before the first entry of a sorted list that is older than m.
Inserted(sessions, m) ==
    LET k == CHOOSE k \in 1 .. Len(sessions) + 1 :
                 /\ \A j \in 1 .. k - 1 : sessions[j].updated >= m.updated
                 /\ k <= Len(sessions) => sessions[k].updated < m.updated
    IN  SubSeq(sessions, 1, k - 1) \o <<m>> \o SubSeq(sessions, k, Len(sessions))

NewestFirst(sessions) ==
    LET upto[k \in 0 .. Len(sessions)] ==
            IF k = 0 THEN <<>> ELSE Inserted(upto[k - 1], sessions[k])
    IN  upto[Len(sessions)]

\* The entries of other sessions.
Others(sessions, id) ==
    LET upto[k \in 0 .. Len(sessions)] ==
            IF k = 0 THEN <<>>
            ELSE IF sessions[k].id # id THEN Append(upto[k - 1], sessions[k])
            ELSE upto[k - 1]
    IN  upto[Len(sessions)]

\* Mistake: an entry that is not in the index stays out of it.
PersistListed(s) ==
    LET placed == [k \in DOMAIN s.index |->
                     IF s.index[k].id = s.meta.id THEN s.meta ELSE s.index[k]]
    IN  WriteMeta(WriteIndex([s EXCEPT !.index = NewestFirst(placed)]), s.meta)

\* Mistake: the entry is put to the front and its old place kept.
PersistTwice(s) ==
    LET made == MakeDirectory(s, s.meta.id)
    IN  WriteMeta(WriteIndex([made EXCEPT !.index = NewestFirst(<<s.meta>> \o @)]), s.meta)

\* persist_meta: the open session's entry, without a look at the cap.
PersistMeta(s) ==
    LET placed == IF s.meta.id \in Listed(s.index)
                  THEN [k \in DOMAIN s.index |->
                          IF s.index[k].id = s.meta.id THEN s.meta ELSE s.index[k]]
                  ELSE <<s.meta>> \o s.index
        made == MakeDirectory(s, s.meta.id)
    IN  WriteMeta(WriteIndex([made EXCEPT !.index = NewestFirst(placed)]), s.meta)

Evict(s, entry) ==
    IF entry.id \in Now(s).dirs THEN RemoveFiles(s, entry.id) ELSE s

\* The sessions beyond the cap are emptied, the last of the list first, and forgotten.
Capped(s) ==
    LET beyond == IF Len(s.index) > MaxSessions THEN Len(s.index) - MaxSessions ELSE 0
        upto[k \in 0 .. beyond] ==
            IF k = 0 THEN s
            ELSE Evict(upto[k - 1], s.index[Len(s.index) + 1 - k])
    IN  [upto[beyond] EXCEPT !.index = SubSeq(@, 1, Len(@) - beyond)]

\* create: the new session goes to the front.
Create(s, now) ==
    LET m == [id |-> s.sequence, updated |-> now, title |-> "default"]
        made == MakeDirectory([s EXCEPT !.sequence = @ + 1, !.meta = m,
                                        !.index = <<m>> \o @], m.id)
    IN  PersistMeta(WriteIndex(Capped(made)))

\* open: a session without meta.json, or unknown altogether, is made.
OpenStore(s, id, now) ==
    LET m == Now(s).metas[id] IN
    IF m # NoMeta
    THEN [s EXCEPT !.meta = m]
    ELSE [MakeDirectory(s, id) EXCEPT
            !.meta = [id |-> id, updated |-> now, title |-> "name"]]

\* Mistake: like an eviction, a deletion leaves the directory.
RemoveLeavesDirectory(s, id) ==
    LET removed == RemoveFiles(s, id)
        other == Others(s.index, id)
    IN  WriteIndex([removed EXCEPT !.index = other,
                                   !.meta = IF @.id = id THEN NoMeta ELSE @])

RemoveStore(s, id) ==
    LET removed == RemoveTree(s, id)
        other == Others(s.index, id)
    IN  WriteIndex([removed EXCEPT !.index = other,
                                   !.meta = IF @.id = id THEN NoMeta ELSE @])

\* Every listed session, one after the other.
AllRemoved ==
    LET upto[k \in 0 .. Len(index)] ==
            IF k = 0 THEN Store ELSE RemoveStore(upto[k - 1], index[k].id)
    IN  upto[Len(index)]

\* Mistake: the copy of the open session keeps the old title.
RenameEntryOnly(s, id, title, now) ==
    LET k == CHOOSE k \in DOMAIN s.index : s.index[k].id = id
        entry == [s.index[k] EXCEPT !.title = title, !.updated = now]
    IN  WriteIndex(WriteMeta([s EXCEPT !.index[k] = entry], entry))

\* rename: any title is accepted, and the list is not sorted again.
RenameStore(s, id, title, now) ==
    LET k == CHOOSE k \in DOMAIN s.index : s.index[k].id = id
        entry == [s.index[k] EXCEPT !.title = title, !.updated = now]
        named == [s EXCEPT !.index[k] = entry,
                           !.meta.title = IF s.meta.id = id THEN title ELSE @]
    IN  WriteIndex(WriteMeta(named, entry))

\* delete_session opens the first of the list after it removed the open session.
\* initialize does the same with what it has loaded.
OpenSomething(s, now) ==
    IF s.meta.id # 0 THEN s
    ELSE IF s.index # <<>> THEN OpenStore(s, s.index[1].id, now) ELSE Create(s, now)

\* A directory without meta.json is listed under its own name, as of now.
Rebuilt(now) ==
    LET entry(id) == IF disk.metas[id] # NoMeta
                     THEN disk.metas[id]
                     ELSE [id |-> id, updated |-> now, title |-> "name"]
        upto[id \in 0 .. MaxId] ==
            IF id = 0 THEN <<>>
            ELSE IF id \in disk.dirs THEN Append(upto[id - 1], entry(id))
            ELSE upto[id - 1]
    IN  upto[MaxId]

RaisedOver(floor, sessions) ==
    LET above == {n \in floor .. (MaxId + 1) : \A id \in Listed(sessions) : id < n}
    IN  CHOOSE n \in above : \A m \in above : n <= m

\* Mistake: the directories are only listed, the sequence starts again.
LoadForgetsSequence(now) ==
    LET sessions == IF disk.index.sessions # <<>> THEN disk.index.sessions ELSE Rebuilt(now)
    IN  [Store EXCEPT !.index = NewestFirst(sessions),
                      !.sequence = RaisedOver(1, sessions), !.meta = NoMeta]

\* load_index: the directories are looked at when the file lists nothing.
Load(now) ==
    LET sessions == IF disk.index.sessions # <<>> THEN disk.index.sessions ELSE Rebuilt(now)
        from == IF disk.index.sequence = 0 THEN 1 ELSE disk.index.sequence
    IN  [Store EXCEPT !.index = NewestFirst(sessions),
                      !.sequence = RaisedOver(from, sessions), !.meta = NoMeta]

-----------------------------------------------------------------------------
(* Requests. *)

Idle == up /\ todo = <<>>

\* The memory is s at once, the disk follows.  `now` holds until the answer, which
\* brings `then`.
Serve(s, now, then) ==
    /\ todo' = Tail(s.disks)
    /\ index' = s.index
    /\ sequence' = s.sequence
    /\ meta' = s.meta
    /\ promise' = then
    /\ promised' = IF todo' = <<>> THEN then ELSE now

\* now_ms() as a request reads it.
Stamp == clock + 1

Tick == clock < MaxClock /\ clock' = Stamp

\* Nothing is owed any more to sessions that are deleted or evicted.
Without(promises, ids) ==
    [promises EXCEPT !.kept = {turn \in @ : turn[1] \notin ids}, !.named = @ \ ids]

\* The id of the open session of s has been asked for, or given again.
Again(promises, s) == [promises EXCEPT !.deleted = @ \ {s.meta.id}]

\* The sessions a store no longer lists.
Dropped(s) == Listed(index) \ Listed(s.index)

NewSession ==
    /\ Idle
    /\ Tick
    /\ sequence <= MaxId
    /\ LET s == Create(Store, Stamp)
           left == Again(Without(promised, Dropped(s)), s)
       IN  Serve(s, left, left)
    /\ UNCHANGED <<disk, up, crashes>>

\* open_session, history of another session, or the session a turn names.  The
\* client was given the id, but the session may be gone.
OpenSession(id) ==
    /\ Idle
    /\ id < sequence
    /\ Tick
    /\ LET s == OpenStore(Store, id, Stamp)
       IN  Serve(s, Again(promised, s), Again(promised, s))
    /\ UNCHANGED <<disk, up, crashes>>

\* The end of run_turn, up to turn_end: a turn that left something to note first
\* persists the digest (update_session_notes), then append_turn follows.
Turn(noted) ==
    /\ Idle
    /\ meta.id # 0
    /\ Tick
    /\ LET m == [meta EXCEPT !.updated = Stamp,
                             !.title = IF @ \in {"default", "blank"} THEN "text" ELSE @]
           made == MakeDirectory(IF noted THEN PersistMeta(Store) ELSE Store, m.id)
           appended == AppendLine(made, m.id, Stamp)
       IN  Serve(PersistMeta([appended EXCEPT !.meta = m]), promised,
                 [promised EXCEPT !.kept = @ \cup {<<m.id, Stamp>>}])
    /\ UNCHANGED <<disk, up, crashes>>

\* apply_compaction, which dates the open session as of now.
Compact ==
    /\ Idle
    /\ meta.id # 0
    /\ Tick
    /\ Serve(PersistMeta([Store EXCEPT !.meta.updated = Stamp]), promised, promised)
    /\ UNCHANGED <<disk, up, crashes>>

\* What the user may count on while a session is given a title, and once it is.
Renaming(id, title) ==
    IF title = "user" THEN promised ELSE [promised EXCEPT !.named = @ \ {id}]

Named(id, title) ==
    IF title = "user" /\ id \in disk.dirs
    THEN [promised EXCEPT !.named = @ \cup {id}]
    ELSE Renaming(id, title)

RenameSession(id, title) ==
    /\ Idle
    /\ id \in Listed(index)
    /\ Tick
    /\ Serve(RenameStore(Store, id, title, Stamp), Renaming(id, title), Named(id, title))
    /\ UNCHANGED <<disk, up, crashes>>

DeleteSession(id) ==
    /\ Idle
    /\ id < sequence
    /\ Tick
    /\ sequence <= MaxId
    /\ LET s == OpenSomething(RemoveStore(Store, id), Stamp)
           before == Without(promised, {id})
           left == IF s.sequence > sequence THEN Again(before, s) ELSE before
       IN  Serve(s, left,
                 [left EXCEPT !.deleted = @ \cup ({id} \ Listed(s.index))])
    /\ UNCHANGED <<disk, up, crashes>>

DeleteAll ==
    /\ Idle
    /\ Tick
    /\ sequence <= MaxId
    /\ LET s == Create(AllRemoved, Stamp)
           left == Again(Without(promised, Listed(index)), s)
       IN  Serve(s, left, [left EXCEPT !.deleted = @ \cup Listed(index)])
    /\ UNCHANGED <<disk, up, crashes>>

\* One file operation.
Flush ==
    /\ up
    /\ todo # <<>>
    /\ disk' = Head(todo)
    /\ todo' = Tail(todo)
    /\ promised' = IF todo' = <<>> THEN promise ELSE promised
    /\ UNCHANGED <<up, index, sequence, meta, clock, crashes, promise>>

Crash ==
    /\ up
    /\ crashes < MaxCrashes
    /\ crashes' = crashes + 1
    /\ up' = FALSE
    /\ todo' = <<>>
    /\ index' = <<>>
    /\ sequence' = 1
    /\ meta' = NoMeta
    /\ promise' = promised
    /\ UNCHANGED <<disk, clock, promised>>

LoseIndex ==
    /\ Losses
    /\ ~up
    /\ disk' = [disk EXCEPT !.index = NoIndex]
    /\ UNCHANGED <<todo, up, index, sequence, meta, clock, crashes, promise, promised>>

\* initialize
Start ==
    /\ ~up
    /\ Tick
    /\ LET loaded == Load(Stamp)
           s == OpenSomething(loaded, Stamp)
           known == IF loaded.index = <<>> THEN Again(promised, s) ELSE promised
       IN  /\ loaded.index = <<>> => loaded.sequence <= MaxId
           /\ up' = TRUE
           /\ Serve(s, known, known)
    /\ UNCHANGED <<disk, crashes>>

-----------------------------------------------------------------------------
NoPromises == [kept |-> {}, deleted |-> {}, named |-> {}]

Init ==
    /\ disk = [dirs |-> {}, lines |-> [id \in Ids |-> {}],
               metas |-> [id \in Ids |-> NoMeta], index |-> NoIndex]
    /\ todo = <<>>
    /\ up = FALSE
    /\ index = <<>>
    /\ sequence = 1
    /\ meta = NoMeta
    /\ clock = 0
    /\ crashes = 0
    /\ promise = NoPromises
    /\ promised = NoPromises

Next ==
    \/ Start
    \/ NewSession
    \/ \E id \in Ids : OpenSession(id)
    \/ \E noted \in BOOLEAN : Turn(noted)
    \/ Compact
    \/ \E id \in Ids, title \in {"user", "blank"} : RenameSession(id, title)
    \/ \E id \in Ids : DeleteSession(id)
    \/ DeleteAll
    \/ Flush
    \/ Crash
    \/ LoseIndex

Spec == Init /\ [][Next]_vars

-----------------------------------------------------------------------------
(* What must hold. *)

\* "Rebuild from the directories so a lost index never hides history"
\* (agent_session.cpp:43): a turn that was announced as ended is in the transcript
\* of its session, and an idle runtime lists that session, as long as it was
\* neither deleted nor evicted: after crashes between any two file operations,
\* a lost index, and turns in sessions that were opened under a stale id.
NothingHidden ==
    \A turn \in promised.kept :
        /\ turn[2] \in disk.lines[turn[1]]
        /\ Idle => turn[1] \in Listed(index)

\* A deleted session is not listed again until somebody opens it, whatever
\* crashes and losses of the index follow (remove takes the whole tree, so there
\* is nothing left to rebuild it from).
DeletedNotListed ==
    Idle => promised.deleted \cap Listed(index) = {}

\* The name the user gave a session stays its name: in the list, in meta.json and in
\* the open session, which later turns and compactions write back.  A name that reads
\* like the default title is excepted.
NamesStick ==
    Idle => \A id \in promised.named :
        /\ \A k \in DOMAIN index : index[k].id = id => index[k].title = "user"
        /\ meta.id = id => meta.title = "user"

\* rename answers ok to any name (agent_runtime.cpp:548): no turn changes what the user
\* called the open session.
AcceptedNamesStick ==
    [][meta'.id = meta.id /\ meta.title \in {"user", "blank"}
         => meta'.title \in {"user", "blank"}]_vars

\* A session is listed once, its id is never to be given again, and between two
\* requests one session is open.
SessionsInv ==
    /\ TypeOK
    /\ \A j, k \in DOMAIN index : index[j].id = index[k].id => j = k
    /\ up => \A id \in Listed(index) : id < sequence
    /\ up => meta.id # 0

\* A new session starts empty: its directory holds no turn of an earlier session.
\* write_index stores the sequence and load_index raises it above what it lists; an
\* id that is given again after the index was lost is one whose tree was removed.
FreshIsEmpty ==
    [][Idle /\ sequence' > sequence => disk.lines[sequence] = {}]_vars

=============================================================================
