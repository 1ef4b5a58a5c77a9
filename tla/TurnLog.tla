-------------------------------- MODULE TurnLog --------------------------------
(***************************************************************************)
(* What a session promises, with no word of files, copies in memory,       *)
(* pictures or deaths: a log of turns that only grows, a summary that      *)
(* covers a growing beginning of it and never the newest turns, and turns  *)
(* announced as ended only when they are in the log.  SessionTranscript    *)
(* implements it as long as its transcript is not harmed.                  *)
(***************************************************************************)
EXTENDS Integers, Sequences

CONSTANTS
    Turns,          \* the turns there may be
    RecentTurnsMin  \* newest turns the summary never covers

VARIABLES
    stored,     \* the turns, in order
    folded,     \* how many of them the summary covers
    summary,    \* the turns whose text went into the summary
    announced,  \* the turns announced as ended
    harmed      \* has the storage failed?

logVars == <<stored, folded, summary, announced, harmed>>

Init ==
    /\ stored = <<>>
    /\ folded = 0
    /\ summary = {}
    /\ announced = {}
    /\ harmed = FALSE

\* A new turn is stored; it is announced in the same step or never.
Store(turn) ==
    /\ turn \notin announced
    /\ \A k \in DOMAIN stored : stored[k] # turn
    /\ stored' = Append(stored, turn)
    /\ announced' \in {announced, announced \cup {turn}}
    /\ UNCHANGED <<folded, summary, harmed>>

\* The summary takes in the turns up to the n-th.
Fold(n) ==
    /\ folded' = n
    /\ summary' = summary \cup {stored[k] : k \in (folded + 1) .. n}
    /\ UNCHANGED <<stored, announced, harmed>>

\* Nothing is promised once the storage has failed.
Harm == harmed'

Next ==
    \/ \E turn \in Turns : Store(turn)
    \/ \E n \in (folded + 1) .. (Len(stored) - RecentTurnsMin) : Fold(n)
    \/ Harm

Spec == Init /\ [][Next]_logVars
================================================================================
