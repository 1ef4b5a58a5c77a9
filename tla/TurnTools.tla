------------------------------- MODULE TurnTools -------------------------------
(***************************************************************************)
(* What the tools of a turn and the requests of the app do to the memory   *)
(* and to the plan, in the order in which one process runs them, with      *)
(* turns that fail and processes that die.  Composes MemoryStore and       *)
(* Planner; translated from run_turn, recall, write_memories and the       *)
(* memory requests of AgentRuntime (runtime/agent/agent_runtime.cpp) and   *)
(* from the tools (agent_tools.cpp).  The memory is switched on.           *)
(***************************************************************************)
EXTENDS MemoryStore, Planner

CONSTANTS
    MaxCalls,  \* config.max_tool_calls
    TopK,      \* config.recall_top_k
    Spare      \* what recall may return beyond it (4)

ASSUME TurnToolsAssumption == {MaxCalls, TopK, Spare} \subseteq Nat

VARIABLES
    pc,     \* where the process is
    calls,  \* tool calls of the turn
    deaths  \* deaths of the process so far

vars == <<memory, files, memoryHistory, plan, pc, calls, deaths>>

TypeOK ==
    /\ pc \in {"idle", "turn", "records", "state", "down"}
    /\ {calls, deaths} \subseteq Nat

-----------------------------------------------------------------------------
(* Recall, at the start of a turn. *)

\* Mistake: the list is cut to what the search may return.
RecallTopK(hits) ==
    hits \cup {r \in Pinned(records) \ hits :
                  Cardinality(hits) + Cardinality({q \in Pinned(records) \ hits : q.id <= r.id})
                     <= TopK}

\* recall: what the search found, then the pinned records it did not find, as far as
\* there is room.
Recall(hits) ==
    hits \cup {r \in Pinned(records) \ hits :
                  Cardinality(hits) + Cardinality({q \in Pinned(records) \ hits : q.id <= r.id})
                     <= TopK + Spare}

-----------------------------------------------------------------------------
(* Requests of the app. *)

Unsaved == UNCHANGED <<files, saved, cuts>>

\* A request that changed the memory saves it.
Save == pc' = "records"

DeleteMemory ==
    /\ pc = "idle"
    /\ \E r \in records : Take({r})
    /\ Save
    /\ Unsaved
    /\ UNCHANGED <<sequence, up, made, plan, calls, deaths>>

ClearMemories ==
    /\ pc = "idle"
    /\ \E kinds \in {Kinds} \cup {{kind} : kind \in Kinds}, keep_pinned \in BOOLEAN :
          Take({r \in records : r.kind \in kinds /\ ~(keep_pinned /\ r.pinned)})
    /\ Save
    /\ Unsaved
    /\ UNCHANGED <<sequence, up, made, plan, calls, deaths>>

Remember ==
    /\ pc = "idle"
    /\ \E new \in New : Add(new)
    /\ Save
    /\ Unsaved
    /\ UNCHANGED <<up, removed, promised, plan, calls, deaths>>

\* The first file of a save, then the second and the answer (or turn_end).
SaveRecords ==
    /\ pc = "records"
    /\ WriteRecords
    /\ pc' = "state"
    /\ UNCHANGED <<memory, stateFile, made, removed, promised, cuts, plan, calls, deaths>>

SaveState ==
    /\ pc = "state"
    /\ WriteState
    /\ pc' = "idle"
    /\ UNCHANGED <<memory, file, made, saved, cuts, plan, calls, deaths>>

-----------------------------------------------------------------------------
(* A turn. *)

BeginTurn ==
    /\ pc = "idle"
    /\ BeginPlan
    /\ calls' = 0
    /\ pc' = "turn"
    /\ UNCHANGED <<memory, files, memoryHistory, deaths>>

CallTool ==
    /\ pc = "turn"
    /\ calls < MaxCalls
    /\ calls' = calls + 1
    /\ UNCHANGED <<pc, deaths>>

RememberTool ==
    /\ CallTool
    /\ \E new \in New : Add(new)
    /\ OtherCall(TRUE)
    /\ Unsaved
    /\ UNCHANGED <<up, removed, promised>>

\* forget: the record with an id, or the best match of a query.
ForgetTool ==
    /\ CallTool
    /\ \E r \in records : Take({r})
    /\ OtherCall(TRUE)
    /\ Unsaved
    /\ UNCHANGED <<sequence, up, made>>

PlanTool ==
    /\ CallTool
    /\ MakePlan \/ UpdatePlan
    /\ UNCHANGED <<memory, files, memoryHistory>>

OtherTool ==
    /\ CallTool
    /\ \E ok \in BOOLEAN : OtherCall(ok)
    /\ UNCHANGED <<memory, files, memoryHistory>>

\* Mistake: a turn from which nothing is extracted does not save.
EndTurnSavesExtracted ==
    /\ pc = "turn"
    /\ \/ UNCHANGED <<records, sequence, made>> /\ pc' = "idle"
       \/ (\E new \in New : Add(new)) /\ pc' = "records"
    /\ promised' = [promised EXCEPT !.gone = @ \cup removed]
    /\ FinishPlan
    /\ UNCHANGED <<files, up, removed, saved, cuts, calls, deaths>>

\* write_memories: what was extracted is added (at most one record here; the tools
\* add the others); the memory is saved even if nothing was, for the tools may have
\* changed it.
EndTurn ==
    /\ pc = "turn"
    /\ \/ UNCHANGED <<records, sequence, made>>
       \/ \E new \in New : Add(new)
    /\ Save
    /\ FinishPlan
    /\ Unsaved
    /\ UNCHANGED <<up, removed, promised, calls, deaths>>

\* A generation throws: the memory stays as the tools left it, unsaved.
AbortTurn ==
    /\ pc = "turn"
    /\ pc' = "idle"
    /\ UNCHANGED <<memory, files, memoryHistory, plan, calls, deaths>>

-----------------------------------------------------------------------------
Crash ==
    /\ pc # "down"
    /\ deaths < MaxCrashes
    /\ deaths' = deaths + 1
    /\ Die(pc = "state")
    /\ BeginPlan
    /\ pc' = "down"
    /\ UNCHANGED <<files, made, promised, saved, calls>>

Start ==
    /\ pc = "down"
    /\ Load
    /\ pc' = "idle"
    /\ UNCHANGED <<files, memoryHistory, plan, calls, deaths>>

Init ==
    /\ MemoryInit
    /\ PlanInit
    /\ pc = "idle"
    /\ calls = 0
    /\ deaths = 0

Next ==
    \/ DeleteMemory
    \/ ClearMemories
    \/ Remember
    \/ SaveRecords
    \/ SaveState
    \/ BeginTurn
    \/ RememberTool
    \/ ForgetTool
    \/ PlanTool
    \/ OtherTool
    \/ EndTurn
    \/ AbortTurn
    \/ Crash
    \/ Start

Spec == Init /\ [][Next]_vars

-----------------------------------------------------------------------------
(* What must hold. *)

\* "always appends pinned records" (README.md:280): whatever the search finds, as many
\* pinned records as there is room for beside the hits are in the prompt.
PinnedRecalled ==
    \A hits \in SUBSET records :
        Cardinality(hits) <= TopK /\ Cardinality(Pinned(records) \ hits) <= Spare
            => Pinned(records) \subseteq Recall(hits)

ToolsInv == TypeOK /\ MemoryInv /\ PlanInv

=============================================================================
