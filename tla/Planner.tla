-------------------------------- MODULE Planner --------------------------------
(***************************************************************************)
(* The plan of a turn: the steps the model wrote, which of them is under   *)
(* way, and what a tool call does to it.  Translated from AgentPlanner     *)
(* (runtime/agent/agent_planner.cpp), from the tools make_plan and         *)
(* update_plan (agent_tools.cpp) and from run_turn, which keeps the plan.  *)
(*                                                                         *)
(* A plan is the sequence of the statuses of its steps; texts, notes and   *)
(* the names of the tools a step lists are left out.                       *)
(***************************************************************************)
EXTENDS Integers, Sequences

CONSTANT MaxPlanSteps  \* config.max_plan_steps

ASSUME PlannerAssumption == MaxPlanSteps \in Nat \ {0}

VARIABLES
    steps,   \* AgentPlanner::steps_
    marked   \* history: has update_plan made a step of this plan active or pending?

plan == <<steps, marked>>

Statuses == {"pending", "active", "done", "failed", "skipped"}

PlanTypeOK == steps \in Seq(Statuses) /\ marked \in BOOLEAN

With(status, s) == {k \in DOMAIN s : s[k] = status}
First(ks) == CHOOSE k \in ks : \A j \in ks : k <= j

-----------------------------------------------------------------------------
(* AgentPlanner. *)

Active(s) == With("active", s) # {}

\* activate_next: the first pending step, unless a step is active.
ActivateNext(s) ==
    IF Active(s) \/ With("pending", s) = {}
    THEN s
    ELSE [s EXCEPT ![First(With("pending", s))] = "active"]

\* set_plan, for a list with n texts that are not blank.
SetPlan(n) ==
    [k \in 1 .. (IF n < MaxPlanSteps THEN n ELSE MaxPlanSteps) |->
        IF k = 1 THEN "active" ELSE "pending"]

\* update: only a step that ends brings the next one on.
Update(s, k, status) ==
    LET updated == [s EXCEPT ![k] = status]
    IN  IF status \in {"done", "failed"} THEN ActivateNext(updated) ELSE updated

\* Mistake: the call is attached only where a step is active.
NoteActive(s, ok) ==
    IF ~Active(s) \/ ok
    THEN s
    ELSE ActivateNext([s EXCEPT ![First(With("active", s))] = "failed"])

\* note_tool: the call belongs to the active step, or to the one that becomes
\* active; a call that failed fails its step.
NoteTool(s, ok) ==
    LET current == ActivateNext(s) IN
    IF ~Active(current) \/ ok
    THEN current
    ELSE ActivateNext([current EXCEPT ![First(With("active", current))] = "failed"])

\* finish_all
FinishAll(s) ==
    [k \in DOMAIN s |-> IF s[k] \in {"active", "pending"} THEN "done" ELSE s[k]]

-----------------------------------------------------------------------------
(* run_turn. *)

\* What the loop does after a tool has left the plan s: a turn without a plan gets
\* one of a single step, and the call is noted.
Noted(s, ok) == NoteTool(IF s = <<>> THEN SetPlan(1) ELSE s, ok)

BeginPlan ==
    /\ steps' = <<>>
    /\ marked' = FALSE

\* make_plan with n usable steps; one without any string fails and changes
\* nothing, one whose strings are blank empties the plan.
MakePlan ==
    \E n \in 0 .. (MaxPlanSteps + 1) :
        /\ steps' = Noted(SetPlan(n), TRUE)
        /\ marked' = FALSE

\* update_plan of a step that exists.  A status it does not know means pending.
UpdatePlan ==
    \E k \in DOMAIN steps, status \in Statuses :
        /\ steps' = Noted(Update(steps, k, status), TRUE)
        /\ marked' = (marked \/ status \in {"active", "pending"})

\* Any other call, and a make_plan or update_plan that is refused.
OtherCall(ok) ==
    /\ steps' = Noted(steps, ok)
    /\ marked' = (marked /\ steps # <<>>)

FinishPlan ==
    /\ steps' = FinishAll(steps)
    /\ UNCHANGED marked

PlanInit == steps = <<>> /\ marked = FALSE

PlanNext ==
    \/ BeginPlan
    \/ MakePlan
    \/ UpdatePlan
    \/ \E ok \in BOOLEAN : OtherCall(ok)
    \/ FinishPlan

PlanSpec == PlanInit /\ [][PlanNext]_plan

-----------------------------------------------------------------------------
(* What must hold. *)

\* "tracks which step a tool call belongs to" (agent_planner.h:5): as long as the
\* plan has a step that was not begun, the next observation names a current step,
\* whatever the model skips, fails, repeats or marks.
SomeStepCurrent == With("pending", steps) # {} => Active(steps)

\* Unless the model itself puts a step back or forward, the steps are worked on in
\* their order: at most one is active, and none before it is still pending.
StepsInOrder ==
    ~marked => \A a, k \in DOMAIN steps :
                  steps[a] = "active" /\ steps[k] \in {"active", "pending"} => a <= k

PlanInv ==
    /\ PlanTypeOK
    /\ Len(steps) <= MaxPlanSteps
    /\ SomeStepCurrent
    /\ StepsInOrder

=============================================================================
