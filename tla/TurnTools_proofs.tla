----------------------------- MODULE TurnTools_proofs -----------------------------
(***************************************************************************)
(* Proofs about TurnTools, for any texts, kinds and limits, any number of  *)
(* records, turns and deaths: one record of a kind says what a slot holds, *)
(* only pinned records exceed the limit, what was pinned stays, what was   *)
(* deleted stays deleted, an id names one record, and a plan has a current *)
(* step.                                                                   *)
(***************************************************************************)
EXTENDS TurnTools, FiniteSetTheorems, WellFoundedInduction, TLAPS

-----------------------------------------------------------------------------
(* The planner alone, for any max_plan_steps and any sequence of calls: a  *)
(* plan with steps that were not begun always has a current one, and the   *)
(* steps are worked on in their order unless the model marks one itself.   *)

Order(s) ==
    \A a, k \in DOMAIN s :
        s[a] = "active" /\ s[k] \in {"active", "pending"} => a <= k

Current(s) == With("pending", s) # {} => Active(s)

\* The first of a set of positions is one of them, and none is before it.
LEMMA FirstIsLeast ==
    ASSUME NEW ks, ks \subseteq Nat, ks # {}
    PROVE  First(ks) \in ks /\ \A j \in ks : First(ks) <= j
  <1>1. PICK k \in ks : \A j \in ks : ~(<<j, k>> \in OpToRel(<, Nat))
    BY NatLessThanWellFounded, WFMin
  <1>2. \E i \in ks : \A j \in ks : i <= j
    <2>1. ASSUME NEW j \in ks
          PROVE  k <= j
      <3>1. j \in Nat /\ k \in Nat
        OBVIOUS
      <3>2. OpToRel(<, Nat) = {ss \in Nat \X Nat : ss[1] < ss[2]}
        BY DEF OpToRel
      <3>3. ~(j < k)
        BY <1>1, <3>1, <3>2
      <3> QED
        BY <3>1, <3>3
    <2> QED
      BY <2>1
  <1> QED
    BY <1>2 DEF First

LEMMA StepsShape ==
    ASSUME NEW s \in Seq(Statuses)
    PROVE  /\ Len(s) \in Nat /\ DOMAIN s = 1 .. Len(s)
           /\ DOMAIN s \subseteq Nat
           /\ \A k \in DOMAIN s : s[k] \in Statuses
  OBVIOUS

\* Changing one status leaves a plan of the same length.
LEMMA OneChanged ==
    ASSUME NEW s \in Seq(Statuses), NEW k \in DOMAIN s, NEW status \in Statuses
    PROVE  LET t == [s EXCEPT ![k] = status] IN
           /\ t \in Seq(Statuses) /\ Len(t) = Len(s) /\ DOMAIN t = DOMAIN s
           /\ t[k] = status
           /\ \A j \in DOMAIN s : j # k => t[j] = s[j]
  OBVIOUS

\* activate_next leaves a current step if there is any to begin, and keeps the
\* order.
LEMMA ActivateNextKeeps ==
    ASSUME NEW s \in Seq(Statuses)
    PROVE  /\ ActivateNext(s) \in Seq(Statuses)
           /\ Len(ActivateNext(s)) = Len(s)
           /\ Current(ActivateNext(s))
           /\ Order(s) => Order(ActivateNext(s))
  <1>1. CASE Active(s) \/ With("pending", s) = {}
    BY <1>1 DEF ActivateNext, Current
  <1>2. CASE ~Active(s) /\ With("pending", s) # {}
    <2> DEFINE p == First(With("pending", s))
               t == [s EXCEPT ![p] = "active"]
    <2>1. With("pending", s) \subseteq Nat
      BY StepsShape DEF With
    <2>2. /\ p \in DOMAIN s /\ p \in Nat
          /\ \A j \in DOMAIN s : s[j] = "pending" => p <= j
      BY <1>2, <2>1, FirstIsLeast DEF With
    <2> HIDE DEF p
    <2>3. /\ t \in Seq(Statuses) /\ Len(t) = Len(s) /\ DOMAIN t = DOMAIN s
          /\ t[p] = "active"
          /\ \A j \in DOMAIN s : j # p => t[j] = s[j]
      BY <2>2, OneChanged DEF Statuses
    <2>4. ActivateNext(s) = t
      BY <1>2 DEF ActivateNext, p
    <2> HIDE DEF t
    <2>5. Current(t)
      BY <2>2, <2>3 DEF Current, Active, With
    <2>6. Order(t)
      <3>1. \A j \in DOMAIN s : s[j] # "active"
        BY <1>2 DEF Active, With
      <3> QED
        BY <2>2, <2>3, <3>1 DEF Order
    <2> QED
      BY <2>3, <2>4, <2>5, <2>6
  <1> QED
    BY <1>1, <1>2

\* A step that leaves the work disturbs no order.
LEMMA LeavingKeepsOrder ==
    ASSUME NEW s \in Seq(Statuses), NEW k \in DOMAIN s,
           NEW status \in {"done", "failed", "skipped"}, Order(s)
    PROVE  Order([s EXCEPT ![k] = status])
  BY OneChanged DEF Order, Statuses

LEMMA NoteToolKeeps ==
    ASSUME NEW s \in Seq(Statuses), NEW ok \in BOOLEAN
    PROVE  /\ NoteTool(s, ok) \in Seq(Statuses)
           /\ Len(NoteTool(s, ok)) = Len(s)
           /\ Current(NoteTool(s, ok))
           /\ Order(s) => Order(NoteTool(s, ok))
  <1> DEFINE current == ActivateNext(s)
             a == First(With("active", current))
             t == [current EXCEPT ![a] = "failed"]
  <1>1. /\ current \in Seq(Statuses) /\ Len(current) = Len(s) /\ Current(current)
        /\ Order(s) => Order(current)
    BY ActivateNextKeeps
  <1> HIDE DEF current
  <1>2. CASE ~Active(current) \/ ok
    BY <1>1, <1>2 DEF NoteTool, current
  <1>3. CASE Active(current) /\ ~ok
    <2>1. With("active", current) \subseteq Nat
      BY <1>1, StepsShape DEF With
    <2>2. a \in DOMAIN current
      BY <1>3, <2>1, FirstIsLeast DEF Active, With
    <2> HIDE DEF a
    <2>3. t \in Seq(Statuses) /\ Len(t) = Len(s)
      BY <1>1, <2>2, OneChanged DEF Statuses
    <2>4. Order(s) => Order(t)
      BY <1>1, <2>2, LeavingKeepsOrder
    <2>5. NoteTool(s, ok) = ActivateNext(t)
      BY <1>3 DEF NoteTool, current, a
    <2> HIDE DEF t
    <2> QED
      BY <2>3, <2>4, <2>5, ActivateNextKeeps
  <1> QED
    BY <1>2, <1>3

LEMMA SetPlanKeeps ==
    ASSUME NEW n \in Nat
    PROVE  /\ SetPlan(n) \in Seq(Statuses)
           /\ Len(SetPlan(n)) <= MaxPlanSteps
           /\ Order(SetPlan(n))
  <1> DEFINE m == IF n < MaxPlanSteps THEN n ELSE MaxPlanSteps
  <1>1. m \in Nat /\ m <= MaxPlanSteps /\ MaxPlanSteps \in Nat
    BY PlannerAssumption
  <1>2. SetPlan(n) = [k \in 1 .. m |-> IF k = 1 THEN "active" ELSE "pending"]
    BY DEF SetPlan
  <1> HIDE DEF m
  <1>3. SetPlan(n) \in [1 .. m -> Statuses]
    BY <1>2 DEF Statuses
  <1>4. SetPlan(n) \in Seq(Statuses) /\ Len(SetPlan(n)) = m
    BY <1>1, <1>3
  <1>5. Order(SetPlan(n))
    BY <1>1, <1>2 DEF Order
  <1> QED
    BY <1>1, <1>4, <1>5

\* What any tool call does to the plan it finds or has just written.
LEMMA NotedKeeps ==
    ASSUME NEW s \in Seq(Statuses), NEW ok \in BOOLEAN, Len(s) <= MaxPlanSteps
    PROVE  /\ Noted(s, ok) \in Seq(Statuses)
           /\ Len(Noted(s, ok)) <= MaxPlanSteps
           /\ Current(Noted(s, ok))
           /\ Order(s) \/ s = <<>> => Order(Noted(s, ok))
  <1> DEFINE planned == IF s = <<>> THEN SetPlan(1) ELSE s
  <1>1. /\ planned \in Seq(Statuses) /\ Len(planned) <= MaxPlanSteps
        /\ Order(s) \/ s = <<>> => Order(planned)
    BY SetPlanKeeps
  <1>2. Noted(s, ok) = NoteTool(planned, ok)
    BY DEF Noted
  <1> HIDE DEF planned
  <1> QED
    BY <1>1, <1>2, NoteToolKeeps

LEMMA PlanInvParts ==
    PlanInv <=> /\ PlanTypeOK /\ Len(steps) <= MaxPlanSteps
                /\ Current(steps)
                /\ ~marked => Order(steps)
  BY DEF PlanInv, SomeStepCurrent, StepsInOrder, Current, Order

LEMMA UpdatePlanStep == PlanInv /\ UpdatePlan => PlanInv'
  <1> SUFFICES ASSUME PlanInv, UpdatePlan PROVE PlanInv'
    OBVIOUS
  <1>1. PICK k \in DOMAIN steps, status \in Statuses :
          /\ steps' = Noted(Update(steps, k, status), TRUE)
          /\ marked' = (marked \/ status \in {"active", "pending"})
    BY DEF UpdatePlan
  <1>2. /\ steps \in Seq(Statuses) /\ Len(steps) <= MaxPlanSteps /\ marked \in BOOLEAN
        /\ ~marked => Order(steps)
    BY PlanInvParts DEF PlanTypeOK
  <1> DEFINE s == [steps EXCEPT ![k] = status]
             u == Update(steps, k, status)
  <1>3. s \in Seq(Statuses) /\ Len(s) = Len(steps)
    BY <1>1, <1>2, OneChanged
  <1>4. ~marked' => Order(s)
    <2> SUFFICES ASSUME ~marked' PROVE Order(s)
      OBVIOUS
    <2>1. ~marked /\ status \in {"done", "failed", "skipped"}
      BY <1>1 DEF Statuses
    <2> QED
      BY <1>1, <1>2, <2>1, LeavingKeepsOrder
  <1>5. u = s \/ u = ActivateNext(s)
    BY DEF Update
  <1> HIDE DEF s, u
  <1>6. u \in Seq(Statuses) /\ Len(u) = Len(steps) /\ (~marked' => Order(u))
    BY <1>3, <1>4, <1>5, ActivateNextKeeps
  <1>7. /\ Noted(u, TRUE) \in Seq(Statuses)
        /\ Len(Noted(u, TRUE)) <= MaxPlanSteps
        /\ Current(Noted(u, TRUE))
        /\ Order(u) => Order(Noted(u, TRUE))
    BY <1>2, <1>6, NotedKeeps
  <1>8. steps' = Noted(u, TRUE)
    BY <1>1 DEF u
  <1>9. marked' \in BOOLEAN
    BY <1>1, <1>2
  <1>10. /\ steps' \in Seq(Statuses) /\ Len(steps') <= MaxPlanSteps
         /\ Current(steps') /\ (~marked' => Order(steps'))
    BY <1>6, <1>7, <1>8
  <1> QED
    BY <1>9, <1>10
       DEF PlanInv, PlanTypeOK, SomeStepCurrent, StepsInOrder, Current, Order

\* A plan without steps.
LEMMA NoStepsKeep ==
    /\ steps = <<>> /\ marked = FALSE => PlanInv
    /\ steps' = <<>> /\ marked' = FALSE => PlanInv'
  <1>1. /\ <<>> \in Seq(Statuses) /\ DOMAIN <<>> = {}
        /\ Len(<<>>) <= MaxPlanSteps
    BY PlannerAssumption
  <1>2. \A status : With(status, <<>>) = {}
    BY <1>1 DEF With
  <1>3. Current(<<>>) /\ Order(<<>>)
    BY <1>1, <1>2 DEF Current, Order
  <1> QED
    BY <1>1, <1>3 DEF PlanInv, PlanTypeOK, SomeStepCurrent, StepsInOrder, Current, Order

LEMMA PlanStep == PlanInv /\ [PlanNext]_plan => PlanInv'
  <1> SUFFICES ASSUME PlanInv, [PlanNext]_plan PROVE PlanInv'
    OBVIOUS
  <1>0. /\ steps \in Seq(Statuses) /\ Len(steps) <= MaxPlanSteps /\ marked \in BOOLEAN
        /\ ~marked => Order(steps)
    BY PlanInvParts DEF PlanTypeOK
  <1>a. ASSUME steps' \in Seq(Statuses), Len(steps') <= MaxPlanSteps, marked' \in BOOLEAN,
               Current(steps'), ~marked' => Order(steps')
        PROVE  PlanInv'
    BY <1>a DEF PlanInv, PlanTypeOK, SomeStepCurrent, StepsInOrder, Current, Order
  <1>1. CASE BeginPlan
    <2>1. steps' = <<>> /\ marked' = FALSE
      BY <1>1 DEF BeginPlan
    <2> QED
      BY <2>1, NoStepsKeep
  <1>2. CASE MakePlan
    <2>1. PICK n \in 0 .. (MaxPlanSteps + 1) :
            steps' = Noted(SetPlan(n), TRUE) /\ marked' = FALSE
      BY <1>2 DEF MakePlan
    <2>2. n \in Nat
      BY PlannerAssumption
    <2> QED
      BY <1>a, <2>1, <2>2, SetPlanKeeps, NotedKeeps
  <1>3. CASE UpdatePlan
    BY <1>3, UpdatePlanStep
  <1>4. CASE \E ok \in BOOLEAN : OtherCall(ok)
    <2>1. PICK ok \in BOOLEAN : OtherCall(ok)
      BY <1>4
    <2>2. steps' = Noted(steps, ok) /\ marked' = (marked /\ steps # <<>>)
      BY <2>1 DEF OtherCall
    <2>3. ~marked' => Order(steps) \/ steps = <<>>
      BY <1>0, <2>2
    <2> QED
      BY <1>0, <1>a, <2>2, <2>3, NotedKeeps
  <1>5. CASE FinishPlan
    <2>1. steps' = FinishAll(steps) /\ marked' = marked
      BY <1>5 DEF FinishPlan
    <2>2. /\ DOMAIN FinishAll(steps) = DOMAIN steps
          /\ \A k \in DOMAIN steps : FinishAll(steps)[k] \in {"done", "failed", "skipped"}
      BY <1>0, StepsShape DEF FinishAll, Statuses
    <2>3. FinishAll(steps) \in Seq(Statuses) /\ Len(FinishAll(steps)) = Len(steps)
      <3>1. FinishAll(steps) \in [1 .. Len(steps) -> Statuses]
        BY <1>0, <2>2, StepsShape DEF FinishAll, Statuses
      <3> QED
        BY <1>0, <3>1
    <2>4. Current(FinishAll(steps)) /\ Order(FinishAll(steps))
      BY <2>2 DEF Current, Order, With
    <2> QED
      BY <1>0, <1>a, <2>1, <2>3, <2>4
  <1>6. CASE UNCHANGED plan
    BY <1>6 DEF plan, PlanInv, PlanTypeOK, SomeStepCurrent, StepsInOrder
  <1> QED
    BY <1>1, <1>2, <1>3, <1>4, <1>5, <1>6 DEF PlanNext

LEMMA PlanStart == PlanInit => PlanInv
  BY NoStepsKeep DEF PlanInit

\* The invariant of the plan, whatever tools are called, refused or fail.
THEOREM PlanInvariant == PlanSpec => []PlanInv
  BY PlanStart, PlanStep, PTL DEF PlanSpec

\* A plan with a step that was not begun has a current one.
THEOREM AlwaysACurrentStep == PlanSpec => []SomeStepCurrent
  <1>1. PlanInv => SomeStepCurrent
    BY DEF PlanInv
  <1> QED
    BY <1>1, PlanInvariant, PTL

-----------------------------------------------------------------------------
(* The inductive invariant. *)

\* A set of records as the store keeps it, and as the file holds it.
Whole(rs, m) ==
    /\ rs \subseteq Record /\ IsFiniteSet(rs)
    /\ \A r \in rs : r.id <= m /\ r.created <= m
    /\ \A r, q \in rs : r.id = q.id \/ r.created = q.created => r = q
    /\ \A r, q \in rs :
          r.kind = q.kind /\ r.text.slot = q.text.slot /\ r.text.slot # NoSlot => r = q
    /\ Cardinality(rs) > MaxRecords => Pinned(rs) = rs

\* PinnedStay and DeletedStayDeleted, and what they rest on: what is deleted and not
\* yet saved is out of the memory, and no record to come has its creation time.
HistoryInv ==
    /\ removed \cap Created(records) = {}
    /\ \A c \in removed \cup promised.gone : c <= made
    /\ PinnedStay
    /\ DeletedStayDeleted

StoreInv ==
    /\ MemoryTypeOK
    /\ Whole(records, made) /\ Whole(file, made)
    /\ \A r \in records : r.id < sequence
    /\ sequence <= made + 1 /\ stateFile <= made + 1
    /\ ~up => records = {} /\ removed = {}
    /\ HistoryInv

\* Between the two files of a save, the first is what is in memory.
PlaceInv ==
    /\ up <=> pc # "down"
    /\ pc = "state" => file = records

IInv == TypeOK /\ StoreInv /\ PlaceInv /\ PlanInv

-----------------------------------------------------------------------------
(* Records. *)

LEMMA OldestIsLeast ==
    ASSUME NEW rs, rs \subseteq Record, rs # {}
    PROVE  Oldest(rs) \in rs
  <1> DEFINE ids == {r.id : r \in rs}
  <1>1. ids \subseteq Nat /\ ids # {}
    BY DEF Record
  <1>2. First(ids) \in ids /\ \A j \in ids : First(ids) <= j
    BY <1>1, FirstIsLeast
  <1>3. \E r \in rs : \A q \in rs : r.id <= q.id
    BY <1>2
  <1> QED
    BY <1>3 DEF Oldest

\* The sequence that load derives from the records is above all of them.
LEMMA AboveAll ==
    ASSUME NEW rs, rs \subseteq Record, NEW m \in Nat, \A r \in rs : r.id <= m
    PROVE  /\ Above(rs) \in Nat /\ Above(rs) <= m + 1
           /\ \A r \in rs : r.id < Above(rs)
  <1>1. CASE rs = {}
    BY <1>1 DEF Above
  <1>2. CASE rs # {}
    <2> DEFINE ds == {m - r.id : r \in rs}
    <2>1. \A r \in rs : r.id \in Nat
      BY DEF Record
    <2>2. ds \subseteq Nat /\ ds # {}
      BY <1>2, <2>1
    <2>3. First(ds) \in ds /\ \A j \in ds : First(ds) <= j
      BY <2>2, FirstIsLeast
    <2>4. PICK r \in rs : First(ds) = m - r.id
      BY <2>3
    <2>5. \A q \in rs : m - r.id <= m - q.id
      BY <2>3, <2>4
    <2>6. \A q \in rs : r.id >= q.id
      BY <2>1, <2>5
    <2> DEFINE top == CHOOSE t \in rs : \A q \in rs : t.id >= q.id
    <2>7. top \in rs /\ \A q \in rs : top.id >= q.id
      BY <2>6
    <2>8. Above(rs) = top.id + 1
      BY <1>2 DEF Above
    <2> HIDE DEF top
    <2> QED
      BY <2>1, <2>7, <2>8
  <1> QED
    BY <1>1, <1>2

LEMMA AbsorbedRecord ==
    ASSUME NEW old \in Record, NEW new \in New, NEW replaces \in BOOLEAN
    PROVE  LET now == Absorbed(old, new, replaces) IN
           /\ now \in Record
           /\ now.id = old.id /\ now.created = old.created /\ now.kind = old.kind
           /\ now.text \in {old.text, new.text}
           /\ old.pinned => now.pinned
  BY DEF Absorbed, Record, New

LEMMA LaterWhole ==
    ASSUME NEW rs, NEW m \in Nat, NEW n \in Nat, m <= n, Whole(rs, m)
    PROVE  Whole(rs, n)
  <1>1. \A r \in rs : r.id \in Nat /\ r.created \in Nat /\ r.id <= m /\ r.created <= m
    BY DEF Whole, Record
  <1>2. \A r \in rs : r.id <= n /\ r.created <= n
    BY <1>1
  <1> QED
    BY <1>2 DEF Whole

LEMMA PartWhole ==
    ASSUME NEW rs, NEW m \in Nat, Whole(rs, m), NEW part, part \subseteq rs
    PROVE  Whole(part, m)
  <1>1. IsFiniteSet(rs) /\ IsFiniteSet(part) /\ Cardinality(part) <= Cardinality(rs)
    BY FS_Subset DEF Whole
  <1>2. Cardinality(rs) \in Nat /\ Cardinality(part) \in Nat /\ MaxRecords \in Nat
    BY <1>1, FS_CardinalityType, MemoryAssumption
  <1>3. Cardinality(part) > MaxRecords => Pinned(part) = part
    <2> SUFFICES ASSUME Cardinality(part) > MaxRecords PROVE Pinned(part) = part
      OBVIOUS
    <2>1. Pinned(rs) = rs
      BY <1>1, <1>2 DEF Whole
    <2> QED
      BY <2>1 DEF Pinned
  <1> QED
    BY <1>1, <1>3 DEF Whole

\* A record that absorbs a new one: nothing is lost, and a slot is said once if the
\* text it now has says a slot that no other record says.
LEMMA PutWhole ==
    ASSUME NEW rs, NEW m \in Nat, Whole(rs, m),
           NEW old \in rs, NEW now \in Record,
           now.id = old.id, now.created = old.created, old.pinned => now.pinned,
           \A q \in rs \ {old} :
               q.kind = now.kind /\ now.text.slot # NoSlot => q.text.slot # now.text.slot
    PROVE  /\ Whole(Put(rs, old, now), m)
           /\ \A r \in Put(rs, old, now) : \E q \in rs : r.id = q.id /\ r.created = q.created
           /\ Created(Pinned(rs)) \subseteq Created(Pinned(Put(rs, old, now)))
  <1> DEFINE put == Put(rs, old, now)
  <1>1. put = (rs \ {old}) \cup {now}
    BY DEF Put
  <1>2. IsFiniteSet(rs) /\ Cardinality(rs) \in Nat /\ MaxRecords \in Nat
    BY FS_CardinalityType, MemoryAssumption DEF Whole
  <1>3. IsFiniteSet(put) /\ Cardinality(put) <= Cardinality(rs) /\ Cardinality(put) \in Nat
    <2>1. IsFiniteSet(rs \ {old}) /\ Cardinality(rs \ {old}) = Cardinality(rs) - 1
      BY <1>2, FS_RemoveElement
    <2>2. /\ IsFiniteSet(put)
          /\ Cardinality(put) = IF now \in rs \ {old} THEN Cardinality(rs \ {old})
                                ELSE Cardinality(rs \ {old}) + 1
      BY <1>1, <2>1, FS_AddElement
    <2>3. Cardinality(put) \in Nat
      BY <2>2, FS_CardinalityType
    <2> QED
      BY <1>2, <2>1, <2>2, <2>3
  <1>4. \A r \in put : \E q \in rs : r.id = q.id /\ r.created = q.created
    BY <1>1
  <1>5. put \subseteq Record /\ \A r \in put : r.id <= m /\ r.created <= m
    BY <1>1 DEF Whole
  <1>6. \A r, q \in put : r.id = q.id \/ r.created = q.created => r = q
    BY <1>1 DEF Whole
  <1>7. \A r, q \in put :
          r.kind = q.kind /\ r.text.slot = q.text.slot /\ r.text.slot # NoSlot => r = q
    BY <1>1 DEF Whole
  <1>8. Cardinality(put) > MaxRecords => Pinned(put) = put
    <2> SUFFICES ASSUME Cardinality(put) > MaxRecords PROVE Pinned(put) = put
      OBVIOUS
    <2>1. Pinned(rs) = rs
      BY <1>2, <1>3 DEF Whole
    <2> QED
      BY <1>1, <2>1 DEF Pinned
  <1>9. Created(Pinned(rs)) \subseteq Created(Pinned(put))
    BY <1>1 DEF Created, Pinned
  <1> QED
    BY <1>3, <1>4, <1>5, <1>6, <1>7, <1>8, <1>9 DEF Whole

\* A new record, and what prune leaves.
LEMMA FreshWhole ==
    ASSUME NEW rs, NEW m \in Nat, Whole(rs, m),
           NEW f \in Record, f.created = m + 1, f.id <= m + 1,
           \A r \in rs : r.id # f.id,
           \A q \in rs : q.kind = f.kind /\ f.text.slot # NoSlot => q.text.slot # f.text.slot,
           NEW kept \in Pruned(rs \cup {f})
    PROVE  /\ Whole(kept, m + 1)
           /\ \A r \in kept : r = f \/ r \in rs
           /\ Created(Pinned(rs)) \subseteq Created(Pinned(kept))
  <1> DEFINE all == rs \cup {f}
  <1>1. IsFiniteSet(all) /\ Cardinality(all) \in Nat /\ MaxRecords \in Nat
    BY FS_AddElement, FS_CardinalityType, MemoryAssumption DEF Whole
  <1>2. kept \subseteq all /\ Pinned(all) \subseteq kept
    BY DEF Pruned, Pinned
  <1>3. IsFiniteSet(kept)
    BY <1>1, <1>2, FS_Subset
  <1>4. Cardinality(kept) > MaxRecords => Pinned(kept) = kept
    <2> SUFFICES ASSUME Cardinality(kept) > MaxRecords PROVE Pinned(kept) = kept
      OBVIOUS
    <2>1. kept = Pinned(all)
      BY <1>1 DEF Pruned
    <2> QED
      BY <2>1 DEF Pinned
  <1>5. \A r \in rs : /\ r.id \in Nat /\ r.created \in Nat
                      /\ r.id <= m /\ r.created <= m
                      /\ r.id <= m + 1 /\ r.created <= m + 1 /\ r.created # m + 1
    BY DEF Whole, Record
  <1>6. \A r \in all : r.id <= m + 1 /\ r.created <= m + 1
    BY <1>5
  <1>7. \A r, q \in all : r.id = q.id \/ r.created = q.created => r = q
    BY <1>5 DEF Whole
  <1>8. \A r, q \in all :
          r.kind = q.kind /\ r.text.slot = q.text.slot /\ r.text.slot # NoSlot => r = q
    BY DEF Whole
  <1>9. all \subseteq Record
    BY DEF Whole
  <1>10. Created(Pinned(rs)) \subseteq Created(Pinned(kept))
    BY <1>2 DEF Created, Pinned
  <1> QED
    BY <1>2, <1>3, <1>4, <1>6, <1>7, <1>8, <1>9, <1>10 DEF Whole
-----------------------------------------------------------------------------
(* What the operations of the store do to the invariant. *)

\* add, whichever of its rules applies.
LEMMA AddKeeps ==
    ASSUME StoreInv, NEW new \in New, Add(new)
    PROVE  /\ made' \in Nat /\ made <= made' /\ sequence' \in Nat
           /\ sequence' <= made' + 1
           /\ Whole(records', made')
           /\ \A r \in records' : r.id < sequence'
           /\ \A r \in records' : r.created > made \/ r.created \in Created(records)
           /\ sequence <= sequence'
           /\ \A r \in records' : \/ r.id = sequence
                                  \/ \E q \in records : r.id = q.id /\ r.created = q.created
           /\ Created(Pinned(records)) \subseteq Created(Pinned(records'))
  <1> DEFINE slot == SameSlot(new, records)
             corrected == Corrected(new, records)
             near == NearDuplicates(new, records)
  <1>0. /\ records \subseteq Record /\ made \in Nat /\ sequence \in Nat
        /\ Whole(records, made) /\ sequence <= made + 1
        /\ \A r \in records : r.id < sequence
    BY DEF StoreInv, MemoryTypeOK
  <1>1. /\ slot \subseteq records /\ corrected \subseteq records /\ near \subseteq records
    BY DEF SameSlot, Corrected, NearDuplicates
  \* The three rules that let an old record absorb the new one.
  <1>a. ASSUME NEW old \in records, NEW replaces \in BOOLEAN,
               records' = Put(records, old, Absorbed(old, new, replaces)),
               UNCHANGED <<sequence, made>>,
               old.kind = new.kind,
               slot = {} \/ old \in slot
        PROVE  /\ made' \in Nat /\ made <= made' /\ sequence' \in Nat
               /\ sequence' <= made' + 1
               /\ Whole(records', made')
               /\ \A r \in records' : r.id < sequence'
               /\ \A r \in records' : r.created > made \/ r.created \in Created(records)
               /\ sequence <= sequence'
               /\ \A r \in records' : \/ r.id = sequence
                                      \/ \E q \in records : r.id = q.id /\ r.created = q.created
               /\ Created(Pinned(records)) \subseteq Created(Pinned(records'))
    <2> DEFINE now == Absorbed(old, new, replaces)
    <2>0. old \in Record
      BY <1>0
    <2>1. /\ now \in Record
          /\ now.id = old.id /\ now.created = old.created /\ now.kind = old.kind
          /\ now.text = old.text \/ now.text = new.text
          /\ old.pinned => now.pinned
      BY <2>0, AbsorbedRecord
    <2>2. records' = Put(records, old, now)
      BY <1>a
    <2> HIDE DEF now
    <2>3. \A q \in records \ {old} :
            q.kind = now.kind /\ now.text.slot # NoSlot => q.text.slot # now.text.slot
      <3> SUFFICES ASSUME NEW q \in records \ {old},
                          q.kind = now.kind, now.text.slot # NoSlot,
                          q.text.slot = now.text.slot
                   PROVE  FALSE
        OBVIOUS
      <3>1. CASE now.text = old.text
        BY <1>0, <2>1, <3>1 DEF Whole
      <3>2. CASE now.text = new.text
        <4>1. q \in slot
          BY <1>a, <2>1, <3>2 DEF SameSlot
        <4>2. old.text.slot = new.text.slot
          BY <1>a, <4>1 DEF SameSlot
        <4> QED
          BY <1>0, <2>1, <3>2, <4>2 DEF Whole
      <3> QED
        BY <2>1, <3>1, <3>2
    <2>4. /\ Whole(records', made)
          /\ \A r \in records' : \E q \in records : r.id = q.id /\ r.created = q.created
          /\ Created(Pinned(records)) \subseteq Created(Pinned(records'))
      BY <1>0, <2>1, <2>2, <2>3, PutWhole
    <2>5. \A r \in records' : r.id < sequence /\ r.created \in Created(records)
      BY <1>0, <2>4 DEF Created
    <2> QED
      BY <1>0, <1>a, <2>4, <2>5
  <1>2. CASE /\ slot # {}
             /\ records' = Put(records, Oldest(slot),
                               Absorbed(Oldest(slot), new,
                                        Oldest(slot).text.value # new.text.value))
             /\ UNCHANGED <<sequence, made>>
    <2>1. Oldest(slot) \in slot
      BY <1>0, <1>1, <1>2, OldestIsLeast
    <2>2. Oldest(slot) \in records /\ Oldest(slot).kind = new.kind
      BY <2>1 DEF SameSlot
    <2> QED
      BY <1>2, <1>a, <2>1, <2>2
  <1>3. CASE /\ slot = {} /\ corrected # {}
             /\ records' = Put(records, Oldest(corrected),
                               Absorbed(Oldest(corrected), new, TRUE))
             /\ UNCHANGED <<sequence, made>>
    <2>1. Oldest(corrected) \in corrected
      BY <1>0, <1>1, <1>3, OldestIsLeast
    <2>2. Oldest(corrected) \in records /\ Oldest(corrected).kind = new.kind
      BY <2>1 DEF Corrected
    <2> QED
      BY <1>3, <1>a, <2>2
  <1>4. CASE /\ slot = {} /\ near # {}
             /\ records' = Put(records, Oldest(near), Absorbed(Oldest(near), new, FALSE))
             /\ UNCHANGED <<sequence, made>>
    <2>1. Oldest(near) \in near
      BY <1>0, <1>1, <1>4, OldestIsLeast
    <2>2. Oldest(near) \in records /\ Oldest(near).kind = new.kind
      BY <2>1 DEF NearDuplicates
    <2> QED
      BY <1>4, <1>a, <2>2
  <1>5. CASE /\ slot = {}
             /\ sequence' = sequence + 1 /\ made' = made + 1
             /\ records' \in Pruned(records \cup {Fresh(new)})
    <2> DEFINE f == Fresh(new)
    <2>1. /\ f \in Record /\ f.id = sequence /\ f.created = made + 1
          /\ f.kind = new.kind /\ f.text = new.text
      BY <1>0 DEF Fresh, Record, New
    <2>2. records' \in Pruned(records \cup {f})
      BY <1>5
    <2> HIDE DEF f
    <2>3. \A r \in records : r.id # f.id /\ r.id \in Nat
      BY <1>0, <2>1 DEF Record
    <2>4. \A q \in records :
            q.kind = f.kind /\ f.text.slot # NoSlot => q.text.slot # f.text.slot
      BY <1>5, <2>1 DEF SameSlot
    <2>5. /\ Whole(records', made + 1)
          /\ \A r \in records' : r = f \/ r \in records
          /\ Created(Pinned(records)) \subseteq Created(Pinned(records'))
      BY <1>0, <2>1, <2>2, <2>3, <2>4, FreshWhole
    <2>6. \A r \in records' : r.id < sequence + 1
      BY <1>0, <2>1, <2>3, <2>5
    <2>7. \A r \in records' : r.created > made \/ r.created \in Created(records)
      BY <1>0, <2>1, <2>5 DEF Created
    <2>8. \A r \in records' :
            \/ r.id = sequence
            \/ \E q \in records : r.id = q.id /\ r.created = q.created
      BY <2>1, <2>5
    <2>9. /\ made' \in Nat /\ made <= made' /\ sequence' \in Nat
          /\ sequence' <= made' + 1 /\ sequence <= sequence'
      BY <1>0, <1>5
    <2> QED
      BY <1>5, <2>5, <2>6, <2>7, <2>8, <2>9
  <1> QED
    BY <1>2, <1>3, <1>4, <1>5 DEF Add

\* An operation that adds at most one record keeps the invariant of the store.
LEMMA AddStep ==
    ASSUME StoreInv, NEW new \in New, Add(new), up,
           UNCHANGED <<files, saved, cuts, up, removed, promised>>
    PROVE  StoreInv'
  <1>0. /\ MemoryTypeOK /\ Whole(file, made) /\ stateFile <= made + 1 /\ HistoryInv
        /\ made \in Nat /\ stateFile \in Nat
    BY DEF StoreInv, MemoryTypeOK
  <1>1. /\ made' \in Nat /\ made <= made' /\ sequence' \in Nat
        /\ sequence' <= made' + 1
        /\ Whole(records', made')
        /\ \A r \in records' : r.id < sequence'
        /\ \A r \in records' : r.created > made \/ r.created \in Created(records)
        /\ Created(Pinned(records)) \subseteq Created(Pinned(records'))
    BY AddKeeps
  <1>2. Whole(file, made') /\ stateFile <= made' + 1
    <2>1. Whole(file, made')
      BY <1>0, <1>1, LaterWhole
    <2>2. \A m, n, k \in Nat : k <= m + 1 /\ m <= n => k <= n + 1
      OBVIOUS
    <2>3. stateFile <= made' + 1
      BY <1>0, <1>1, <2>2, Zenon
    <2> QED
      BY <2>1, <2>3
  <1>3. file' = file /\ stateFile' = stateFile
    BY DEF files
  <1>4. MemoryTypeOK'
    BY <1>0, <1>1, <1>3 DEF MemoryTypeOK, Whole
  <1>5. HistoryInv'
    <2>1. \A c \in removed \cup promised.gone : c <= made /\ c \in Nat
      BY <1>0 DEF HistoryInv, MemoryTypeOK
    <2>2. \A c \in removed \cup promised.gone : c <= made'
      BY <1>0, <1>1, <2>1
    <2>3. \A r \in records' : r.created \in removed \cup promised.gone
                                 => r.created \in Created(records)
      BY <1>0, <1>1, <2>1
    <2>4. (removed \cup promised.gone) \cap Created(records') = {}
      BY <1>0, <2>3 DEF HistoryInv, DeletedStayDeleted, Created
    <2>5. DeletedStayDeleted'
      BY <1>0, <1>3, <2>4 DEF HistoryInv, DeletedStayDeleted
    <2>6. PinnedStay'
      BY <1>0, <1>1, <1>3 DEF HistoryInv, PinnedStay
    <2> QED
      BY <2>2, <2>4, <2>5, <2>6 DEF HistoryInv
  <1>6. Whole(file, made)' /\ Whole(records, made)'
    BY <1>1, <1>2, <1>3
  <1> QED
    BY <1>1, <1>2, <1>3, <1>4, <1>5, <1>6 DEF StoreInv
\* Deleting takes promises about the deleted records away, and no others.
LEMMA TakeStep ==
    ASSUME StoreInv, NEW gone, gone \subseteq records, Take(gone), up,
           UNCHANGED <<files, saved, cuts, sequence, up, made>>
    PROVE  StoreInv'
  <1>0. /\ MemoryTypeOK /\ Whole(records, made) /\ Whole(file, made) /\ HistoryInv
        /\ made \in Nat
        /\ \A r \in records : r.id < sequence
        /\ sequence <= made + 1 /\ stateFile <= made + 1
    BY DEF StoreInv, MemoryTypeOK
  <1>1. /\ records' = records \ gone
        /\ removed' = removed \cup Created(gone)
        /\ promised' = [promised EXCEPT !.pinned = @ \ Created(gone)]
        /\ file' = file /\ stateFile' = stateFile /\ sequence' = sequence
        /\ made' = made /\ saved' = saved /\ cuts' = cuts /\ up' = up
    BY DEF Take, files
  <1>2. /\ promised'.pinned = promised.pinned \ Created(gone)
        /\ promised'.gone = promised.gone
    BY <1>0, <1>1 DEF MemoryTypeOK
  <1>3. Whole(records', made)
    BY <1>0, <1>1, PartWhole
  <1>4. \A c \in Created(gone) : c \in Nat /\ c <= made
    BY <1>0 DEF Whole, Created, Record
  <1>5. MemoryTypeOK'
    <2>1. records' \subseteq Record /\ IsFiniteSet(records')
      BY <1>3 DEF Whole
    <2>2. removed' \subseteq Nat
      BY <1>0, <1>1, <1>4 DEF MemoryTypeOK
    <2>3. promised' \in [pinned : SUBSET Nat, gone : SUBSET Nat]
      BY <1>0, <1>1 DEF MemoryTypeOK
    <2> QED
      BY <1>0, <1>1, <2>1, <2>2, <2>3 DEF MemoryTypeOK
  <1>6. HistoryInv'
    <2>1. \A r \in records' : r.created \notin Created(gone)
      BY <1>0, <1>1 DEF Whole, Created
    <2>2. removed' \cap Created(records') = {}
      BY <1>0, <1>1, <2>1 DEF HistoryInv, Created
    <2>3. \A c \in removed' \cup promised'.gone : c <= made'
      BY <1>0, <1>1, <1>2, <1>4 DEF HistoryInv
    <2>4. DeletedStayDeleted'
      BY <1>0, <1>1, <1>2 DEF HistoryInv, DeletedStayDeleted, Created
    <2>5. \A c \in promised'.pinned :
            /\ c \in Created(Pinned(file))
            /\ c \in Created(Pinned(records'))
      BY <1>0, <1>1, <1>2 DEF HistoryInv, PinnedStay, Created, Pinned
    <2>6. PinnedStay'
      BY <1>1, <2>5 DEF PinnedStay
    <2> QED
      BY <2>2, <2>3, <2>4, <2>6 DEF HistoryInv
  <1> QED
    BY <1>0, <1>1, <1>3, <1>5, <1>6 DEF StoreInv

\* The first file of a save.
LEMMA WriteRecordsStep ==
    ASSUME StoreInv, WriteRecords, up,
           UNCHANGED <<memory, stateFile, made, removed, promised, cuts>>
    PROVE  StoreInv'
  <1>0. /\ MemoryTypeOK /\ Whole(records, made) /\ HistoryInv
        /\ \A r \in records : r.id < sequence
        /\ sequence <= made + 1 /\ stateFile <= made + 1
    BY DEF StoreInv
  <1>1. /\ file' = records /\ records' = records /\ sequence' = sequence /\ up' = up
        /\ stateFile' = stateFile /\ made' = made /\ removed' = removed
        /\ promised' = promised /\ cuts' = cuts
        /\ saved' = saved \cup {<<r.id, r.created>> : r \in records}
    BY DEF WriteRecords, memory
  <1>2. saved' \subseteq Nat \X Nat
    BY <1>0, <1>1 DEF MemoryTypeOK, Record
  <1>3. MemoryTypeOK'
    BY <1>0, <1>1, <1>2 DEF MemoryTypeOK
  <1>4. HistoryInv'
    BY <1>0, <1>1 DEF HistoryInv, PinnedStay, DeletedStayDeleted
  <1> QED
    BY <1>0, <1>1, <1>3, <1>4 DEF StoreInv

\* The second, after which what was pinned or deleted is promised.
LEMMA WriteStateStep ==
    ASSUME StoreInv, WriteState, up, file = records,
           UNCHANGED <<memory, file, made, saved, cuts>>
    PROVE  StoreInv'
  <1>0. /\ MemoryTypeOK /\ Whole(records, made) /\ HistoryInv
        /\ \A r \in records : r.id < sequence
        /\ sequence <= made + 1 /\ sequence \in Nat
    BY DEF StoreInv, MemoryTypeOK
  <1>1. /\ stateFile' = sequence /\ removed' = {}
        /\ promised' = [pinned |-> Created(Pinned(records)), gone |-> promised.gone \cup removed]
        /\ records' = records /\ sequence' = sequence /\ up' = up
        /\ file' = records /\ made' = made /\ saved' = saved /\ cuts' = cuts
    BY DEF WriteState, memory
  <1>2. Created(Pinned(records)) \subseteq Nat
    BY <1>0 DEF MemoryTypeOK, Created, Pinned, Record
  <1>3. promised' \in [pinned : SUBSET Nat, gone : SUBSET Nat]
    BY <1>0, <1>1, <1>2 DEF MemoryTypeOK
  <1>4. MemoryTypeOK'
    BY <1>0, <1>1, <1>3 DEF MemoryTypeOK
  <1>5. HistoryInv'
    BY <1>0, <1>1 DEF HistoryInv, PinnedStay, DeletedStayDeleted
  <1> QED
    BY <1>0, <1>1, <1>4, <1>5 DEF StoreInv

LEMMA DieStep ==
    ASSUME StoreInv, NEW between, Die(between), UNCHANGED <<files, made, promised, saved>>
    PROVE  StoreInv'
  <1>0. /\ MemoryTypeOK /\ Whole(records, made) /\ Whole(file, made) /\ HistoryInv
        /\ made \in Nat /\ stateFile <= made + 1
    BY DEF StoreInv, MemoryTypeOK
  <1>1. /\ up' = FALSE /\ records' = {} /\ sequence' = 1 /\ removed' = {}
        /\ file' = file /\ stateFile' = stateFile
        /\ made' = made /\ promised' = promised /\ saved' = saved
        /\ cuts' \in Nat
    BY <1>0 DEF Die, files, MemoryTypeOK
  <1>2. Whole({}, made)
    BY <1>0, PartWhole
  <1>3. MemoryTypeOK'
    <2>1. records' \subseteq Record /\ IsFiniteSet(records')
      BY <1>1, FS_EmptySet
    <2>2. {sequence', stateFile', made', cuts'} \subseteq Nat
      BY <1>0, <1>1 DEF MemoryTypeOK
    <2>3. removed' \subseteq Nat /\ up' \in BOOLEAN
      BY <1>1
    <2> QED
      BY <1>0, <1>1, <2>1, <2>2, <2>3 DEF MemoryTypeOK
  <1>4. HistoryInv'
    BY <1>0, <1>1 DEF HistoryInv, PinnedStay, DeletedStayDeleted, Created
  <1> QED
    BY <1>0, <1>1, <1>2, <1>3, <1>4 DEF StoreInv

LEMMA LoadStep ==
    ASSUME StoreInv, ~up, Load, UNCHANGED <<files, memoryHistory>>
    PROVE  StoreInv'
  <1>0. /\ MemoryTypeOK /\ Whole(file, made) /\ HistoryInv
        /\ made \in Nat /\ stateFile \in Nat /\ stateFile <= made + 1
    BY DEF StoreInv, MemoryTypeOK
  <1>1. /\ up' = TRUE /\ records' = file /\ sequence' = Larger(Above(file), stateFile)
        /\ file' = file /\ stateFile' = stateFile /\ made' = made /\ removed' = removed
        /\ promised' = promised /\ saved' = saved /\ cuts' = cuts
    BY DEF Load, files, memoryHistory
  <1>2. /\ Above(file) \in Nat /\ Above(file) <= made + 1
        /\ \A r \in file : r.id < Above(file)
    BY <1>0, AboveAll DEF Whole
  <1>3. \A r \in file : r.id \in Nat
    BY <1>0 DEF Whole, Record
  <1>4. /\ sequence' \in Nat /\ sequence' <= made + 1
        /\ \A r \in file : r.id < sequence'
    BY <1>0, <1>1, <1>2, <1>3 DEF Larger
  <1>5. MemoryTypeOK'
    BY <1>0, <1>1, <1>4 DEF MemoryTypeOK
  <1>6. HistoryInv'
    <2>1. removed = {}
      BY DEF StoreInv
    <2> QED
      BY <1>0, <1>1, <2>1 DEF HistoryInv, PinnedStay, DeletedStayDeleted
  <1> QED
    BY <1>0, <1>1, <1>4, <1>5, <1>6 DEF StoreInv

-----------------------------------------------------------------------------
(* The steps of TurnTools. *)

\* What a step does to the memory: nothing, one record added, records taken away, one
\* of the two files written, the process killed or started.
LEMMA MemorySame ==
    ASSUME StoreInv, UNCHANGED <<memory, files, memoryHistory>>
    PROVE  StoreInv'
  <1>1. /\ records' = records /\ sequence' = sequence /\ up' = up
        /\ file' = file /\ stateFile' = stateFile /\ made' = made
        /\ removed' = removed /\ promised' = promised /\ saved' = saved /\ cuts' = cuts
    BY DEF memory, files, memoryHistory
  <1>2. MemoryTypeOK' /\ HistoryInv'
    BY <1>1 DEF StoreInv, MemoryTypeOK, HistoryInv, PinnedStay, DeletedStayDeleted
  <1> QED
    BY <1>1, <1>2 DEF StoreInv

LEMMA StoreStep == IInv /\ [Next]_vars => StoreInv'
  <1> SUFFICES ASSUME IInv, [Next]_vars PROVE StoreInv'
    OBVIOUS
  <1>0. StoreInv /\ (up <=> pc # "down") /\ (pc = "state" => file = records)
    BY DEF IInv, PlaceInv
  <1>1. CASE DeleteMemory
    <2>1. PICK r \in records : Take({r})
      BY <1>1 DEF DeleteMemory
    <2>2. UNCHANGED <<files, saved, cuts, sequence, up, made>> /\ up
      BY <1>0, <1>1 DEF DeleteMemory, Unsaved
    <2> QED
      BY <1>0, <2>1, <2>2, TakeStep
  <1>2. CASE ClearMemories
    <2>1. PICK gone \in SUBSET records : Take(gone)
      BY <1>2 DEF ClearMemories
    <2>2. UNCHANGED <<files, saved, cuts, sequence, up, made>> /\ up
      BY <1>0, <1>2 DEF ClearMemories, Unsaved
    <2> QED
      BY <1>0, <2>1, <2>2, TakeStep
  <1>3. CASE Remember
    <2>1. PICK new \in New : Add(new)
      BY <1>3 DEF Remember
    <2>2. UNCHANGED <<files, saved, cuts, up, removed, promised>> /\ up
      BY <1>0, <1>3 DEF Remember, Unsaved
    <2> QED
      BY <1>0, <2>1, <2>2, AddStep
  <1>4. CASE SaveRecords
    BY <1>0, <1>4, WriteRecordsStep DEF SaveRecords
  <1>5. CASE SaveState
    BY <1>0, <1>5, WriteStateStep DEF SaveState
  <1>6. CASE BeginTurn
    BY <1>0, <1>6, MemorySame DEF BeginTurn
  <1>7. CASE RememberTool
    <2>1. PICK new \in New : Add(new)
      BY <1>7 DEF RememberTool
    <2>2. UNCHANGED <<files, saved, cuts, up, removed, promised>> /\ up
      BY <1>0, <1>7 DEF RememberTool, CallTool, Unsaved
    <2> QED
      BY <1>0, <2>1, <2>2, AddStep
  <1>8. CASE ForgetTool
    <2>1. PICK r \in records : Take({r})
      BY <1>8 DEF ForgetTool
    <2>2. UNCHANGED <<files, saved, cuts, sequence, up, made>> /\ up
      BY <1>0, <1>8 DEF ForgetTool, CallTool, Unsaved
    <2> QED
      BY <1>0, <2>1, <2>2, TakeStep
  <1>9. CASE PlanTool
    BY <1>0, <1>9, MemorySame DEF PlanTool
  <1>10. CASE OtherTool
    BY <1>0, <1>10, MemorySame DEF OtherTool
  <1>11. CASE EndTurn
    <2>1. UNCHANGED <<files, saved, cuts, up, removed, promised>> /\ up
      BY <1>0, <1>11 DEF EndTurn, Unsaved
    <2>2. CASE UNCHANGED <<records, sequence, made>>
      BY <1>0, <2>1, <2>2, MemorySame DEF memory, files, memoryHistory
    <2>3. CASE \E new \in New : Add(new)
      BY <1>0, <2>1, <2>3, AddStep
    <2> QED
      BY <1>11, <2>2, <2>3 DEF EndTurn
  <1>12. CASE AbortTurn
    BY <1>0, <1>12, MemorySame DEF AbortTurn
  <1>13. CASE Crash
    BY <1>0, <1>13, DieStep DEF Crash
  <1>14. CASE Start
    BY <1>0, <1>14, LoadStep DEF Start
  <1>15. CASE UNCHANGED vars
    BY <1>0, <1>15, MemorySame DEF vars
  <1> QED
    BY <1>1, <1>2, <1>3, <1>4, <1>5, <1>6, <1>7, <1>8, <1>9, <1>10, <1>11, <1>12,
       <1>13, <1>14, <1>15 DEF Next

\* The plan of a turn is changed by the steps of Planner only.
LEMMA PlanKeeps == IInv /\ [Next]_vars => PlanInv'
  <1> SUFFICES ASSUME IInv, [Next]_vars PROVE PlanInv'
    OBVIOUS
  <1>1. [PlanNext]_plan
    <2>1. CASE DeleteMemory \/ ClearMemories \/ Remember \/ SaveRecords \/ SaveState
               \/ AbortTurn \/ Start \/ UNCHANGED vars
      BY <2>1 DEF DeleteMemory, ClearMemories, Remember, SaveRecords, SaveState, AbortTurn,
                  Start, vars
    <2>2. CASE BeginTurn \/ Crash
      BY <2>2 DEF BeginTurn, Crash, PlanNext
    <2>3. CASE RememberTool \/ ForgetTool \/ PlanTool \/ OtherTool
      BY <2>3 DEF RememberTool, ForgetTool, PlanTool, OtherTool, PlanNext
    <2>4. CASE EndTurn
      BY <2>4 DEF EndTurn, PlanNext
    <2> QED
      BY <2>1, <2>2, <2>3, <2>4 DEF Next
  <1> QED
    BY <1>1, PlanStep DEF IInv

LEMMA PlaceKeeps == IInv /\ [Next]_vars => TypeOK' /\ PlaceInv'
  <1> SUFFICES ASSUME IInv, [Next]_vars PROVE TypeOK' /\ PlaceInv'
    OBVIOUS
  <1>0. TypeOK /\ PlaceInv
    BY DEF IInv
  <1>1. CASE DeleteMemory
    BY <1>0, <1>1 DEF DeleteMemory, Save, TypeOK, PlaceInv
  <1>2. CASE ClearMemories
    BY <1>0, <1>2 DEF ClearMemories, Save, TypeOK, PlaceInv
  <1>3. CASE Remember
    BY <1>0, <1>3 DEF Remember, Save, TypeOK, PlaceInv
  <1>4. CASE SaveRecords
    BY <1>0, <1>4 DEF SaveRecords, WriteRecords, memory, TypeOK, PlaceInv
  <1>5. CASE SaveState
    BY <1>0, <1>5 DEF SaveState, memory, TypeOK, PlaceInv
  <1>6. CASE BeginTurn
    BY <1>0, <1>6 DEF BeginTurn, memory, TypeOK, PlaceInv
  <1>7. CASE RememberTool
    BY <1>0, <1>7 DEF RememberTool, CallTool, TypeOK, PlaceInv
  <1>8. CASE ForgetTool
    BY <1>0, <1>8 DEF ForgetTool, CallTool, TypeOK, PlaceInv
  <1>9. CASE PlanTool
    BY <1>0, <1>9 DEF PlanTool, CallTool, memory, TypeOK, PlaceInv
  <1>10. CASE OtherTool
    BY <1>0, <1>10 DEF OtherTool, CallTool, memory, TypeOK, PlaceInv
  <1>11. CASE EndTurn
    BY <1>0, <1>11 DEF EndTurn, Save, TypeOK, PlaceInv
  <1>12. CASE AbortTurn
    BY <1>0, <1>12 DEF AbortTurn, memory, TypeOK, PlaceInv
  <1>13. CASE Crash
    BY <1>0, <1>13 DEF Crash, Die, TypeOK, PlaceInv
  <1>14. CASE Start
    BY <1>0, <1>14 DEF Start, Load, TypeOK, PlaceInv
  <1>15. CASE UNCHANGED vars
    BY <1>0, <1>15 DEF vars, memory, files, TypeOK, PlaceInv
  <1> QED
    BY <1>1, <1>2, <1>3, <1>4, <1>5, <1>6, <1>7, <1>8, <1>9, <1>10, <1>11, <1>12,
       <1>13, <1>14, <1>15 DEF Next

LEMMA InitKeeps == Init => IInv
  <1> SUFFICES ASSUME Init PROVE IInv
    OBVIOUS
  <1>1. /\ up = TRUE /\ records = {} /\ sequence = 1 /\ file = {} /\ stateFile = 0
        /\ made = 0 /\ removed = {} /\ promised = [pinned |-> {}, gone |-> {}]
        /\ saved = {} /\ cuts = 0
        /\ pc = "idle" /\ calls = 0 /\ deaths = 0
    BY DEF Init, MemoryInit
  <1>2. Whole({}, 0)
    BY FS_EmptySet, MemoryAssumption DEF Whole
  <1>3. MemoryTypeOK
    BY <1>1, FS_EmptySet DEF MemoryTypeOK
  <1>4. HistoryInv
    BY <1>1 DEF HistoryInv, PinnedStay, DeletedStayDeleted, Created
  <1>5. StoreInv
    BY <1>1, <1>2, <1>3, <1>4 DEF StoreInv
  <1>6. TypeOK /\ PlaceInv
    BY <1>1 DEF TypeOK, PlaceInv
  <1> QED
    BY <1>5, <1>6, PlanStart DEF Init, IInv

-----------------------------------------------------------------------------
(* What is proved. *)

LEMMA InductiveInvariant == Spec => []IInv
  <1>1. IInv /\ [Next]_vars => IInv'
    BY StoreStep, PlanKeeps, PlaceKeeps DEF IInv
  <1> QED
    BY InitKeeps, <1>1, PTL DEF Spec

\* The invariant the run checks: ids are unique and below the sequence, and the store
\* and the plan are what their modules say.
THEOREM ToolsInvariant == Spec => []ToolsInv
  <1>1. IInv => ToolsInv
    BY DEF IInv, ToolsInv, StoreInv, Whole, MemoryInv, Capped, OneRecordPerSlot
  <1> QED
    BY <1>1, InductiveInvariant, PTL

\* At most one record of a kind says what a slot holds, however records are merged.
THEOREM OnePerSlot == Spec => []OneRecordPerSlot
  <1>1. IInv => OneRecordPerSlot
    BY DEF IInv, StoreInv, Whole, OneRecordPerSlot
  <1> QED
    BY <1>1, InductiveInvariant, PTL

\* What was pinned when a request was answered or a turn ended is there until the user
\* deletes it, over merges, pruning and deaths.
THEOREM PinnedAreKept == Spec => []PinnedStay
  <1>1. IInv => PinnedStay
    BY DEF IInv, StoreInv, HistoryInv
  <1> QED
    BY <1>1, InductiveInvariant, PTL

\* What was deleted, once answered, never comes back.
THEOREM DeletedNeverReturn == Spec => []DeletedStayDeleted
  <1>1. IInv => DeletedStayDeleted
    BY DEF IInv, StoreInv, HistoryInv
  <1> QED
    BY <1>1, InductiveInvariant, PTL

\* Only pinned records exceed the limit.
THEOREM OnlyPinnedExceed == Spec => []Capped
  <1>1. IInv => Capped
    BY DEF IInv, StoreInv, Whole, Capped
  <1> QED
    BY <1>1, InductiveInvariant, PTL

\* Beside the hits of the search there is room in the prompt for every pinned record.
THEOREM PinnedAreRecalled == Spec => []PinnedRecalled
  <1>1. IInv => PinnedRecalled
    <2> SUFFICES ASSUME IInv, NEW hits \in SUBSET records,
                        Cardinality(hits) <= TopK,
                        Cardinality(Pinned(records) \ hits) <= Spare,
                        NEW r \in Pinned(records)
                 PROVE  r \in Recall(hits)
      BY DEF PinnedRecalled
    <2>1. IsFiniteSet(records) /\ Pinned(records) \subseteq records
      BY DEF IInv, StoreInv, Whole, Pinned
    <2> DEFINE missing == Pinned(records) \ hits
               before == {q \in missing : q.id <= r.id}
    <2>2. IsFiniteSet(hits) /\ IsFiniteSet(missing) /\ IsFiniteSet(before)
          /\ Cardinality(before) <= Cardinality(missing)
      <3>1. IsFiniteSet(hits) /\ IsFiniteSet(missing)
        BY <2>1, FS_Subset
      <3>2. before \in SUBSET missing
        OBVIOUS
      <3> QED
        BY <3>1, <3>2, FS_Subset
    <2>3. /\ Cardinality(hits) \in Nat /\ Cardinality(missing) \in Nat
          /\ Cardinality(before) \in Nat /\ TopK \in Nat /\ Spare \in Nat
      BY <2>2, FS_CardinalityType, TurnToolsAssumption
    <2>4. Cardinality(hits) + Cardinality(before) <= TopK + Spare
      BY <2>2, <2>3
    <2> QED
      BY <2>4 DEF Recall
  <1> QED
    BY <1>1, InductiveInvariant, PTL

\* In the composition too, a plan with steps that were not begun has a current one.
THEOREM TurnHasCurrentStep == Spec => []SomeStepCurrent
  <1>1. IInv => SomeStepCurrent
    BY DEF IInv, PlanInv
  <1> QED
    BY <1>1, InductiveInvariant, PTL

-----------------------------------------------------------------------------
(* Identities on the disk. *)

\* Load will raise the sequence above every id that was ever saved.
IdsRecalled == \A a \in saved : a[1] < stateFile \/ \E r \in file : a[1] <= r.id

\* A save that is complete leaves a sequence above every id; one that is cut between
\* the files leaves the records it has written, and only if the last one was complete
\* does that say all that state.json does not.
IdInv ==
    cuts < 2 =>
        /\ \A a, b \in saved : a[1] = b[1] => a = b
        /\ \A r \in records, a \in saved : r.id = a[1] => r.created = a[2]
        /\ up => \A a \in saved : a[1] < sequence
        /\ \A r \in file : <<r.id, r.created>> \in saved
        /\ cuts = 0 /\ pc # "state" => \A a \in saved : a[1] < stateFile
        /\ cuts = 0 \/ pc # "state" => IdsRecalled

\* What the lemmas need of the store.
LEMMA IdTypes ==
    ASSUME IInv
    PROVE  /\ StoreInv
           /\ sequence \in Nat /\ stateFile \in Nat /\ cuts \in Nat
           /\ \A r \in records \cup file : r.id \in Nat /\ r.created \in Nat
           /\ \A a \in saved : a[1] \in Nat /\ a[2] \in Nat /\ a = <<a[1], a[2]>>
           /\ \A r \in records : r.id < sequence
           /\ \A r, q \in records : r.id = q.id => r = q
  <1>1. StoreInv /\ MemoryTypeOK /\ Whole(records, made)
    BY DEF IInv, StoreInv
  <1>2. \A a \in Nat \X Nat : a[1] \in Nat /\ a[2] \in Nat /\ a = <<a[1], a[2]>>
    OBVIOUS
  <1>3. \A r \in Record : r.id \in Nat /\ r.created \in Nat
    BY DEF Record
  <1>4. \A a \in saved : a[1] \in Nat /\ a[2] \in Nat /\ a = <<a[1], a[2]>>
    BY <1>1, <1>2 DEF MemoryTypeOK
  <1>5. \A r \in records \cup file : r.id \in Nat /\ r.created \in Nat
    BY <1>1, <1>3 DEF MemoryTypeOK
  <1>6. sequence \in Nat /\ stateFile \in Nat /\ cuts \in Nat
    BY <1>1 DEF MemoryTypeOK
  <1>7. /\ \A r \in records : r.id < sequence
        /\ \A r, q \in records : r.id = q.id => r = q
    BY <1>1 DEF StoreInv, Whole
  <1> QED
    BY <1>1, <1>4, <1>5, <1>6, <1>7

\* A step that leaves the files alone, and every record its identity.
LEMMA IdsKept ==
    ASSUME IInv, IdInv, up' = up, sequence' \in Nat, sequence <= sequence',
           \A r \in records' : \/ r.id = sequence
                               \/ \E q \in records : r.id = q.id /\ r.created = q.created,
           UNCHANGED <<files, saved, cuts>>, pc # "state", pc' # "state", up
    PROVE  IdInv'
  <1>0. /\ file' = file /\ stateFile' = stateFile /\ saved' = saved /\ cuts' = cuts
    BY DEF files
  <1> SUFFICES ASSUME cuts < 2
               PROVE  /\ \A r \in records', a \in saved : r.id = a[1] => r.created = a[2]
                      /\ \A a \in saved : a[1] < sequence'
                      /\ (cuts = 0 => \A a \in saved : a[1] < stateFile)
                      /\ IdsRecalled
    BY <1>0 DEF IdInv, IdsRecalled
  <1>1. \A a \in saved : a[1] < sequence /\ a[1] \in Nat
    BY IdTypes DEF IdInv
  <1>2. \A a \in saved : a[1] < sequence'
    BY <1>1, IdTypes
  <1>3. \A r \in records', a \in saved : r.id = a[1] => r.created = a[2]
    BY <1>1, IdTypes DEF IdInv
  <1> QED
    BY <1>2, <1>3 DEF IdInv

LEMMA AddIds ==
    ASSUME IInv, IdInv, NEW new \in New, Add(new),
           UNCHANGED <<files, saved, cuts, up>>, pc # "state", pc' # "state", up
    PROVE  IdInv'
  <1>1. StoreInv
    BY IdTypes
  <1>2. /\ sequence' \in Nat /\ sequence <= sequence'
        /\ \A r \in records' : \/ r.id = sequence
                               \/ \E q \in records : r.id = q.id /\ r.created = q.created
    BY <1>1, AddKeeps
  <1> QED
    BY <1>2, IdsKept

LEMMA TakeIds ==
    ASSUME IInv, IdInv, NEW gone, Take(gone),
           UNCHANGED <<files, saved, cuts, sequence, up>>, pc # "state", pc' # "state", up
    PROVE  IdInv'
  <1>1. \A r \in records' : \E q \in records : r.id = q.id /\ r.created = q.created
    BY DEF Take
  <1>2. sequence' \in Nat /\ sequence <= sequence'
    BY IdTypes
  <1> QED
    BY <1>1, <1>2, IdsKept

\* Nothing happens to the store, outside a save.
LEMMA SameIds ==
    ASSUME IInv, IdInv, UNCHANGED <<memory, files, saved, cuts>>,
           pc = "state" <=> pc' = "state"
    PROVE  IdInv'
  BY DEF IdInv, IdsRecalled, memory, files

LEMMA SaveRecordsIds ==
    ASSUME IInv, IdInv, SaveRecords
    PROVE  IdInv'
  <1>0. /\ file' = records /\ records' = records /\ sequence' = sequence /\ up' = up
        /\ stateFile' = stateFile /\ cuts' = cuts /\ pc = "records" /\ pc' = "state"
        /\ saved' = saved \cup {<<r.id, r.created>> : r \in records}
    BY DEF SaveRecords, WriteRecords, memory
  <1> SUFFICES ASSUME cuts < 2
               PROVE  /\ \A a, b \in saved' : a[1] = b[1] => a = b
                      /\ \A r \in records, a \in saved' : r.id = a[1] => r.created = a[2]
                      /\ \A a \in saved' : a[1] < sequence
                      /\ \A r \in records : <<r.id, r.created>> \in saved'
                      /\ cuts = 0 => \A a \in saved' : \/ a[1] < stateFile
                                                       \/ \E r \in records : a[1] <= r.id
    BY <1>0 DEF IdInv, IdsRecalled
  <1>1. \A a \in saved' : \/ a \in saved
                          \/ \E r \in records : a = <<r.id, r.created>>
    BY <1>0
  <1>2. up
    BY <1>0 DEF IInv, PlaceInv
  <1>3. \A a \in saved' : a = <<a[1], a[2]>> /\ a[1] < sequence
    BY <1>1, <1>2, IdTypes DEF IdInv
  <1>4. \A r \in records, a \in saved' : r.id = a[1] => r.created = a[2]
    BY <1>1, IdTypes DEF IdInv
  <1>5. \A a, b \in saved' : a[1] = b[1] => a = b
    <2> SUFFICES ASSUME NEW a \in saved', NEW b \in saved', a[1] = b[1] PROVE a = b
      OBVIOUS
    <2>1. CASE a \in saved /\ b \in saved
      BY <2>1 DEF IdInv
    <2>2. CASE \E r \in records : a = <<r.id, r.created>>
      <3>1. PICK r \in records : a = <<r.id, r.created>>
        BY <2>2
      <3>2. r.id = b[1] /\ r.created = a[2]
        BY <3>1
      <3>3. r.created = b[2]
        BY <1>4, <3>2
      <3> QED
        BY <1>3, <3>2, <3>3
    <2>3. CASE \E r \in records : b = <<r.id, r.created>>
      <3>1. PICK r \in records : b = <<r.id, r.created>>
        BY <2>3
      <3>2. r.id = a[1] /\ r.created = b[2]
        BY <3>1
      <3>3. r.created = a[2]
        BY <1>4, <3>2
      <3> QED
        BY <1>3, <3>2, <3>3
    <2> QED
      BY <1>1, <2>1, <2>2, <2>3
  <1>6. ASSUME cuts = 0, NEW a \in saved'
        PROVE  a[1] < stateFile \/ \E r \in records : a[1] <= r.id
    <2>1. CASE a \in saved
      BY <1>0, <1>6, <2>1 DEF IdInv
    <2>2. CASE \E r \in records : a = <<r.id, r.created>>
      BY <2>2, IdTypes
    <2> QED
      BY <1>1, <2>1, <2>2
  <1>7. \A r \in records : <<r.id, r.created>> \in saved'
    BY <1>0
  <1> QED
    BY <1>3, <1>4, <1>5, <1>6, <1>7

LEMMA SaveStateIds ==
    ASSUME IInv, IdInv, SaveState
    PROVE  IdInv'
  <1>1. /\ stateFile' = sequence /\ UNCHANGED <<records, sequence, up, file, saved, cuts>>
        /\ pc' = "idle"
    BY DEF SaveState, WriteState, memory
  <1>2. up
    BY DEF SaveState, IInv, PlaceInv
  <1> QED
    BY <1>1, <1>2 DEF IdInv, IdsRecalled

\* A death, perhaps between the two files, and the start after it.
LEMMA CrashIds ==
    ASSUME IInv, IdInv, Crash
    PROVE  IdInv'
  <1>1. /\ UNCHANGED <<file, stateFile, saved>> /\ ~up' /\ records' = {} /\ pc' = "down"
        /\ cuts' = IF pc = "state" THEN cuts + 1 ELSE cuts
    BY DEF Crash, Die, files
  <1>2. cuts \in Nat
    BY IdTypes
  <1>3. CASE pc = "state"
    BY <1>1, <1>2, <1>3 DEF IdInv, IdsRecalled
  <1>4. CASE pc # "state"
    BY <1>1, <1>2, <1>4 DEF IdInv, IdsRecalled
  <1> QED
    BY <1>3, <1>4

LEMMA StartIds ==
    ASSUME IInv, IdInv, Start
    PROVE  IdInv'
  <1>1. /\ records' = file /\ sequence' = Larger(Above(file), stateFile)
        /\ UNCHANGED <<file, stateFile, saved, cuts>> /\ pc = "down" /\ pc' = "idle"
    BY DEF Start, Load, files, memoryHistory
  <1>2. Above(file) \in Nat /\ \A r \in file : r.id < Above(file)
    <2>1. file \subseteq Record /\ made \in Nat /\ \A r \in file : r.id <= made
      BY DEF IInv, StoreInv, MemoryTypeOK, Whole
    <2> QED
      BY <2>1, AboveAll
  <1> SUFFICES ASSUME cuts < 2
               PROVE  /\ \A r \in file, a \in saved : r.id = a[1] => r.created = a[2]
                      /\ \A a \in saved : a[1] < Larger(Above(file), stateFile)
    BY <1>1 DEF IdInv, IdsRecalled
  <1>3. ASSUME NEW r \in file, NEW a \in saved, r.id = a[1]
        PROVE  r.created = a[2]
    <2> DEFINE b == <<r.id, r.created>>
    <2>1. b \in saved /\ b[1] = a[1] /\ b[2] = r.created
      BY <1>3 DEF IdInv
    <2> HIDE DEF b
    <2>2. a = b
      BY <2>1 DEF IdInv
    <2> QED
      BY <2>1, <2>2
  <1>4. ASSUME NEW a \in saved
        PROVE  a[1] < Larger(Above(file), stateFile)
    <2>1. a[1] < stateFile \/ \E r \in file : a[1] <= r.id
      BY <1>1 DEF IdInv, IdsRecalled
    <2>2. a[1] < stateFile \/ a[1] < Above(file)
      BY <1>2, <2>1, IdTypes
    <2> QED
      BY <1>2, <2>2, IdTypes DEF Larger
  <1> QED
    BY <1>3, <1>4

LEMMA IdStep == IInv /\ IdInv /\ [Next]_vars => IdInv'
  <1> SUFFICES ASSUME IInv, IdInv, [Next]_vars PROVE IdInv'
    OBVIOUS
  <1>0. up <=> pc # "down"
    BY DEF IInv, PlaceInv
  <1>1. CASE DeleteMemory
    BY <1>0, <1>1, TakeIds DEF DeleteMemory, Save, Unsaved
  <1>2. CASE ClearMemories
    BY <1>0, <1>2, TakeIds DEF ClearMemories, Save, Unsaved
  <1>3. CASE Remember
    BY <1>0, <1>3, AddIds DEF Remember, Save, Unsaved
  <1>4. CASE SaveRecords \/ SaveState \/ Crash \/ Start
    BY <1>4, SaveRecordsIds, SaveStateIds, CrashIds, StartIds
  <1>5. CASE BeginTurn
    BY <1>5, SameIds DEF BeginTurn, memoryHistory
  <1>6. CASE RememberTool
    BY <1>0, <1>6, AddIds DEF RememberTool, CallTool, Unsaved
  <1>7. CASE ForgetTool
    BY <1>0, <1>7, TakeIds DEF ForgetTool, CallTool, Unsaved
  <1>8. CASE PlanTool
    BY <1>8, SameIds DEF PlanTool, CallTool, memoryHistory
  <1>9. CASE OtherTool
    BY <1>9, SameIds DEF OtherTool, CallTool, memoryHistory
  <1>10. CASE EndTurn
    <2>1. /\ UNCHANGED <<files, saved, cuts, up>> /\ up /\ pc = "turn" /\ pc' = "records"
          /\ (UNCHANGED <<records, sequence, made>> \/ \E new \in New : Add(new))
      BY <1>0, <1>10 DEF EndTurn, Save, Unsaved
    <2>2. CASE UNCHANGED <<records, sequence, made>>
      BY <2>1, <2>2, SameIds DEF memory
    <2>3. CASE \E new \in New : Add(new)
      BY <2>1, <2>3, AddIds
    <2> QED
      BY <2>1, <2>2, <2>3
  <1>11. CASE AbortTurn
    BY <1>11, SameIds DEF AbortTurn, memoryHistory
  <1>12. CASE UNCHANGED vars
    BY <1>12, SameIds DEF vars, memoryHistory
  <1> QED
    BY <1>1, <1>2, <1>3, <1>4, <1>5, <1>6, <1>7, <1>8, <1>9, <1>10, <1>11, <1>12 DEF Next

\* An id that was ever on the disk names one record for ever, however often the process
\* dies, as long as no second save is cut between the two files.
THEOREM IdsNameOneRecord == Spec => []IdNamesOneRecord
  <1>1. Init => IdInv
    BY DEF Init, MemoryInit, IdInv, IdsRecalled
  <1>2. IInv /\ IdInv /\ [Next]_vars => IdInv'
    BY IdStep
  <1>3. IdInv => IdNamesOneRecord
    BY DEF IdInv, IdNamesOneRecord
  <1> QED
    BY <1>1, <1>2, <1>3, InductiveInvariant, PTL DEF Spec
================================================================================
