--------------------------- MODULE FileProtocol_proofs ---------------------------
(***************************************************************************)
(* Proofs about FileProtocol, for any number of turns, queries, stops and  *)
(* deaths of the runner: no request is ever dispatched twice, no step of a *)
(* turn begins after it was stopped in its loop, one press stops at most   *)
(* one turn, no call returns a document older than itself, and, for a user *)
(* who does one thing at a time, only a turn that was asked to stop does.  *)
(***************************************************************************)
EXTENDS FileProtocol, FiniteSetTheorems, TLAPS

\* What the other parts of the invariant need of TypeOK.
LEMMA Typed ==
    ASSUME TypeOK
    PROVE  /\ \A t \in Threads : thread[t] \in Thread
           /\ count["request"] \in Nat
           /\ dispatched \subseteq Nat /\ heard \subseteq Nat /\ stopped \subseteq Nat
           /\ request.id \in Nat /\ part.id \in Nat /\ job.id \in Nat
  BY DEF TypeOK, Request

LEMMA InitInv == Init => ProtocolInv
  <1> SUFFICES ASSUME Init PROVE ProtocolInv
    OBVIOUS
  <1>1. TypeOK
    <2>1. NoFile \in Request /\ NoResponse \in Response
      BY DEF Request, NoFile, Response, NoResponse
    <2>2. Free \in Thread
      BY <2>1 DEF Free, Thread
    <2>3. thread \in [Threads -> Thread]
      BY <2>2 DEF Init
    <2>4. count \in [{"request", "turn", "fact", "query", "stop", "kill"} -> Nat]
      BY DEF Init
    <2>5. cancel \in BOOLEAN /\ running \in BOOLEAN
      BY DEF Init
    <2>6. /\ dispatched \subseteq Nat /\ stopped \subseteq Nat /\ shown \in Nat
          /\ asked \subseteq Nat /\ heard \subseteq Nat
          /\ events \in Seq({"memory_write", "turn_end", "error"})
          /\ runner \in {"look", "down"} /\ steps \in Nat
          /\ opened \in [Threads -> {"none", "part", "request"}]
      BY DEF Init
    <2> QED
      BY <2>1, <2>3, <2>4, <2>5, <2>6 DEF Init, TypeOK
  <1>2. IdentitiesKnown
    BY DEF Init, IdentitiesKnown, Known, Active, At, NoFile, Free
  <1>3. OnePlace
    BY DEF Init, OnePlace, Unwritten, Active, At, NoFile, Free
  <1>4. HeardStops /\ OpenFiles
    BY DEF Init, HeardStops, OpenFiles
  <1> QED
    BY <1>1, <1>2, <1>3, <1>4 DEF ProtocolInv

\* The steps of the runner leave the threads alone.
LEMMA RunnerTyped == ProtocolInv /\ Runner => TypeOK'
  <1> SUFFICES ASSUME ProtocolInv, Runner PROVE TypeOK'
    OBVIOUS
  <1> USE DEF ProtocolInv, TypeOK, files, app, history
  <1>1. CASE Look
    BY <1>1 DEF Look
  <1>2. CASE Idle
    BY <1>2 DEF Idle
  <1>3. CASE Read
    <2>1. CASE request = NoFile
      <3>1. response' = [exists |-> TRUE, to |-> 0, before |-> {}]
        BY <1>3, <2>1 DEF Read, Publish
      <3>2. response' \in Response
        BY <3>1 DEF Response
      <3>3. UNCHANGED job /\ runner' = "look"
        BY <1>3, <2>1 DEF Read
      <3> QED
        BY <1>3, <3>2, <3>3 DEF Read
    <2>2. CASE request # NoFile
      BY <1>3, <2>2 DEF Read
    <2> QED
      BY <2>1, <2>2
  <1>4. CASE Claim
    <2>1. opened' \in [Threads -> {"none", "part", "request"}]
      BY <1>4 DEF Claim, Removed
    <2>2. request' \in Request /\ job.id \in Nat /\ runner' \in {"turn", "query"}
      BY <1>4 DEF Claim, NoFile, Request
    <2> QED
      BY <1>4, <2>1, <2>2 DEF Claim
  <1>5. CASE Cut
    <2>1. job.id \in Nat
      BY DEF Request
    <2>2. stopped' \subseteq Nat
      BY <1>5, <2>1 DEF Cut
    <2> QED
      BY <1>5, <2>2 DEF Cut
  <1>12. CASE Step \/ Continue \/ Answer
    <2>1. /\ UNCHANGED <<files, job, app, count, history>>
          /\ runner' \in {"turn", "generating", "closing"}
          /\ steps' \in {steps, steps + 1, 0}
      BY <1>12 DEF Step, Continue, Answer
    <2>2. steps' \in Nat
      BY <2>1
    <2> QED
      BY <2>1, <2>2
  <1>6. CASE Remember
    BY <1>6 DEF Remember, Emit, Bump
  <1>7. CASE EndTurn
    BY <1>7 DEF EndTurn, Emit
  <1>8. CASE Throw
    BY <1>8 DEF Throw, Emit
  <1>9. CASE Respond
    BY <1>9 DEF Respond, Publish, Response, Request
  <1>10. CASE ClearCancel
    BY <1>10 DEF ClearCancel, NoFile, Request
  <1>11. CASE EmptyTurn
    BY <1>11 DEF EmptyTurn, Emit
  <1> QED
    BY <1>1, <1>2, <1>3, <1>4, <1>5, <1>6, <1>7, <1>8, <1>9, <1>10, <1>11, <1>12 DEF Runner

\* The runner hands out no identity; it dispatches what it has claimed.
LEMMA RunnerPlaces == ProtocolInv /\ Runner => IdentitiesKnown' /\ OnePlace' /\ OpenFiles'
  <1> SUFFICES ASSUME ProtocolInv, Runner PROVE IdentitiesKnown' /\ OnePlace' /\ OpenFiles'
    OBVIOUS
  <1>0. IdentitiesKnown /\ OnePlace /\ OpenFiles /\ TypeOK
    BY DEF ProtocolInv
  <1> USE DEF IdentitiesKnown, OnePlace, OpenFiles, Known, Active, Unwritten, At, files, app, history
  <1>1. CASE /\ UNCHANGED <<request, part, job, thread, opened, shown, dispatched>>
             /\ count'["request"] = count["request"] /\ runner' # "claim"
             /\ runner' \in {"turn", "generating"} => runner \in {"turn", "generating"}
    BY <1>0, <1>1
  <1>2. CASE Look \/ Idle \/ EmptyTurn \/ EndTurn \/ Throw \/ Respond
    BY <1>1, <1>2 DEF Look, Idle, EmptyTurn, EndTurn, Throw, Respond, Publish, Emit
  <1>7. CASE Step \/ Cut \/ Continue \/ Answer
    BY <1>1, <1>7 DEF Step, Cut, Continue, Answer
  <1>3. CASE Read
    <2>1. CASE request = NoFile
      BY <1>1, <1>3, <2>1 DEF Read, Publish
    <2>2. CASE request # NoFile
      <3>1. request.id # 0
        BY <1>0, <2>2
      <3> QED
        BY <1>0, <1>3, <2>2, <3>1 DEF Read
    <2> QED
      BY <2>1, <2>2
  <1>4. CASE Claim
    <2>1. request' = NoFile /\ request'.id = 0 /\ UNCHANGED <<part, job, thread, shown, count>>
      BY <1>4 DEF Claim, NoFile
    <2>2. runner = "claim" /\ runner' # "claim" /\ dispatched' = dispatched \cup {job.id}
      BY <1>4 DEF Claim
    <2>3. IdentitiesKnown'
      <3>1. dispatched' \subseteq Known' \ {0} /\ job'.id # 0
        BY <1>0, <2>1, <2>2
      <3>2. request'.id \in Known'
        BY <1>0, <2>1, Typed
      <3>3. \A t \in Threads : Active(t)' => thread'[t].req.id \in Known' \ {0}
        BY <1>0, <2>1
      <3>4. request' = NoFile
        BY <2>1
      <3> QED
        BY <1>0, <2>1, <2>2, <3>1, <3>2, <3>3, <3>4
    <2>4. request'.id \notin dispatched' /\ job.id # 0
      BY <1>0, <2>1, <2>2
    <2>5. part'.id # 0 => part'.id \notin {request'.id, job'.id} \cup dispatched'
      BY <1>0, <2>1, <2>2
    <2>6. ASSUME NEW t \in Threads, Unwritten(t)
          PROVE  thread[t].req.id \notin {request'.id, part'.id, job'.id} \cup dispatched'
      <3>1. thread[t].req.id # 0 /\ thread[t].req.id \notin {part.id, job.id} \cup dispatched
        BY <1>0, <2>6
      <3> QED
        BY <2>1, <2>2, <3>1
    <2>7. OnePlace'
      BY <1>0, <2>1, <2>2, <2>4, <2>5, <2>6
    <2>8. \A t \in Threads : opened'[t] = IF opened[t] = "request" THEN "none" ELSE opened[t]
      BY <1>4 DEF Claim, Removed
    <2>9. \A t \in Threads : opened[t] \in {"none", "part", "request"}
      BY <1>0 DEF TypeOK
    <2>10. OpenFiles'
      <3> SUFFICES ASSUME NEW t \in Threads, opened'[t] # "none"
                   PROVE  /\ thread[t].pc = "fill"
                          /\ thread[t].req.id \notin dispatched'
                          /\ opened'[t] = "part" /\ part # NoFile
                          /\ thread[t].req.id \notin {request'.id, job.id}
        BY <2>1
      <3>1. opened[t] = "part"
        BY <2>8, <2>9
      <3>2. /\ thread[t].pc = "fill" /\ part # NoFile
            /\ thread[t].req.id \notin dispatched /\ thread[t].req.id # job.id
        BY <1>0, <3>1
      <3>3. thread[t].req.id # 0
        BY <1>0, <3>2
      <3> QED
        BY <2>1, <2>2, <2>8, <3>1, <3>2, <3>3
    <2> QED
      BY <2>3, <2>7, <2>10
  <1>5. CASE Remember
    BY <1>0, <1>1, <1>5 DEF Remember, Bump, Emit, TypeOK
  <1>6. CASE ClearCancel
    <2>1. job'.id = 0 /\ runner' = "look"
          /\ UNCHANGED <<request, part, thread, opened, shown, count, dispatched>>
      BY <1>6 DEF ClearCancel, NoFile
    <2>2. IdentitiesKnown'
      BY <1>0, <2>1, Typed
    <2>3. OnePlace'
      BY <1>0, <2>1
    <2>4. OpenFiles'
      BY <1>0, <2>1
    <2> QED
      BY <2>2, <2>3, <2>4
  <1> QED
    BY <1>2, <1>3, <1>4, <1>5, <1>6, <1>7 DEF Runner

LEMMA RunnerHears == ProtocolInv /\ Runner => HeardStops'
  <1> SUFFICES ASSUME ProtocolInv, Runner PROVE HeardStops'
    OBVIOUS
  <1>0. HeardStops /\ OnePlace
    BY DEF ProtocolInv
  <1> USE DEF HeardStops, files, app, history
  <1>1. CASE Look \/ Idle \/ Respond \/ ClearCancel \/ EmptyTurn \/ Throw \/ EndTurn \/ Remember
    BY <1>0, <1>1 DEF Look, Idle, Respond, ClearCancel, EmptyTurn, Throw, EndTurn, Remember,
                      Publish, Emit
  <1>2. CASE Read
    BY <1>0, <1>2 DEF Read
  <1>3. CASE Claim
    BY <1>0, <1>3 DEF Claim, OnePlace
  <1>4. CASE Step \/ Cut \/ Continue \/ Answer
    BY <1>0, <1>4 DEF Step, Cut, Continue, Answer
  <1> QED
    BY <1>1, <1>2, <1>3, <1>4 DEF Runner

-----------------------------------------------------------------------------
\* A step of a thread inside send or call changes the place of its request, or
\* leaves the call.
LEMMA ClientTyped ==
    ASSUME ProtocolInv, NEW t \in Threads, Client(t)
    PROVE  TypeOK'
  <1> USE DEF ProtocolInv, TypeOK, files, service, history, At, Goto
  <1>1. thread[t] \in Thread /\ NoFile \in Request /\ NoResponse \in Response
    BY DEF NoFile, Request, NoResponse, Response
  <1>2. Free \in Thread
    BY <1>1 DEF Free, Thread
  <1>3. thread[t].req \in Request /\ \A text \in {"empty", "whole", "mixed"} :
                                          [thread[t].req EXCEPT !.text = text] \in Request
    BY <1>1 DEF Thread, Request
  <1>4. \A pc \in {"free", "clear", "open", "fill", "check", "unlink", "rename", "poll",
                   "returned"} :
          [thread EXCEPT ![t].pc = pc] \in [Threads -> Thread]
    BY <1>1 DEF Thread
  <1>5. [thread EXCEPT ![t] = Free] \in [Threads -> Thread]
    BY <1>2
  <1>15. /\ \A place \in {"none", "part", "request"} :
              [opened EXCEPT ![t] = place] \in [Threads -> {"none", "part", "request"}]
         /\ [u \in Threads |-> Removed(opened[u])] \in [Threads -> {"none", "part", "request"}]
         /\ [u \in Threads |-> Renamed(opened[u])] \in [Threads -> {"none", "part", "request"}]
    BY DEF Removed, Renamed
  <1>6. CASE ClearResponse(t)
    BY <1>1, <1>4, <1>6 DEF ClearResponse
  <1>7. CASE OpenPart(t)
    BY <1>3, <1>4, <1>7, <1>15 DEF OpenPart
  <1>8. CASE FillPart(t)
    <2>1. \A file : Contents(t, file) \subseteq Request
      BY <1>3 DEF Contents
    <2>2. part' \in Request /\ request' \in Request
      BY <1>8, <2>1 DEF FillPart
    <2> QED
      BY <1>4, <1>8, <1>15, <2>2 DEF FillPart
  <1>9. CASE CheckTarget(t)
    BY <1>4, <1>9 DEF CheckTarget
  <1>10. CASE Unlink(t)
    BY <1>1, <1>4, <1>5, <1>10, <1>15 DEF Unlink
  <1>11. CASE Publication(t)
    <2>1. thread[t].req.id \in Nat
      BY <1>3 DEF Request
    <2> QED
      BY <1>1, <1>4, <1>5, <1>11, <1>15, <2>1 DEF Publication
  <1>12. CASE Return(t)
    <2>1. thread' \in [Threads -> Thread]
      BY <1>1, <1>12 DEF Return, Thread
    <2> QED
      BY <1>12, <2>1 DEF Return
  <1>13. CASE Finish(t)
    BY <1>5, <1>13 DEF Finish
  <1>14. CASE GiveUp(t)
    BY <1>5, <1>14 DEF GiveUp
  <1> QED
    BY <1>6, <1>7, <1>8, <1>9, <1>10, <1>11, <1>12, <1>13, <1>14 DEF Client

\* The frame of those steps: only thread t moves, and the identity it works for
\* stays until it leaves the call.
LEMMA ClientFrame ==
    ASSUME ProtocolInv, NEW t \in Threads, Client(t)
    PROVE  /\ UNCHANGED <<runner, job, count, dispatched, stopped, asked, heard, cancel>>
           /\ thread' \in [Threads -> Thread]
           /\ \A u \in Threads \ {t} : thread'[u] = thread[u]
           /\ Active(t)
           /\ Active(t)' => thread'[t].req.id = thread[t].req.id
           /\ Unwritten(t)' => Unwritten(t)
           /\ Unwritten(t)' => UNCHANGED <<request, part, opened>>
  <1>1. TypeOK' /\ TypeOK
    BY ClientTyped DEF ProtocolInv
  <1>2. thread \in [Threads -> Thread] /\ thread' \in [Threads -> Thread]
    BY <1>1 DEF TypeOK
  <1> USE DEF files, service, history, At, Goto, Active, Unwritten, Thread, Free
  <1>3. CASE ClearResponse(t)
    BY <1>2, <1>3 DEF ClearResponse
  <1>4. CASE OpenPart(t)
    BY <1>2, <1>4 DEF OpenPart
  <1>5. CASE FillPart(t)
    BY <1>2, <1>5 DEF FillPart
  <1>6. CASE CheckTarget(t)
    BY <1>2, <1>6 DEF CheckTarget
  <1>7. CASE Unlink(t)
    BY <1>2, <1>7 DEF Unlink
  <1>8. CASE Publication(t)
    BY <1>2, <1>8 DEF Publication
  <1>9. CASE Return(t)
    BY <1>2, <1>9 DEF Return
  <1>10. CASE Finish(t)
    BY <1>2, <1>10 DEF Finish
  <1>11. CASE GiveUp(t)
    BY <1>2, <1>11 DEF GiveUp
  <1> QED
    BY <1>3, <1>4, <1>5, <1>6, <1>7, <1>8, <1>9, <1>10, <1>11 DEF Client

\* How those steps move identities between the two files, and the files that are open.
LEMMA ClientMoves ==
    ASSUME ProtocolInv, NEW t \in Threads, Client(t)
    PROVE  \/ UNCHANGED <<request, part, opened>>
           \/ /\ part'.id = thread[t].req.id /\ part' # NoFile /\ request' = request
              /\ opened' = [opened EXCEPT ![t] = "part"] /\ At(t, "fill")'
              /\ Unwritten(t)
           \/ /\ opened' = [opened EXCEPT ![t] = "none"]
              /\ \/ UNCHANGED <<request, part>>
                 \/ /\ opened[t] = "part" /\ request' = request
                    /\ part'.id = thread[t].req.id /\ part' # NoFile
                 \/ /\ opened[t] = "request" /\ part' = part
                    /\ request'.id = thread[t].req.id /\ request' # NoFile
           \/ /\ part' = part /\ request' = NoFile
              /\ opened' = [u \in Threads |-> Removed(opened[u])]
              /\ opened[t] = "none"
           \/ /\ part' = NoFile /\ request' = part /\ part # NoFile
              /\ opened' = [u \in Threads |-> Renamed(opened[u])]
              /\ opened[t] = "none"
  <1>1. thread[t] \in Thread /\ request \in Request /\ part \in Request
    BY Typed DEF ProtocolInv, TypeOK
  <1>2. thread[t].req.id # 0 \/ At(t, "free")
    BY DEF ProtocolInv, IdentitiesKnown, Active
  <1>7. ~At(t, "fill") => opened[t] = "none"
    BY DEF ProtocolInv, OpenFiles
  <1> USE DEF files, At, Goto, Unwritten
  <1>3. CASE OpenPart(t)
    <2>1. /\ part' = [thread[t].req EXCEPT !.text = "empty"] /\ request' = request
          /\ opened' = [opened EXCEPT ![t] = "part"]
          /\ Unwritten(t) /\ thread'[t].pc = "fill"
      BY <1>1, <1>3, ClientTyped, ClientFrame DEF OpenPart, Thread, TypeOK
    <2>2. part'.id = thread[t].req.id /\ part'.text = "empty"
      BY <1>1, <2>1 DEF Thread, Request
    <2>3. part' # NoFile
      BY <2>2 DEF NoFile
    <2> QED
      BY <2>1, <2>2, <2>3
  <1>4. CASE FillPart(t)
    <2>1. \A file : \A req \in Contents(t, file) : req.id = thread[t].req.id
      BY <1>1 DEF Contents, Thread, Request
    <2>2. thread[t].req.id # 0
      BY <1>2, <1>4 DEF FillPart
    <2>3. \A file : \A req \in Contents(t, file) : req # NoFile
      BY <2>1, <2>2 DEF NoFile
    <2>4. /\ IF opened[t] = "part" THEN part' \in Contents(t, part) ELSE part' = part
          /\ IF opened[t] = "request" THEN request' \in Contents(t, request)
             ELSE request' = request
          /\ opened' = [opened EXCEPT ![t] = "none"]
      BY <1>4 DEF FillPart
    <2> QED
      BY <2>1, <2>3, <2>4
  <1>5. CASE Unlink(t) \/ Publication(t)
    BY <1>5, <1>7 DEF Unlink, Publication
  <1>6. CASE ClearResponse(t) \/ CheckTarget(t) \/ Return(t) \/ Finish(t) \/ GiveUp(t)
    BY <1>6 DEF ClearResponse, CheckTarget, Return, Finish, GiveUp
  <1> QED
    BY <1>3, <1>4, <1>5, <1>6 DEF Client

LEMMA ClientPlaces ==
    ASSUME ProtocolInv, NEW t \in Threads, Client(t)
    PROVE  IdentitiesKnown' /\ OnePlace' /\ OpenFiles' /\ HeardStops'
  <1>0. IdentitiesKnown /\ OnePlace /\ OpenFiles /\ HeardStops /\ TypeOK
    BY DEF ProtocolInv
  <1>1. count["request"] \in Nat /\ 0 \in Known
    BY <1>0, Typed DEF Known
  <1>2. Known' = Known
    BY ClientFrame DEF Known
  <1>3. HeardStops'
    BY <1>0, ClientFrame DEF HeardStops
  <1>4. thread[t].req.id \in Known \ {0}
    BY <1>0, ClientFrame DEF IdentitiesKnown
  <1>5. shown' \in Known
    BY <1>0, <1>4 DEF Client, ClearResponse, OpenPart, FillPart, CheckTarget, Unlink,
                      Publication, Return, Finish, GiveUp, IdentitiesKnown
  <1>6. /\ request'.id \in Known /\ part'.id \in Known
        /\ request' # NoFile => request'.id # 0
        /\ part' # NoFile => part'.id # 0
    BY <1>0, <1>1, <1>4, ClientMoves DEF IdentitiesKnown, NoFile
  <1>7. \A u \in Threads : Active(u)' => /\ thread'[u].req.id \in Known \ {0}
                                         /\ thread'[u].req.id = thread[u].req.id
                                         /\ Active(u)
    <2> SUFFICES ASSUME NEW u \in Threads, Active(u)'
                 PROVE  /\ thread'[u].req.id \in Known \ {0}
                        /\ thread'[u].req.id = thread[u].req.id
                        /\ Active(u)
      OBVIOUS
    <2>1. CASE u = t
      BY <1>4, <2>1, ClientFrame
    <2>2. CASE u # t
      BY <1>0, <2>2, ClientFrame DEF IdentitiesKnown, Active, At
    <2> QED
      BY <2>1, <2>2
  <1>8. IdentitiesKnown'
    BY <1>0, <1>2, <1>5, <1>6, <1>7, ClientFrame DEF IdentitiesKnown
  <1> DEFINE mine == thread[t].req.id
  <1>13. opened[t] # "none" => mine \notin dispatched
    BY <1>0 DEF OpenFiles
  <1>14. opened[t] = "part" => mine \notin {request.id, job.id}
    BY <1>0 DEF OpenFiles
  <1>15. opened[t] = "request" => mine # part.id
    BY <1>0 DEF OpenFiles
  <1>16. Unwritten(t) => mine \notin {request.id, part.id, job.id} \cup dispatched
    BY <1>0 DEF OnePlace
  <1>17. /\ part.id # 0 => part.id \notin {request.id, job.id} \cup dispatched
         /\ request.id \notin dispatched /\ 0 \notin dispatched
         /\ part = NoFile => part.id = 0
         /\ mine # 0 /\ NoFile.id = 0
    BY <1>0, <1>4 DEF OnePlace, IdentitiesKnown, NoFile
  <1>9. /\ part'.id # 0 => part'.id \notin {request'.id, job.id} \cup dispatched
        /\ request'.id \notin dispatched
    <2> HIDE DEF mine
    <2>1. \/ part'.id = part.id /\ request'.id = request.id
          \/ part'.id = mine /\ request'.id = request.id /\ (Unwritten(t) \/ opened[t] = "part")
          \/ part'.id = part.id /\ request'.id = mine /\ opened[t] = "request"
          \/ part'.id = part.id /\ request'.id = 0
          \/ part'.id = 0 /\ request'.id = part.id /\ part # NoFile
      BY ClientMoves DEF NoFile, mine
    <2>2. part # NoFile => part.id # 0
      BY <1>0 DEF IdentitiesKnown
    <2> QED
      BY <1>13, <1>14, <1>15, <1>16, <1>17, <2>1, <2>2
  <1>10. ASSUME NEW u \in Threads, Unwritten(u)'
         PROVE  thread'[u].req.id \notin {request'.id, part'.id, job.id} \cup dispatched
    <2>1. Active(u)' /\ Unwritten(u)
      BY <1>10, ClientFrame DEF Unwritten, Active, At
    <2>2. thread'[u].req.id = thread[u].req.id /\ thread[u].req.id # 0 /\ Active(u)
      BY <1>7, <2>1
    <2>3. thread[u].req.id \notin {request.id, part.id, job.id} \cup dispatched
      BY <1>0, <2>1 DEF OnePlace
    <2>4. CASE u = t
      BY <1>10, <2>2, <2>3, <2>4, ClientFrame
    <2>5. CASE u # t
      <3>1. thread[u].req.id # mine
        BY <1>0, <2>2, <2>5, ClientFrame DEF OnePlace
      <3>2. part'.id \in {part.id, mine, 0} /\ request'.id \in {request.id, mine, part.id, 0}
        BY ClientMoves DEF NoFile
      <3> QED
        BY <2>2, <2>3, <3>1, <3>2
    <2> QED
      BY <2>4, <2>5
  <1>11. ASSUME NEW u \in Threads, NEW v \in Threads \ {u}, Active(u)', Active(v)'
         PROVE  thread'[v].req.id # thread'[u].req.id
    BY <1>0, <1>7, <1>11 DEF OnePlace
  <1>12. OnePlace'
    BY <1>0, <1>9, <1>10, <1>11, ClientFrame DEF OnePlace
  <1>18. OpenFiles'
    <2> SUFFICES ASSUME NEW u \in Threads, opened'[u] # "none"
                 PROVE  /\ At(u, "fill")' /\ thread'[u].req.id \notin dispatched
                        /\ opened'[u] = "part" =>
                              part' # NoFile /\ thread'[u].req.id \notin {request'.id, job.id}
                        /\ opened'[u] = "request" =>
                              request' # NoFile /\ thread'[u].req.id # part'.id
      BY ClientFrame DEF OpenFiles
    <2>0. opened \in [Threads -> {"none", "part", "request"}]
      BY <1>0 DEF TypeOK
    <2>1. CASE u = t
      <3>1. /\ opened'[t] = "part" /\ part'.id = mine /\ part' # NoFile /\ request' = request
            /\ At(t, "fill")' /\ Unwritten(t)
        <4>1. opened[t] # "none" => At(t, "fill")
          BY <1>0 DEF OpenFiles
        <4>2. CASE UNCHANGED <<request, part, opened>>
          <5>1. At(t, "fill")
            BY <2>1, <4>1, <4>2
          <5>2. FillPart(t)
            BY <5>1 DEF Client, ClearResponse, OpenPart, CheckTarget, Unlink, Publication,
                        Return, Finish, GiveUp, At
          <5>3. opened'[t] = "none"
            BY <2>0, <5>2 DEF FillPart
          <5> QED
            BY <2>1, <5>3
        <4> QED
          BY <2>0, <2>1, <4>2, ClientMoves DEF Removed, Renamed
      <3>2. thread'[t].req.id = mine
        BY <3>1, ClientFrame DEF Active, At
      <3> QED
        BY <1>16, <2>1, <3>1, <3>2
    <2>2. CASE u # t
      <3>1. thread'[u] = thread[u]
        BY <2>2, ClientFrame
      <3>2. /\ opened[u] # "none"
            /\ \/ /\ opened'[u] = opened[u]
                  /\ \/ part' = part /\ request' = request
                     \/ part'.id = mine /\ part' # NoFile /\ request' = request
                     \/ request'.id = mine /\ request' # NoFile /\ part' = part
                     \/ opened[u] = "part" /\ part' = part /\ request' = NoFile
               \/ /\ opened[u] = "part" /\ opened'[u] = "request"
                  /\ part' = NoFile /\ request' = part /\ part # NoFile
        BY <2>0, <2>2, ClientMoves DEF Removed, Renamed
      <3>3. /\ At(u, "fill") /\ thread[u].req.id \notin dispatched
            /\ opened[u] = "part" => part # NoFile /\ thread[u].req.id \notin {request.id, job.id}
            /\ opened[u] = "request" => request # NoFile /\ thread[u].req.id # part.id
        BY <1>0, <3>2 DEF OpenFiles
      <3>4. thread[u].req.id # mine /\ thread[u].req.id # 0
        BY <1>0, <2>2, <3>3, ClientFrame DEF OnePlace, IdentitiesKnown, Active, At
      <3> HIDE DEF mine
      <3> QED
        BY <1>17, <3>1, <3>2, <3>3, <3>4 DEF At
    <2> QED
      BY <2>1, <2>2
  <1> QED
    BY <1>3, <1>8, <1>12, <1>18

-----------------------------------------------------------------------------
\* What the user starts gets an identity nobody has had.
LEMMA Started ==
    ASSUME ProtocolInv, NEW t \in Threads, At(t, "free"),
           thread' = [thread EXCEPT ![t] = [Free EXCEPT !.pc = thread'[t].pc,
                                                        !.req = thread'[t].req]],
           thread'[t].pc \in {"clear", "open"},
           thread'[t].req \in Request,
           thread'[t].req.id = count["request"] + 1,
           count'["request"] = count["request"] + 1,
           UNCHANGED <<request, part, opened, runner, job, shown, dispatched>>
    PROVE  thread' \in [Threads -> Thread] /\ IdentitiesKnown' /\ OnePlace' /\ OpenFiles'
  <1>0. IdentitiesKnown /\ OnePlace /\ OpenFiles /\ TypeOK
    BY DEF ProtocolInv
  <1> DEFINE new == count["request"] + 1
  <1>1. /\ count["request"] \in Nat /\ Known \subseteq Known' /\ new \in Known' \ {0}
        /\ new \notin Known
    BY <1>0, Typed DEF Known
  <1>2. thread'[t].req.id = new /\ ~At(t, "free")'
    BY DEF At
  <1>3. \A u \in Threads \ {t} : thread'[u] = thread[u]
    BY <1>0 DEF TypeOK
  <1>4. thread' \in [Threads -> Thread]
    <2>1. NoResponse \in Response
      BY DEF NoResponse, Response
    <2>2. \A pc \in {"clear", "open"}, req \in Request :
            [Free EXCEPT !.pc = pc, !.req = req] \in Thread
      BY <2>1 DEF Free, Thread
    <2>3. [Free EXCEPT !.pc = thread'[t].pc, !.req = thread'[t].req] \in Thread
      BY <2>2
    <2> QED
      BY <1>0, <2>3 DEF TypeOK
  <1> HIDE DEF new
  <1>5. IdentitiesKnown'
    <2>1. \A u \in Threads : Active(u)' => thread'[u].req.id \in Known' \ {0}
      BY <1>0, <1>1, <1>2, <1>3 DEF IdentitiesKnown, Active, At
    <2> QED
      BY <1>0, <1>1, <2>1 DEF IdentitiesKnown
  <1>6. OnePlace'
    <2>1. new \notin {request.id, part.id, job.id} \cup dispatched
      BY <1>0, <1>1 DEF IdentitiesKnown
    <2>2. \A u \in Threads \ {t} : (Unwritten(u)' <=> Unwritten(u)) /\ (Active(u)' <=> Active(u))
      BY <1>3 DEF Unwritten, Active, At
    <2>3. \A u \in Threads \ {t} : Active(u) => thread[u].req.id # new
      BY <1>0, <1>1 DEF IdentitiesKnown
    <2> QED
      BY <1>0, <1>2, <1>3, <2>1, <2>2, <2>3 DEF OnePlace
  <1>7. OpenFiles'
    <2>1. opened[t] = "none"
      BY <1>0 DEF OpenFiles, At
    <2> QED
      BY <1>0, <1>3, <2>1 DEF OpenFiles, At
  <1> QED
    BY <1>4, <1>5, <1>6, <1>7

LEMMA SendStarts ==
    ASSUME ProtocolInv, SendTurn
    PROVE  ProtocolInv'
  <1>0. TypeOK /\ HeardStops
    BY DEF ProtocolInv
  <1>1. /\ thread \in [Threads -> Thread] /\ "main" \in Threads
        /\ count["request"] \in Nat /\ count["turn"] \in Nat
    BY <1>0 DEF TypeOK, Threads
  <1>2. thread'["main"] = [Free EXCEPT !.pc = "open", !.req = NextRequest("turn")]
    BY <1>1 DEF SendTurn, StartSend
  <1>3. thread'["main"].pc = "open" /\ thread'["main"].req = NextRequest("turn")
    BY <1>2 DEF Free
  <1>4. NextRequest("turn") \in Request /\ NextRequest("turn").id = count["request"] + 1
    BY <1>1 DEF NextRequest, Request
  <1>5. /\ count'["request"] = count["request"] + 1
        /\ count' \in [{"request", "turn", "fact", "query", "stop", "kill"} -> Nat]
    BY <1>0, <1>1 DEF SendTurn, StartSend, TypeOK
  <1>6. UNCHANGED <<files, runner, job, steps, opened, running, shown, history>>
    BY DEF SendTurn, service
  <1>7. thread' \in [Threads -> Thread] /\ IdentitiesKnown' /\ OnePlace' /\ OpenFiles'
    <2>1. thread' = [thread EXCEPT !["main"] = [Free EXCEPT !.pc = thread'["main"].pc,
                                                            !.req = thread'["main"].req]]
      BY <1>3 DEF SendTurn, StartSend
    <2>2. At("main", "free")
      BY DEF SendTurn
    <2> QED
      BY <1>1, <1>3, <1>4, <1>5, <1>6, <2>1, <2>2, Started DEF files, history
  <1>8. TypeOK'
    BY <1>0, <1>5, <1>6, <1>7 DEF TypeOK, files, history
  <1>9. HeardStops'
    BY <1>0, <1>6 DEF HeardStops, files, history
  <1> QED
    BY <1>7, <1>8, <1>9 DEF ProtocolInv

\* The same for the calls: an event on the main thread, a button on the worker.
LEMMA CallStarts ==
    ASSUME ProtocolInv, NEW t \in Threads, At(t, "free"), StartCall(t),
           count'["request"] = count["request"] + 1,
           count' \in [{"request", "turn", "fact", "query", "stop", "kill"} -> Nat],
           UNCHANGED <<request, part, cancel, service, opened, shown, history>>,
           events' \in Seq({"memory_write", "turn_end", "error"}), running' \in BOOLEAN
    PROVE  ProtocolInv'
  <1>0. TypeOK /\ HeardStops
    BY DEF ProtocolInv
  <1>1. /\ thread \in [Threads -> Thread] /\ count["request"] \in Nat
    BY <1>0 DEF TypeOK
  <1>2. thread'[t] = [Free EXCEPT !.pc = "clear", !.req = NextRequest("query")]
    BY <1>1 DEF StartCall
  <1>3. thread'[t].pc = "clear" /\ thread'[t].req = NextRequest("query")
    BY <1>2 DEF Free
  <1>4. NextRequest("query") \in Request /\ NextRequest("query").id = count["request"] + 1
    BY <1>1 DEF NextRequest, Request
  <1>5. response' \in Response
    <2>1. [response EXCEPT !.before = @ \cup {t}] \in Response
      BY <1>0 DEF TypeOK, Response
    <2> QED
      BY <1>0, <2>1 DEF StartCall, TypeOK
  <1>6. thread' \in [Threads -> Thread] /\ IdentitiesKnown' /\ OnePlace' /\ OpenFiles'
    <2>1. thread' = [thread EXCEPT ![t] = [Free EXCEPT !.pc = thread'[t].pc,
                                                       !.req = thread'[t].req]]
      BY <1>3 DEF StartCall
    <2> QED
      BY <1>1, <1>3, <1>4, <2>1, Started DEF history, service
  <1>7. TypeOK'
    BY <1>0, <1>5, <1>6 DEF TypeOK, history, service
  <1>8. HeardStops'
    BY <1>0 DEF HeardStops, history, service
  <1> QED
    BY <1>6, <1>7, <1>8 DEF ProtocolInv

LEMMA UserStep ==
    ASSUME ProtocolInv, PressStop \/ HandleEvent \/ WorkerCall \/ Kill
    PROVE  ProtocolInv'
  <1>0. TypeOK /\ HeardStops /\ IdentitiesKnown /\ OnePlace /\ OpenFiles
    BY DEF ProtocolInv
  <1>1. "main" \in Threads /\ "worker" \in Threads
    BY DEF Threads
  <1>2. CASE PressStop
    <2>1. UNCHANGED <<request, part, response, events, runner, job, steps, thread, opened,
                      running, shown, dispatched, stopped>> /\ cancel' = TRUE
          /\ count' = [count EXCEPT !["stop"] = @ + 1]
      BY <1>2 DEF PressStop, app, service, Bump
    <2>2. count'["request"] = count["request"]
          /\ count' \in [{"request", "turn", "fact", "query", "stop", "kill"} -> Nat]
      BY <1>0, <2>1 DEF TypeOK
    <2>3. heard' = heard \/ (/\ heard' = heard \cup {shown}
                                /\ runner \in {"turn", "generating"} /\ job.id = shown)
      BY <1>2 DEF PressStop, InLoop
    <2>4. shown \in Nat /\ asked' \subseteq Nat /\ heard' \subseteq Nat
      BY <1>0, <1>2, <2>3 DEF PressStop, TypeOK
    <2>5. TypeOK'
      BY <1>0, <2>1, <2>2, <2>4 DEF TypeOK
    <2>6. IdentitiesKnown' /\ OnePlace' /\ OpenFiles'
      BY <1>0, <2>1, <2>2 DEF IdentitiesKnown, OnePlace, OpenFiles, Known, Active, Unwritten, At
    <2>7. HeardStops'
      BY <1>0, <2>1, <2>3 DEF HeardStops
    <2> QED
      BY <2>5, <2>6, <2>7 DEF ProtocolInv
  <1>3. CASE HandleEvent
    <2>1. /\ UNCHANGED <<request, part, cancel, service, opened, shown, history>>
          /\ At("main", "free") /\ events # <<>> /\ events' = Tail(events)
          /\ running' \in BOOLEAN
      BY <1>3 DEF HandleEvent
    <2>2. events' \in Seq({"memory_write", "turn_end", "error"})
      BY <1>0, <2>1 DEF TypeOK
    <2>3. CASE Head(events) = "error"
      <3>1. UNCHANGED <<thread, response, count>>
        BY <1>3, <2>3 DEF HandleEvent
      <3>2. TypeOK'
        BY <1>0, <2>1, <2>2, <3>1 DEF TypeOK, history, service
      <3>3. IdentitiesKnown' /\ OnePlace' /\ OpenFiles'
        BY <1>0, <2>1, <3>1 DEF IdentitiesKnown, OnePlace, OpenFiles, Known, Active, Unwritten,
                                At, history, service
      <3>4. HeardStops'
        BY <1>0, <2>1 DEF HeardStops, history, service
      <3> QED
        BY <3>2, <3>3, <3>4 DEF ProtocolInv
    <2>4. CASE Head(events) # "error"
      <3>1. StartCall("main") /\ count' = [count EXCEPT !["request"] = @ + 1]
        BY <1>3, <2>4 DEF HandleEvent, Bump
      <3>2. count'["request"] = count["request"] + 1
            /\ count' \in [{"request", "turn", "fact", "query", "stop", "kill"} -> Nat]
        BY <1>0, <3>1 DEF TypeOK
      <3> QED
        BY <1>1, <2>1, <2>2, <3>1, <3>2, CallStarts
    <2> QED
      BY <2>3, <2>4
  <1>4. CASE WorkerCall
    <2>1. /\ count' = [count EXCEPT !["query"] = @ + 1, !["request"] = @ + 1]
          /\ UNCHANGED <<request, part, cancel, events, service, opened, running, shown,
                         history>>
          /\ StartCall("worker") /\ At("worker", "free")
      BY <1>4 DEF WorkerCall
    <2>2. count'["request"] = count["request"] + 1
          /\ count' \in [{"request", "turn", "fact", "query", "stop", "kill"} -> Nat]
      BY <1>0, <2>1 DEF TypeOK
    <2> QED
      BY <1>0, <1>1, <2>1, <2>2, CallStarts DEF TypeOK
  <1>5. CASE Kill
    <2>1. /\ UNCHANGED <<files, app, history>> /\ job' = NoFile /\ runner' = "down"
          /\ steps' = 0
          /\ count' = [count EXCEPT !["kill"] = @ + 1]
      BY <1>5 DEF Kill, Bump
    <2>2. count'["request"] = count["request"]
          /\ count' \in [{"request", "turn", "fact", "query", "stop", "kill"} -> Nat]
      BY <1>0, <2>1 DEF TypeOK
    <2>3. job' \in Request /\ job'.id = 0
      BY <2>1 DEF NoFile, Request
    <2>4. TypeOK'
      BY <1>0, <2>1, <2>2, <2>3 DEF TypeOK, files, app, history
    <2>5. IdentitiesKnown'
      BY <1>0, <2>1, <2>2, <2>3, Typed
         DEF IdentitiesKnown, Known, Active, At, files, app, history
    <2>6. OnePlace'
      BY <1>0, <2>1, <2>3 DEF OnePlace, IdentitiesKnown, Active, Unwritten, At, files, app, history
    <2>7. HeardStops'
      BY <1>0, <2>1 DEF HeardStops, files, app, history
    <2>8. OpenFiles'
      BY <1>0, <2>1, <2>3 DEF OpenFiles, IdentitiesKnown, Active, At, files, app, history
    <2> QED
      BY <2>4, <2>5, <2>6, <2>7, <2>8 DEF ProtocolInv
  <1> QED
    BY <1>2, <1>3, <1>4, <1>5

LEMMA RestartStep == ProtocolInv /\ Restart => ProtocolInv'
  <1> SUFFICES ASSUME ProtocolInv, Restart PROVE ProtocolInv'
    OBVIOUS
  <1>0. TypeOK /\ HeardStops /\ IdentitiesKnown /\ OnePlace
    BY DEF ProtocolInv
  <1>1. PICK stop \in BOOLEAN :
            /\ cancel' = (runner # "down" /\ (cancel \/ stop))
            /\ count' = [count EXCEPT !["stop"] = IF stop THEN @ + 1 ELSE @]
    <2>1. PICK destroyed \in BOOLEAN :
            LET stop == destroyed /\ running /\ count["stop"] < MaxStops IN
            /\ cancel' = (runner # "down" /\ (cancel \/ stop))
            /\ count' = [count EXCEPT !["stop"] = IF stop THEN @ + 1 ELSE @]
      BY Zenon DEF Restart
    <2> DEFINE stop == destroyed /\ running /\ count["stop"] < MaxStops
    <2>2. stop \in BOOLEAN
      OBVIOUS
    <2> QED
      BY <2>1, <2>2
  <1>2. /\ thread' = [t \in Threads |-> Free] /\ running' = FALSE /\ shown' = 0
        /\ opened' = [t \in Threads |-> "none"]
        /\ events' = <<>> /\ UNCHANGED <<part, response, job, steps, history>>
    BY DEF Restart
  <1>3. \/ UNCHANGED <<runner, request>>
        \/ runner' = "look" /\ request' = NoFile
    BY DEF Restart
  <1>4. count'["request"] = count["request"]
        /\ count' \in [{"request", "turn", "fact", "query", "stop", "kill"} -> Nat]
    BY <1>0, <1>1 DEF TypeOK
  <1>5. TypeOK'
    <2>1. NoFile \in Request /\ Free \in Thread
      BY DEF NoFile, Request, Free, Thread, NoResponse, Response
    <2>2. thread' \in [Threads -> Thread]
      BY <1>2, <2>1
    <2>3. cancel' \in BOOLEAN /\ events' \in Seq({"memory_write", "turn_end", "error"})
      BY <1>1, <1>2
    <2> QED
      BY <1>0, <1>2, <1>3, <1>4, <2>1, <2>2, <2>3 DEF TypeOK, history
  <1>6. \A t \in Threads : ~Active(t)' /\ ~Unwritten(t)' /\ opened'[t] = "none"
    BY <1>2 DEF Active, Unwritten, At, Free
  <1>7. request'.id \in {0, request.id} /\ (request' # NoFile => request' = request)
    BY <1>3 DEF NoFile
  <1>8. IdentitiesKnown'
    BY <1>0, <1>2, <1>3, <1>4, <1>6, <1>7, Typed DEF IdentitiesKnown, Known, history
  <1>9. OnePlace'
    <2>1. request'.id \notin dispatched
      BY <1>0, <1>7 DEF OnePlace, IdentitiesKnown
    <2> QED
      BY <1>0, <1>2, <1>3, <1>6, <1>7, <2>1 DEF OnePlace, history
  <1>10. HeardStops'
    BY <1>0, <1>1, <1>2, <1>3 DEF HeardStops, history
  <1>11. OpenFiles'
    BY <1>6 DEF OpenFiles
  <1> QED
    BY <1>5, <1>8, <1>9, <1>10, <1>11 DEF ProtocolInv

LEMMA StepInv == ProtocolInv /\ [Next]_vars => ProtocolInv'
  <1> SUFFICES ASSUME ProtocolInv, [Next]_vars PROVE ProtocolInv'
    OBVIOUS
  <1>1. CASE Runner
    BY <1>1, RunnerTyped, RunnerPlaces, RunnerHears DEF ProtocolInv
  <1>2. ASSUME NEW t \in Threads, Client(t) PROVE ProtocolInv'
    BY <1>2, ClientTyped, ClientPlaces DEF ProtocolInv
  <1>3. CASE SendTurn
    BY <1>3, SendStarts
  <1>4. CASE PressStop \/ HandleEvent \/ WorkerCall \/ Kill
    BY <1>4, UserStep
  <1>5. CASE Restart
    BY <1>5, RestartStep
  <1>6. CASE UNCHANGED vars
    <2>1. UNCHANGED <<request, part, response, cancel, events, runner, job, steps, thread,
                      opened, running, shown, count, dispatched, stopped, asked, heard>>
      BY <1>6 DEF vars, files, service, app, history
    <2>2. TypeOK' /\ HeardStops'
      BY <2>1 DEF ProtocolInv, TypeOK, HeardStops
    <2>3. IdentitiesKnown' /\ OnePlace' /\ OpenFiles'
      BY <2>1 DEF ProtocolInv, IdentitiesKnown, OnePlace, OpenFiles, Known, Active,
                  Unwritten, At
    <2> QED
      BY <2>2, <2>3 DEF ProtocolInv
  <1> QED
    BY <1>1, <1>2, <1>3, <1>4, <1>5, <1>6 DEF Next

-----------------------------------------------------------------------------
\* The invariant of the protocol: the types, and where each request and each stop
\* is (AgentService::handle_pending, AgentClient.writeAtomic, stopTurn).
THEOREM ProtocolInvariant == Spec => []ProtocolInv
  <1>1. Init => ProtocolInv
    BY InitInv
  <1>2. ProtocolInv /\ [Next]_vars => ProtocolInv'
    BY StepInv
  <1> QED
    BY <1>1, <1>2, PTL DEF Spec

\* "Claim the request before parsing so a slow dispatch cannot process it twice"
\* (agent_service.cpp:163), whoever writes, dies or starts in between.
THEOREM NeverTwice == Spec => DispatchedOnce
  <1>1. ProtocolInv => (runner = "claim" => job.id \notin dispatched)
    BY DEF ProtocolInv, OnePlace
  <1>2. ProtocolInv /\ [Next]_vars
        => [runner = "claim" /\ runner' \in {"turn", "query"} => job.id \notin dispatched]_vars
    BY <1>1
  <1> QED
    BY <1>2, ProtocolInvariant, PTL DEF Spec, DispatchedOnce

\* A stop pressed while the turn it is meant for is in its loop is never lost before
\* the next look (AgentRuntime::cancelled, AgentService::clear_cancel): no further step
\* of that turn begins.
THEOREM StoppedTurnsStepNoMore == Spec => NoStepAfterStop
  <1>1. ProtocolInv /\ [Next]_vars
        => [runner = "turn" /\ runner' = "generating" => job.id \notin heard]_vars
    <2> SUFFICES ASSUME ProtocolInv, Next, runner = "turn", runner' = "generating"
                 PROVE  job.id \notin heard
      OBVIOUS
    <2>1. CASE Runner
      <3>1. Step
        BY <2>1 DEF Runner, Look, Idle, Read, Claim, EmptyTurn, Cut, Continue, Answer, Remember,
                    EndTurn, Throw, Respond, ClearCancel
      <3> QED
        BY <3>1 DEF Step, ProtocolInv, HeardStops
    <2>2. ASSUME NEW t \in Threads, Client(t) PROVE FALSE
      BY <2>2, ClientFrame
    <2>3. CASE SendTurn \/ PressStop \/ HandleEvent \/ WorkerCall \/ Kill
      BY <2>3 DEF SendTurn, PressStop, HandleEvent, WorkerCall, Kill, service
    <2>4. CASE Restart
      BY <2>4 DEF Restart
    <2> QED
      BY <2>1, <2>2, <2>3, <2>4 DEF Next
  <1> QED
    BY <1>1, ProtocolInvariant, PTL DEF Spec, NoStepAfterStop
-----------------------------------------------------------------------------
(* Old documents. *)

\* Thread t has removed the previous answer and has not got one yet.
Asking(t) ==
    \/ At(t, "poll")
    \/ /\ thread[t].pc \in {"open", "fill", "check", "unlink", "rename"}
       /\ thread[t].req.kind # "turn"

\* A document a thread may come to read was published after its call began.
AnswersNew ==
    \A t \in Threads : /\ Asking(t) => t \notin response.before
                       /\ At(t, "returned") => t \notin thread[t].answer.before

LEMMA InitAnswers == Init => AnswersNew
  BY DEF Init, AnswersNew, Asking, At, Free

\* The runner publishes documents that are before no call.
LEMMA RunnerAnswers == AnswersNew /\ Runner => AnswersNew'
  <1> SUFFICES ASSUME AnswersNew, Runner PROVE AnswersNew'
    OBVIOUS
  <1>1. UNCHANGED thread
    BY DEF Runner, Look, Idle, Read, Claim, EmptyTurn, Step, Cut, Continue, Answer, Remember,
           EndTurn, Throw, Respond, ClearCancel, app
  <1>2. UNCHANGED response \/ response'.before = {}
    BY DEF Runner, Look, Idle, Read, Claim, EmptyTurn, Step, Cut, Continue, Answer, Remember,
           EndTurn, Throw, Respond, ClearCancel, Publish, files
  <1> QED
    BY <1>1, <1>2 DEF AnswersNew, Asking, At

LEMMA ClientAnswers ==
    ASSUME TypeOK, AnswersNew, NEW t \in Threads, Client(t)
    PROVE  AnswersNew'
  <1>1. ASSUME NEW u \in Threads \ {t}
        PROVE  thread'[u] = thread[u]
    BY DEF TypeOK, Client, ClearResponse, OpenPart, FillPart, CheckTarget, Unlink,
           Publication, Return, Finish, GiveUp, Goto, files
  <1>2. UNCHANGED response \/ response'.before = {}
    BY DEF Client, ClearResponse, OpenPart, FillPart, CheckTarget, Unlink, Publication,
           Return, Finish, GiveUp, NoResponse, files
  <1>3. /\ Asking(t) => t \notin response.before
        /\ thread[t] \in Thread
        /\ \A x : [thread EXCEPT ![t] = x][t] = x
        /\ \A pc : [thread EXCEPT ![t].pc = pc][t] = [thread[t] EXCEPT !.pc = pc]
    BY DEF AnswersNew, TypeOK
  <1>4. /\ Asking(t)' => t \notin response'.before
        /\ At(t, "returned")' => t \notin thread'[t].answer.before
    <2>1. CASE ClearResponse(t)
      BY <2>1 DEF TypeOK, ClearResponse, Goto, Asking, At, NoResponse
    <2>2. ASSUME UNCHANGED response,
                 \/ thread'[t] = Free
                 \/ /\ Asking(t)' => Asking(t)
                    /\ thread'[t].pc # "returned"
          PROVE  (/\ Asking(t)' => t \notin response'.before
                  /\ At(t, "returned")' => t \notin thread'[t].answer.before)
      BY <1>3, <2>2 DEF Asking, At, Free
    <2>3. ASSUME NEW pc \in {"fill", "check", "unlink", "rename", "poll"},
                 UNCHANGED response,
                 thread'[t] = [thread[t] EXCEPT !.pc = pc],
                 thread[t].pc \in {"open", "fill", "check", "unlink", "rename"},
                 pc = "poll" => thread[t].req.kind # "turn"
          PROVE  (/\ Asking(t)' => t \notin response'.before
                  /\ At(t, "returned")' => t \notin thread'[t].answer.before)
      <3>1. thread'[t].pc = pc /\ thread'[t].req = thread[t].req
        BY <1>3, <2>3 DEF Thread
      <3> QED
        BY <2>2, <2>3, <3>1 DEF Asking, At
    <2>4. CASE OpenPart(t)
      BY <1>3, <2>3, <2>4 DEF OpenPart, Goto, At
    <2>5. CASE FillPart(t)
      BY <1>3, <2>3, <2>5 DEF FillPart, Goto, At
    <2>6. CASE CheckTarget(t)
      <3>1. PICK pc \in {"unlink", "rename"} : Goto(t, pc)
        BY <2>6 DEF CheckTarget
      <3> QED
        BY <1>3, <2>3, <2>6, <3>1 DEF CheckTarget, Goto, At, files
    <2>7. CASE Unlink(t)
      <3>1. CASE request = NoFile
        BY <1>3, <2>2, <2>7, <3>1 DEF Unlink
      <3>2. CASE request # NoFile
        BY <1>3, <2>3, <2>7, <3>2 DEF Unlink, Goto, At
      <3> QED
        BY <3>1, <3>2
    <2>8. CASE Publication(t)
      <3>1. CASE part = NoFile \/ thread[t].req.kind = "turn"
        BY <1>3, <2>2, <2>8, <3>1 DEF Publication
      <3>2. CASE part # NoFile /\ thread[t].req.kind # "turn"
        BY <1>3, <2>3, <2>8, <3>2 DEF Publication, Goto, At
      <3> QED
        BY <3>1, <3>2
    <2>9. CASE Return(t)
      <3>1. t \notin response.before /\ UNCHANGED response
        BY <1>3, <2>9 DEF Return, Asking, files
      <3>2. thread'[t].pc = "returned" /\ thread'[t].answer = response
        BY <2>9 DEF TypeOK, Return, Thread
      <3> QED
        BY <3>1, <3>2 DEF Asking, At
    <2>10. CASE Finish(t) \/ GiveUp(t)
      BY <1>3, <2>2, <2>10 DEF Finish, GiveUp, files
    <2> QED
      BY <2>1, <2>4, <2>5, <2>6, <2>7, <2>8, <2>9, <2>10 DEF Client
  <1> QED
    BY <1>1, <1>2, <1>4 DEF AnswersNew, Asking, At

\* A call that begins marks the document that is there.
LEMMA CallAnswers ==
    ASSUME TypeOK, AnswersNew, NEW t \in Threads, StartCall(t)
    PROVE  AnswersNew'
  <1>1. thread'[t].pc = "clear" /\ \A u \in Threads \ {t} : thread'[u] = thread[u]
    BY DEF TypeOK, StartCall
  <1>2. \A u \in Threads \ {t} : u \in response'.before => u \in response.before
    BY DEF TypeOK, StartCall, Response
  <1> QED
    BY <1>1, <1>2 DEF AnswersNew, Asking, At

LEMMA UserAnswers ==
    ASSUME TypeOK, AnswersNew,
           SendTurn \/ PressStop \/ HandleEvent \/ WorkerCall \/ Kill \/ Restart
    PROVE  AnswersNew'
  <1>1. CASE SendTurn
    <2>1. /\ thread'["main"].pc = "open" /\ thread'["main"].req.kind = "turn"
          /\ \A u \in Threads \ {"main"} : thread'[u] = thread[u]
      BY <1>1 DEF SendTurn, StartSend, NextRequest, Free, TypeOK, Threads
    <2>2. UNCHANGED response
      BY <1>1 DEF SendTurn, files
    <2> QED
      BY <2>1, <2>2 DEF AnswersNew, Asking, At
  <1>2. CASE PressStop \/ Kill
    BY <1>2 DEF PressStop, Kill, AnswersNew, Asking, At, files, app
  <1>3. CASE HandleEvent
    <2>1. CASE Head(events) = "error"
      BY <1>3, <2>1 DEF HandleEvent, AnswersNew, Asking, At
    <2>2. CASE Head(events) # "error"
      BY <1>3, <2>2, CallAnswers DEF HandleEvent, Threads
    <2> QED
      BY <2>1, <2>2
  <1>4. CASE WorkerCall
    BY <1>4, CallAnswers DEF WorkerCall, Threads
  <1>5. CASE Restart
    BY <1>5 DEF Restart, AnswersNew, Asking, At, Free
  <1> QED
    BY <1>1, <1>2, <1>3, <1>4, <1>5

\* "Remove the previous answer first" (AgentClient.java:83) is enough: whatever the
\* other thread and the runner do, a call never returns a document that was there
\* when it began.
THEOREM NoCallGetsAnOldAnswer == Spec => []NoOldAnswer
  <1>1. Init => AnswersNew
    BY InitAnswers
  <1>2. ProtocolInv /\ AnswersNew /\ [Next]_vars => AnswersNew'
    <2> SUFFICES ASSUME TypeOK, AnswersNew, [Next]_vars PROVE AnswersNew'
      BY DEF ProtocolInv
    <2>1. CASE UNCHANGED vars
      BY <2>1 DEF vars, files, app, AnswersNew, Asking, At
    <2> QED
      BY <2>1, RunnerAnswers, ClientAnswers, UserAnswers DEF Next
  <1>3. AnswersNew => NoOldAnswer
    BY DEF AnswersNew, NoOldAnswer
  <1> QED
    BY <1>1, <1>2, <1>3, ProtocolInvariant, PTL DEF Spec

-----------------------------------------------------------------------------
(* Stops. *)

\* The press whose sentinel lies there has not stopped a turn yet.
Unspent == cancel /\ runner \in {"look", "idle", "read", "claim", "turn", "generating"}

\* Each turn that was stopped took a press of its own, and so will the next one.
StopsCounted ==
    /\ IsFiniteSet(stopped)
    /\ Cardinality(stopped) + (IF Unspent THEN 1 ELSE 0) <= count["stop"]

LEMMA StopsStep == TypeOK /\ StopsCounted /\ [Next]_vars => StopsCounted'
  <1> SUFFICES ASSUME TypeOK, StopsCounted, [Next]_vars PROVE StopsCounted'
    OBVIOUS
  <1>0. Cardinality(stopped) \in Nat /\ count["stop"] \in Nat
    BY FS_CardinalityType DEF StopsCounted, TypeOK
  <1>1. CASE /\ UNCHANGED stopped
             /\ count'["stop"] = count["stop"]
             /\ Unspent' => Unspent
    BY <1>0, <1>1 DEF StopsCounted
  <1>2. CASE Runner
    <2>1. CASE Cut
      <3>1. stopped' = stopped \cup {job.id} /\ ~Unspent' /\ Unspent
        BY <2>1 DEF Cut, Unspent, files
      <3>2. IsFiniteSet(stopped') /\ Cardinality(stopped') <= Cardinality(stopped) + 1
        <4>1. /\ IsFiniteSet(stopped \cup {job.id})
              /\ \/ Cardinality(stopped \cup {job.id}) = Cardinality(stopped)
                 \/ Cardinality(stopped \cup {job.id}) = Cardinality(stopped) + 1
          BY FS_AddElement DEF StopsCounted
        <4> QED
          BY <1>0, <3>1, <4>1
      <3>3. Cardinality(stopped') \in Nat /\ UNCHANGED count
        BY <2>1, <3>2, FS_CardinalityType DEF Cut
      <3> QED
        BY <1>0, <3>1, <3>2, <3>3 DEF StopsCounted
    <2>4. CASE Step \/ Continue \/ Answer
      BY <1>1, <2>4 DEF Step, Continue, Answer, Unspent, files, history
    <2>2. CASE Look \/ Idle \/ Read \/ Claim \/ EmptyTurn \/ EndTurn \/ Throw \/ Respond \/ ClearCancel
      BY <1>1, <2>2 DEF Look, Idle, Read, Claim, EmptyTurn, EndTurn, Throw, Respond,
                        ClearCancel, Unspent, files, history
    <2>3. CASE Remember
      BY <1>1, <2>3 DEF TypeOK, Remember, Bump, Unspent, history
    <2> QED
      BY <1>2, <2>1, <2>2, <2>3, <2>4 DEF Runner
  <1>3. ASSUME NEW t \in Threads, Client(t) PROVE StopsCounted'
    BY <1>1, <1>3 DEF Client, ClearResponse, OpenPart, FillPart, CheckTarget, Unlink,
                      Publication, Return, Finish, GiveUp, Unspent, files, service, history
  <1>4. CASE SendTurn \/ HandleEvent \/ WorkerCall \/ Kill
    <2>1. UNCHANGED stopped /\ count'["stop"] = count["stop"]
      BY <1>4 DEF TypeOK, SendTurn, StartSend, HandleEvent, WorkerCall, Kill, Bump, history
    <2>2. Unspent' => Unspent
      BY <1>4 DEF SendTurn, HandleEvent, WorkerCall, Kill, Unspent, files, service
    <2> QED
      BY <1>1, <2>1, <2>2
  <1>5. CASE PressStop
    <2>1. UNCHANGED <<stopped, runner>> /\ count'["stop"] = count["stop"] + 1
      BY <1>5 DEF TypeOK, PressStop, Bump, service
    <2> QED
      BY <1>0, <2>1 DEF StopsCounted
  <1>6. CASE Restart
    <2>1. PICK stop \in BOOLEAN :
              /\ cancel' = (runner # "down" /\ (cancel \/ stop))
              /\ count' = [count EXCEPT !["stop"] = IF stop THEN @ + 1 ELSE @]
      <3>1. PICK destroyed \in BOOLEAN :
              LET stop == destroyed /\ running /\ count["stop"] < MaxStops IN
              /\ cancel' = (runner # "down" /\ (cancel \/ stop))
              /\ count' = [count EXCEPT !["stop"] = IF stop THEN @ + 1 ELSE @]
        BY <1>6, Zenon DEF Restart
      <3> DEFINE stop == destroyed /\ running /\ count["stop"] < MaxStops
      <3>2. stop \in BOOLEAN
        OBVIOUS
      <3> QED
        BY <3>1, <3>2
    <2>2. UNCHANGED stopped /\ count'["stop"] = IF stop THEN count["stop"] + 1 ELSE count["stop"]
      BY <1>6, <2>1 DEF TypeOK, Restart, history
    <2>3. CASE stop
      BY <1>0, <2>2, <2>3 DEF StopsCounted
    <2>4. CASE ~stop
      <3>1. Unspent' => Unspent
        BY <1>6, <2>1, <2>4 DEF Restart, Unspent
      <3> QED
        BY <1>1, <2>2, <2>4, <3>1
    <2> QED
      BY <2>3, <2>4
  <1>7. CASE UNCHANGED vars
    BY <1>1, <1>7 DEF vars, files, service, history, Unspent
  <1> QED
    BY <1>2, <1>3, <1>4, <1>5, <1>6, <1>7 DEF Next

\* One press of the stop button never stops two turns (clear_cancel, start_runner),
\* whoever dies or starts in between.
THEOREM OnePressOneTurn == Spec => []StopStopsOneTurn
  <1>1. Init => StopsCounted
    BY FS_EmptySet DEF Init, StopsCounted, Unspent
  <1>2. ProtocolInv /\ StopsCounted /\ [Next]_vars => StopsCounted'
    BY StopsStep DEF ProtocolInv
  <1>3. ProtocolInv /\ StopsCounted => StopStopsOneTurn
    BY FS_CardinalityType DEF ProtocolInv, TypeOK, StopsCounted, StopStopsOneTurn
  <1> QED
    BY <1>1, <1>2, <1>3, ProtocolInvariant, PTL DEF Spec
-----------------------------------------------------------------------------
(* A user who does one thing at a time, and an app that is not closed. *)

\* A turn that the runner may still cut short, or that has not emitted its last
\* event.
InFlight ==
    \/ request.kind = "turn"
    \/ runner \in {"claim", "turn", "generating"} /\ job.kind = "turn"
    \/ runner \in {"closing", "remembered"}

Sending == Active("main") /\ thread["main"].req.kind = "turn"

\* The runner removes the sentinel before it claims another request.
Purging == runner \in {"query", "respond", "clear", "idle"}

\* A request of one thread at a time, whole before it is published.
OneSender ==
    /\ At("main", "free") \/ At("worker", "free")
    /\ Active("worker") => thread["worker"].req.kind = "query" /\ ~running
    /\ \A t \in Threads :
          /\ Active(t) => thread[t].req.text = "whole" /\ thread[t].req.kind # "none"
          /\ At(t, "fill") => /\ part = [thread[t].req EXCEPT !.text = "empty"]
                             /\ opened[t] = "part"
          /\ thread[t].pc \in {"check", "unlink", "rename"} => part = thread[t].req
    /\ request.text = "whole" /\ job.text = "whole"
    /\ runner \in {"turn", "generating"} => job.kind = "turn"

\* A turn is shown as running until its last event is handled, and it is the only
\* one.
OneTurn ==
    /\ InFlight => running
    /\ Sending => ~running
    /\ events # <<>> => running
    /\ \A k \in DOMAIN events : events[k] = "turn_end" => k = Len(events) /\ ~InFlight
    /\ request.kind = "turn" =>
           request.id = shown /\ runner \notin {"turn", "generating", "closing", "remembered"}
    /\ runner \in {"claim", "turn", "generating"} /\ job.kind = "turn" => job.id = shown

\* A query is on its way to the runner, or waits for it.
QueryComing ==
    \/ request # NoFile
    \/ \E t \in Threads : thread[t].pc \in {"clear", "open", "fill", "check", "rename"}

\* Whom the sentinel can stop: a turn the user asked to stop, unless the runner
\* removes it first.  After a turn a query always reaches the runner.
SentinelMeant ==
    /\ cancel /\ Sending => Purging
    /\ cancel /\ request.kind = "turn" => request.id \in asked \/ Purging
    /\ cancel /\ runner \in {"claim", "turn", "generating"} /\ job.kind = "turn" => job.id \in asked
    /\ cancel /\ ~running /\ ~Sending => Purging \/ QueryComing

\* Once the runner is dead nothing is stopped any more.
CalmInv ==
    /\ StopsOnlyAsked
    /\ runner # "down" => OneSender /\ OneTurn /\ SentinelMeant

\* The runner's steps: an event is emitted by the one turn in flight.
LEMMA RunnerCalm ==
    ASSUME TypeOK, OneSender, OneTurn, SentinelMeant, StopsOnlyAsked, Runner
    PROVE  OneSender' /\ OneTurn' /\ SentinelMeant' /\ StopsOnlyAsked'
  <1>0. /\ events \in Seq({"memory_write", "turn_end", "error"}) /\ Len(events) \in Nat
        /\ UNCHANGED <<thread, running, shown, asked>>
    BY DEF TypeOK, Runner, Look, Idle, Read, Claim, EmptyTurn, Step, Cut, Continue, Answer,
           Remember, EndTurn, Throw, Respond, ClearCancel, app, history
  <1> USE <1>0 DEF OneSender, OneTurn, SentinelMeant, StopsOnlyAsked, InFlight, Sending, Active,
                   At, Purging, QueryComing, NoFile, files, app, history
  \* An event is emitted by a turn in flight, so none was its last.
  <1>a. ASSUME NEW type \in {"memory_write", "turn_end", "error"}, Emit(type),
               runner \in {"turn", "generating", "closing", "remembered"},
               runner \in {"turn", "generating"} => job.kind = "turn"
        PROVE  /\ events' # <<>> /\ running
               /\ \A k \in DOMAIN events' : events'[k] = "turn_end" => k = Len(events') /\ type = "turn_end"
    <2>1. running /\ \A k \in DOMAIN events : events[k] # "turn_end"
      BY <1>a
    <2>2. /\ DOMAIN events' = 1 .. Len(events) + 1 /\ Len(events') = Len(events) + 1
          /\ events'[Len(events) + 1] = type
          /\ \A k \in DOMAIN events : events'[k] = events[k]
          /\ DOMAIN events = 1 .. Len(events)
      BY <1>a DEF Emit
    <2> QED
      BY <2>1, <2>2
  <1>1. CASE Look
    BY <1>1 DEF Look
  <1>2. CASE Idle
    BY <1>2 DEF Idle
  <1>3. CASE Read
    BY <1>3 DEF Read
  <1>4. CASE Claim
    <2>1. /\ runner = "claim" /\ request' = NoFile
          /\ runner' = IF job.kind = "turn" THEN "turn" ELSE "query"
          /\ UNCHANGED <<part, cancel, events, job, stopped>>
      BY <1>4 DEF Claim, IsTurn
    <2>2. \A t \in Threads : opened[t] = "part" => opened'[t] = "part"
      BY <1>4 DEF Claim, Removed
    <2>3. OneSender'
      BY <2>1, <2>2
    <2>4. OneTurn'
      BY <2>1
    <2>5. SentinelMeant' /\ StopsOnlyAsked'
      BY <2>1
    <2> QED
      BY <2>3, <2>4, <2>5
  <1>5. CASE EmptyTurn
    BY <1>5 DEF EmptyTurn
  <1>6. CASE Step \/ Cut \/ Continue \/ Answer
    BY <1>6 DEF Step, Cut, Continue, Answer
  <1>7. CASE Remember
    <2>1. Emit("memory_write") /\ runner = "closing"
      BY <1>7 DEF Remember
    <2> QED
      BY <1>7, <1>a, <2>1 DEF Remember
  <1>8. CASE EndTurn
    <2>1. Emit("turn_end") /\ runner \in {"closing", "remembered"}
      BY <1>8 DEF EndTurn
    <2> QED
      BY <1>8, <1>a, <2>1 DEF EndTurn
  <1>9. CASE Throw
    <2>1. Emit("error") /\ runner \in {"turn", "generating"}
      BY <1>9 DEF Throw
    <2> QED
      BY <1>9, <1>a, <2>1 DEF Throw
  <1>10. CASE Respond
    BY <1>10 DEF Respond
  <1>11. CASE ClearCancel
    BY <1>11 DEF ClearCancel
  <1> QED
    BY <1>1, <1>2, <1>3, <1>4, <1>5, <1>6, <1>7, <1>8, <1>9, <1>10, <1>11 DEF Runner

\* A thread that goes on keeps its request.
LEMMA Moved ==
    ASSUME TypeOK, NEW t \in Threads, NEW pc, Goto(t, pc)
    PROVE  /\ thread'[t].pc = pc /\ thread'[t].req = thread[t].req
           /\ \A u \in Threads \ {t} : thread'[u] = thread[u]
  <1>1. thread \in [Threads -> Thread] /\ thread[t] \in Thread
    BY DEF TypeOK
  <1> QED
    BY <1>1 DEF Goto, Thread

\* The steps of the one thread that is in send or call.
LEMMA ClientCalm ==
    ASSUME TypeOK, runner # "down", OneSender, OneTurn, SentinelMeant,
           NEW t \in Threads, Client(t)
    PROVE  OneSender' /\ OneTurn' /\ SentinelMeant'
  <1>0. /\ thread["main"] \in Thread /\ thread["worker"] \in Thread
        /\ DOMAIN thread = {"main", "worker"} /\ request \in Request /\ part \in Request
    BY DEF TypeOK, Threads
  <1>1. /\ Active(t) /\ t \in {"main", "worker"}
        /\ \A u \in Threads : u # t => thread[u].pc = "free" /\ thread'[u] = thread[u]
        /\ UNCHANGED <<cancel, events, runner, job, asked>>
    BY <1>0 DEF Client, ClearResponse, OpenPart, FillPart, CheckTarget, Unlink, Publication, Return,
                Finish, GiveUp, Goto, OneSender, Active, At, Threads, files, service, history
  <1> USE <1>0, <1>1
  <1> USE DEF OneSender, OneTurn, SentinelMeant, InFlight, Sending, Active, At, Purging,
              QueryComing, NoFile, Threads, Free, Goto, files, app, history
  <1>2. CASE ClearResponse(t)
    BY <1>2 DEF ClearResponse
  <1>3. CASE OpenPart(t)
    <2>1. /\ part' = [thread[t].req EXCEPT !.text = "empty"] /\ opened'[t] = "part"
          /\ thread[t].pc = "open" /\ UNCHANGED <<request, running, shown>>
      BY <1>3 DEF OpenPart, TypeOK
    <2>2. thread'[t].pc = "fill" /\ thread'[t].req = thread[t].req
      BY <1>3, Moved DEF OpenPart
    <2>3. OneSender'
      BY <2>1, <2>2
    <2>4. OneTurn' /\ SentinelMeant'
      BY <2>1, <2>2
    <2> QED
      BY <2>3, <2>4
  <1>4. CASE FillPart(t)
    <2>1. /\ thread'[t].pc = "check" /\ thread'[t].req = thread[t].req
          /\ thread[t].pc = "fill" /\ UNCHANGED <<running, shown>>
      BY <1>4 DEF FillPart
    <2>2. opened[t] = "part" /\ part = [thread[t].req EXCEPT !.text = "empty"]
      BY <2>1
    <2>3. part' = thread[t].req /\ request' = request
      <3>1. thread[t].req \in Request
        BY DEF Thread
      <3>2. part.text = "empty"
        BY <2>2, <3>1 DEF Request
      <3> QED
        BY <1>4, <2>2, <3>2 DEF FillPart, Contents
    <2> QED
      BY <2>1, <2>2, <2>3
  <1>5. CASE CheckTarget(t)
    BY <1>5 DEF CheckTarget
  <1>6. CASE Unlink(t)
    <2>1. /\ request' = [id |-> 0, kind |-> "none", text |-> "whole"] /\ thread[t].pc = "unlink"
          /\ UNCHANGED <<part, running, shown>>
      BY <1>6 DEF Unlink
    <2>2. \/ thread'[t].pc = "free" /\ request = NoFile
          \/ thread'[t].pc = "rename" /\ thread'[t].req = thread[t].req
      <3>1. CASE request = NoFile
        <4>1. thread' = [thread EXCEPT ![t] = Free]
          BY <1>6, <3>1 DEF Unlink
        <4> QED
          BY <3>1, <4>1
      <3>2. CASE request # NoFile
        <4>1. Goto(t, "rename")
          BY <1>6, <3>2 DEF Unlink
        <4> QED
          BY <4>1, Moved
      <3> QED
        BY <3>1, <3>2
    <2>3. OneSender'
      BY <2>1, <2>2
    <2>4. OneTurn'
      BY <2>1, <2>2
    <2>5. SentinelMeant'
      BY <2>1, <2>2
    <2> QED
      BY <2>3, <2>4, <2>5
  <1>7. CASE Publication(t)
    <2>1. thread[t].pc = "rename" /\ part = thread[t].req /\ part.text = "whole"
      BY <1>7 DEF Publication
    <2>2. CASE part = NoFile
      BY <2>1, <2>2
    <2>3. CASE part # NoFile /\ part.kind = "turn"
      <3>1. /\ thread'[t].pc = "free" /\ request' = part /\ part' = NoFile
            /\ running' = TRUE /\ shown' = part.id
        BY <1>7, <2>1, <2>3 DEF Publication
      <3>2. t = "main" /\ Sending /\ ~running /\ ~InFlight
        BY <2>1, <2>3
      <3>3. OneSender'
        BY <2>1, <3>1, <3>2
      <3>4. OneTurn'
        BY <2>1, <2>3, <3>1, <3>2
      <3>5. SentinelMeant'
        BY <2>1, <2>3, <3>1, <3>2
      <3> QED
        BY <3>3, <3>4, <3>5
    <2>4. CASE part # NoFile /\ part.kind # "turn"
      <3>1. /\ thread'[t].pc = "poll" /\ thread'[t].req = thread[t].req /\ request' = part
            /\ part' = NoFile /\ UNCHANGED <<running, shown>>
        <4>1. Goto(t, "poll") /\ request' = part /\ part' = NoFile /\ UNCHANGED <<running, shown>>
          BY <1>7, <2>1, <2>4 DEF Publication
        <4> QED
          BY <4>1, Moved
      <3>3. OneSender'
        BY <2>1, <2>4, <3>1
      <3>4. OneTurn'
        BY <2>1, <2>4, <3>1
      <3>5. SentinelMeant'
        BY <2>1, <2>4, <3>1
      <3> QED
        BY <3>3, <3>4, <3>5
    <2> QED
      BY <2>2, <2>3, <2>4
  <1>8. CASE Return(t)
    BY <1>8 DEF Return
  <1>9. CASE Finish(t)
    BY <1>9 DEF Finish
  <1>10. CASE GiveUp(t)
    BY <1>10 DEF GiveUp
  <1> QED
    BY <1>2, <1>3, <1>4, <1>5, <1>6, <1>7, <1>8, <1>9, <1>10 DEF Client

\* What the user does, and the events of the turn that was shown.
LEMMA UserCalm ==
    ASSUME Calm, TypeOK, runner # "down", OneSender, OneTurn, SentinelMeant,
           SendTurn \/ PressStop \/ HandleEvent \/ WorkerCall
    PROVE  OneSender' /\ OneTurn' /\ SentinelMeant'
  <1>0. /\ thread["main"] \in Thread /\ thread["worker"] \in Thread
        /\ DOMAIN thread = {"main", "worker"} /\ request \in Request /\ part \in Request
        /\ events \in Seq({"memory_write", "turn_end", "error"}) /\ Len(events) \in Nat
    BY DEF TypeOK, Threads
  <1> USE <1>0
  <1> USE DEF OneSender, OneTurn, SentinelMeant, InFlight, Sending, Active, At, Purging,
              QueryComing, NoFile, Threads, Free, NextRequest, files, service, app, history
  <1>1. CASE SendTurn
    BY <1>1 DEF SendTurn, StartSend, CalmNow
  <1>2. CASE PressStop
    BY <1>2 DEF PressStop, InTime, InLoop, service
  <1>3. CASE HandleEvent
    <2>1. /\ thread["main"].pc = "free" /\ events # <<>> /\ events' = Tail(events)
          /\ running /\ thread["worker"].pc = "free"
          /\ running' = (Head(events) # "turn_end")
          /\ UNCHANGED <<request, part, cancel, runner, job, shown, asked>>
      BY <1>3 DEF HandleEvent
    <2>2. /\ Len(events') = Len(events) - 1 /\ DOMAIN events = 1 .. Len(events)
          /\ DOMAIN events' = 1 .. Len(events) - 1 /\ Head(events) = events[1]
          /\ \A k \in DOMAIN events' : events'[k] = events[k + 1]
      BY <2>1
    <2>3. \A k \in DOMAIN events' : k + 1 \in DOMAIN events
      BY <2>2
    <2>4. \A k \in DOMAIN events' : events'[k] = "turn_end" => k = Len(events') /\ ~InFlight
      BY <2>2, <2>3
    <2>5. ~running' => ~InFlight /\ events' = <<>>
      <3>1. ASSUME events[1] = "turn_end" PROVE 1 = Len(events) /\ ~InFlight
        BY <2>1, <2>2, <3>1
      <3>2. Len(events) = 1 => events' = <<>>
        BY <2>1, <2>2
      <3> QED
        BY <2>1, <2>2, <3>1, <3>2
    <2>6. \/ thread' = thread /\ running'
          \/ /\ thread'["main"].pc = "clear" /\ thread'["main"].req.kind = "query"
             /\ thread'["main"].req.text = "whole" /\ thread'["worker"] = thread["worker"]
      <3>1. CASE Head(events) = "error"
        BY <1>3, <2>1, <3>1 DEF HandleEvent
      <3>2. CASE Head(events) # "error"
        <4>1. StartCall("main")
          BY <1>3, <3>2 DEF HandleEvent
        <4>2. /\ thread'["main"] = [Free EXCEPT !.pc = "clear", !.req = NextRequest("query")]
              /\ thread'["worker"] = thread["worker"]
          BY <4>1 DEF StartCall
        <4> QED
          BY <4>2
      <3> QED
        BY <3>1, <3>2
    <2>7. OneSender'
      BY <2>1, <2>6
    <2>8. OneTurn'
      BY <2>1, <2>4, <2>5, <2>6
    <2>9. SentinelMeant'
      BY <2>1, <2>6
    <2> QED
      BY <2>7, <2>8, <2>9
  <1>4. CASE WorkerCall
    BY <1>4 DEF WorkerCall, StartCall, CalmNow
  <1> QED
    BY <1>1, <1>2, <1>3, <1>4

\* The calm invariant is kept until the runner dies, and after that nothing can
\* break it.
LEMMA CalmStep ==
    ASSUME Calm, ~Restarts, TypeOK, CalmInv, [Next]_vars
    PROVE  CalmInv'
  <1>1. CASE runner = "down"
    <2>1. runner' = "down" /\ UNCHANGED stopped /\ asked \subseteq asked'
      <3>1. CASE Runner
        BY <1>1, <3>1 DEF Runner, Look, Idle, Read, Claim, EmptyTurn, Step, Cut, Continue,
                          Answer, Remember, EndTurn, Throw, Respond, ClearCancel
      <3>2. ASSUME NEW t \in Threads, Client(t)
            PROVE  UNCHANGED <<runner, stopped, asked>>
        BY <3>2 DEF Client, ClearResponse, OpenPart, FillPart, CheckTarget, Unlink,
                    Publication, Return, Finish, GiveUp, service, history
      <3>3. CASE SendTurn \/ PressStop \/ HandleEvent \/ WorkerCall
        <4>1. UNCHANGED <<runner, stopped>>
          BY <3>3 DEF SendTurn, PressStop, HandleEvent, WorkerCall, service, history
        <4>2. asked \subseteq asked'
          BY <3>3 DEF SendTurn, PressStop, HandleEvent, WorkerCall, service, history
        <4> QED
          BY <1>1, <4>1, <4>2
      <3>4. CASE Kill \/ Restart
        BY <1>1, <3>4 DEF Kill, Restart
      <3>5. CASE UNCHANGED vars
        BY <1>1, <3>5 DEF vars, service, history
      <3> QED
        BY <1>1, <3>1, <3>2, <3>3, <3>4, <3>5 DEF Next
    <2> QED
      BY <2>1 DEF CalmInv, StopsOnlyAsked
  <1>2. CASE runner # "down"
    <2>0. OneSender /\ OneTurn /\ SentinelMeant /\ StopsOnlyAsked
      BY <1>2 DEF CalmInv
    <2>1. CASE Runner
      BY <2>0, <2>1, RunnerCalm DEF CalmInv
    <2>2. ASSUME NEW t \in Threads, Client(t)
          PROVE  CalmInv'
      <3>1. OneSender' /\ OneTurn' /\ SentinelMeant'
        BY <1>2, <2>0, <2>2, ClientCalm
      <3>2. UNCHANGED <<stopped, asked>>
        BY <2>2 DEF Client, ClearResponse, OpenPart, FillPart, CheckTarget, Unlink,
                    Publication, Return, Finish, GiveUp, history
      <3> QED
        BY <2>0, <3>1, <3>2 DEF CalmInv, StopsOnlyAsked
    <2>3. CASE SendTurn \/ PressStop \/ HandleEvent \/ WorkerCall
      <3>1. OneSender' /\ OneTurn' /\ SentinelMeant'
        BY <1>2, <2>0, <2>3, UserCalm
      <3>2. UNCHANGED stopped /\ asked \subseteq asked'
        BY <2>3 DEF SendTurn, PressStop, HandleEvent, WorkerCall, history
      <3> QED
        BY <2>0, <3>1, <3>2 DEF CalmInv, StopsOnlyAsked
    <2>4. CASE Kill \/ Restart
      BY <2>0, <2>4 DEF Kill, Restart, CalmInv, StopsOnlyAsked, history
    <2>5. CASE UNCHANGED vars
      BY <2>0, <2>5 DEF vars, files, service, app, history, CalmInv, StopsOnlyAsked, OneSender, OneTurn,
                       SentinelMeant, InFlight, Sending, Active, At, Purging, QueryComing
    <2> QED
      BY <2>1, <2>2, <2>3, <2>4, <2>5 DEF Next
  <1> QED
    BY <1>1, <1>2

\* For a user who does one thing at a time and an app that is not closed, the turn
\* that stops is one the user asked to stop: a sentinel that comes too late for its
\* turn is removed before the next one begins (clear_cancel, the idle loop), whatever
\* calls give up, turns throw, and wherever the runner dies.  Without the two conditions it is
\* false: closing the app leaves a sentinel nobody asked for (onDestroy), and two
\* requests at a time can put another turn in the way of one.
THEOREM OnlyAskedTurnsStop ==
    ASSUME Calm, ~Restarts
    PROVE  Spec => []StopsOnlyAsked
  <1>1. Init => CalmInv
    <2> SUFFICES ASSUME Init PROVE CalmInv
      OBVIOUS
    <2>1. stopped \subseteq asked
      BY DEF Init
    <2>2. OneSender
      <3>1. /\ \A t \in Threads : thread[t].pc = "free"
            /\ request.text = "whole" /\ job.text = "whole" /\ runner = "look"
        BY DEF Init, Free, NoFile
      <3> QED
        BY <3>1 DEF OneSender, Active, At, Threads
    <2>3. OneTurn /\ SentinelMeant
      BY DEF Init, OneTurn, SentinelMeant, InFlight, Sending, Active, At, Free, NoFile
    <2> QED
      BY <2>1, <2>2, <2>3 DEF CalmInv, StopsOnlyAsked
  <1>2. ProtocolInv /\ CalmInv /\ [Next]_vars => CalmInv'
    BY CalmStep DEF ProtocolInv
  <1>3. CalmInv => StopsOnlyAsked
    BY DEF CalmInv
  <1> QED
    BY <1>1, <1>2, <1>3, ProtocolInvariant, PTL DEF Spec
================================================================================
