--------------------------- MODULE KBAssignProofs ---------------------------
(***************************************************************************)
(* Proofs about taken keyboards, for every number of keyboards, sessions   *)
(* and assignments.  The three properties need one another: a release is  *)
(* not lost because an assignment that is being released is out of the    *)
(* table, and a session stays aside because none in the table has been    *)
(* released.                                                               *)
(***************************************************************************)
EXTENDS KBAssign, TLAPS

-----------------------------------------------------------------------------
(* The inductive invariant.                                                *)

Taken(k) == kbOwner[k] # NoAssignment

(* An assignment stands at the keyboard of the session it was made of. *)
Named == \A k \in Keyboards : Taken(k) => kb[asg[kbOwner[k]].peer] = k

(* No assignment in the table has been released. *)
NotReleased == \A k \in Keyboards : Taken(k) => ~asg[kbOwner[k]].done

(* One that is being released is out of the table. *)
OutOfTable == \A s \in Sessions :
  pc[s] \in {"unsteal", "release"} => ~InTable(at[s])

(* The job that made an assignment has not begun its last clean-up. *)
Closing == Ended \cup {"unstealAll"}
OwnedByOpen == \A k \in Keyboards :
  Taken(k) => \E s \in Sessions : kb[s] = asg[kbOwner[k]].owner
                                    /\ pc[s] \notin Closing

(* A single keyboard is given back on the way to something else. *)
Returning == \A s \in Sessions :
  pc[s] \in {"unsteal", "release"} => ret[s] \notin Closing

Handed ==
  /\ Named /\ NotReleased /\ OutOfTable /\ Returning
  /\ StepsAside /\ NoLostRelease /\ OwnedByOpen

IInv == TypeOK /\ Handed

-----------------------------------------------------------------------------
(* Type correctness.                                                       *)

LEMMA InitTyped == Init => TypeOK
BY KBAssumption DEF Init, TypeOK, Assignment, SomeSession, PC, Taking, Turn, Ended

LEMMA AssignmentTyped ==
  ASSUME NEW x \in Assignment
  PROVE  /\ x.owner \in Keyboards /\ x.peer \in Sessions
         /\ [x EXCEPT !.parked = TRUE] \in Assignment
         /\ [x EXCEPT !.done = TRUE] \in Assignment
BY DEF Assignment

(* What a step does to pc, the only variable with conditions on others. *)
LEMMA GotoTyped ==
  ASSUME TypeOK, NEW s \in Sessions, NEW place \in PC, Goto(s, place),
         place \notin Taking \cup {"blocked", "unsteal", "release"}
  PROVE  /\ pc' \in [Sessions -> PC]
         /\ pc'[s] = place
         /\ \A r \in Sessions \ {s} : pc'[r] = pc[r]
BY DEF TypeOK, Goto

LEMMA SetFileTyped ==
  ASSUME TypeOK, NEW s \in Sessions, SetFile(s),
         UNCHANGED <<table, kb, loggedIn, peers, ret>>,
         stolen' \subseteq Sessions
  PROVE  TypeOK'
<1>1. "program" \in PC \ (Taking \cup {"blocked", "unsteal", "release"})
  BY DEF PC, Turn, Taking
<1>2. /\ pc' \in [Sessions -> PC] /\ pc'[s] = "program"
      /\ \A r \in Sessions \ {s} : pc'[r] = pc[r]
  BY <1>1, GotoTyped DEF SetFile
<1>3. /\ peer' \in [Sessions -> SomeSession]
      /\ at' \in [Sessions -> Assignments \cup {NoAssignment}]
      /\ file' \in [Sessions -> SomeSession]
      /\ \A r \in Sessions \ {s} : peer'[r] = peer[r] /\ at'[r] = at[r]
  BY DEF SetFile, TypeOK, SomeSession
<1>4. QED
  BY <1>1, <1>2, <1>3 DEF TypeOK, table

LEMMA CloseFileTyped ==
  ASSUME TypeOK, NEW s \in Sessions, NEW next \in {"program", "top", "bye", "unregister"},
         CloseFile(s, next)
  PROVE  TypeOK'
<1> DEFINE p == file[s]
           a == IF p = NoSession THEN NoAssignment ELSE kbOwner[kb[p]]
<1>1. UNCHANGED <<shells, asg, kb, loggedIn, stolen, peers>>
  BY DEF CloseFile, lines
<1>2. file' \in [Sessions -> SomeSession]
  BY DEF CloseFile, TypeOK, SomeSession
<1>3. CASE a # NoAssignment /\ asg[a].owner = kb[s]
  <2>1. p \in Sessions /\ kb[p] \in Keyboards /\ a \in Assignments
    BY <1>3 DEF TypeOK, SomeSession
  <2>2. asg[a].peer \in Sessions
    BY <2>1, AssignmentTyped DEF TypeOK
  <2>3. /\ kbOwner' = [kbOwner EXCEPT ![kb[p]] = NoAssignment]
        /\ peer' = [peer EXCEPT ![s] = asg[a].peer]
        /\ at' = [at EXCEPT ![s] = a]
        /\ ret' = [ret EXCEPT ![s] = next]
        /\ pc' = [pc EXCEPT ![s] = "unsteal"]
    BY <1>3 DEF CloseFile, Goto
  <2>4. NoAssignment \notin Assignments /\ NoSession \notin Sessions
    BY KBAssumption
  <2>5. /\ kbOwner' \in [Keyboards -> Assignments \cup {NoAssignment}]
        /\ pc' \in [Sessions -> PC]
        /\ ret' \in [Sessions -> {"program", "top", "bye", "unregister", "unshell", "gone"}]
        /\ peer' \in [Sessions -> SomeSession]
        /\ at' \in [Sessions -> Assignments \cup {NoAssignment}]
    BY <2>1, <2>2, <2>3 DEF TypeOK, SomeSession, PC
  <2>6. \A r \in Sessions :
          /\ pc'[r] \in Taking \cup {"unsteal"} => peer'[r] # NoSession
          /\ pc'[r] \in {"blocked", "steal", "await", "unsteal", "release"}
               => at'[r] # NoAssignment
    BY <2>1, <2>2, <2>3, <2>4 DEF TypeOK
  <2>7. QED
    BY <1>1, <1>2, <2>5, <2>6 DEF TypeOK
<1>4. CASE ~(a # NoAssignment /\ asg[a].owner = kb[s])
  <2>1. Goto(s, next) /\ UNCHANGED <<kbOwner, peer, at, ret>>
    BY <1>4 DEF CloseFile
  <2>2. next \in PC \ (Taking \cup {"blocked", "unsteal", "release"})
    BY DEF PC, Turn, Taking
  <2>3. /\ pc' \in [Sessions -> PC] /\ pc'[s] = next
        /\ \A r \in Sessions \ {s} : pc'[r] = pc[r]
    BY <2>1, <2>2, GotoTyped
  <2>4. QED
    BY <1>1, <1>2, <2>1, <2>2, <2>3 DEF TypeOK
<1>5. QED
  BY <1>3, <1>4

LEMMA ReleaseKBForJobTyped ==
  ASSUME TypeOK, NEW s \in Sessions, NEW next \in {"unshell", "gone"},
         ReleaseKBForJob(s, next)
  PROVE  TypeOK'
<1> DEFINE gone == {k \in Keyboards : kbOwner[k] # NoAssignment
                                        /\ OfJob(kbOwner[k], s)}
<1>1. kbOwner' \in [Keyboards -> Assignments \cup {NoAssignment}]
  BY DEF ReleaseKBForJob, TypeOK
<1>2. asg' \in [Assignments -> Assignment]
  <2>1. \A a \in Assignments : /\ asg[a] \in Assignment
                                /\ [asg[a] EXCEPT !.done = TRUE] \in Assignment
    BY AssignmentTyped DEF TypeOK
  <2>2. QED
    BY <2>1 DEF ReleaseKBForJob
<1>3. peers' \in [Sessions -> SUBSET Sessions]
  <2>1. \A k \in gone : asg[kbOwner[k]].peer \in Sessions
    BY AssignmentTyped DEF TypeOK
  <2>2. QED
    BY <2>1 DEF ReleaseKBForJob, TypeOK
<1>4. ret' \in [Sessions -> {"program", "top", "bye", "unregister", "unshell", "gone"}]
  BY DEF ReleaseKBForJob, TypeOK
<1>5. Goto(s, "unstealAll") /\ UNCHANGED <<shells, kb, loggedIn, stolen, file, peer, at>>
  BY DEF ReleaseKBForJob, lines
<1>6. "unstealAll" \in PC \ (Taking \cup {"blocked", "unsteal", "release"})
  BY DEF PC, Taking
<1>7. /\ pc' \in [Sessions -> PC] /\ pc'[s] = "unstealAll"
      /\ \A r \in Sessions \ {s} : pc'[r] = pc[r]
  BY <1>5, <1>6, GotoTyped
<1>8. QED
  BY <1>1, <1>2, <1>3, <1>4, <1>5, <1>6, <1>7 DEF TypeOK

(* Steps that only move a session on, and may change what it keeps of the *)
(* lines.                                                                  *)
LEMMA MoveTyped ==
  ASSUME TypeOK, NEW s \in Sessions, NEW place \in PC, Goto(s, place),
         place \notin Taking \cup {"blocked", "unsteal", "release"},
         UNCHANGED <<table, kb, file, peer, at, ret>>,
         loggedIn' \subseteq Sessions, stolen' \subseteq Sessions,
         peers' \in [Sessions -> SUBSET Sessions]
  PROVE  TypeOK'
<1>1. /\ pc' \in [Sessions -> PC] /\ pc'[s] = place
      /\ \A r \in Sessions \ {s} : pc'[r] = pc[r]
  BY GotoTyped
<1>2. /\ shells' = shells /\ kbOwner' = kbOwner /\ asg' = asg
      /\ kb' = kb /\ file' = file /\ peer' = peer /\ at' = at /\ ret' = ret
  BY DEF table
<1>3. \A r \in Sessions :
        /\ pc'[r] \in Taking \cup {"unsteal"} => peer'[r] # NoSession
        /\ pc'[r] \in {"blocked", "steal", "await", "unsteal", "release"}
             => at'[r] # NoAssignment
  <2>1. ~(place \in Taking \cup {"unsteal"})
        /\ place \notin {"blocked", "steal", "await", "unsteal", "release"}
    BY DEF Taking
  <2>2. QED
    BY <1>1, <1>2, <2>1 DEF TypeOK
<1>4. QED
  BY <1>1, <1>2, <1>3 DEF TypeOK

LEMMA ReturnTyped ==
  ASSUME TypeOK, NEW s \in Sessions, Return(s)
  PROVE  /\ pc' \in [Sessions -> PC]
         /\ pc'[s] \notin Taking \cup {"blocked", "unsteal", "release"}
         /\ \A r \in Sessions \ {s} : pc'[r] = pc[r]
         /\ ret' \in [Sessions -> {"program", "top", "bye", "unregister", "unshell", "gone"}]
<1>1. ret[s] \in PC \ (Taking \cup {"blocked", "unsteal", "release"})
  BY DEF TypeOK, PC, Turn, Ended, Taking
<1>2. QED
  BY <1>1, GotoTyped DEF Return, TypeOK

LEMMA StepTyped ==
  ASSUME TypeOK, NEW s \in Sessions, Decide(s) \/ Proceed(s)
  PROVE  TypeOK'
<1> USE DEF table, lines, locals
<1>1. ASSUME NEW k \in Keyboards, Connect(s, k) PROVE TypeOK'
  <2>1. "top" \in PC \ (Taking \cup {"blocked", "unsteal", "release"})
    BY DEF PC, Turn, Taking
  <2>2. /\ pc' \in [Sessions -> PC] /\ pc'[s] = "top"
        /\ \A r \in Sessions \ {s} : pc'[r] = pc[r]
    BY <1>1, <2>1, GotoTyped DEF Connect
  <2>3. QED
    BY <1>1, <2>1, <2>2 DEF Connect, TypeOK, SomeSession
<1>2. ASSUME NEW k \in Keyboards, Open(s, k) PROVE TypeOK'
  BY <1>2 DEF Open, Goto, TypeOK, SomeSession, PC, Taking
<1>3. CASE ReadLine(s) \/ Hello(s) \/ RunProgram(s) \/ OtherLine(s) \/ StopProgram(s)
           \/ Password(s) \/ ReadForced(s) \/ WaitIfAssigned(s) \/ DeleteJob(s)
  <2>1. {"line", "password", "program", "top", "login", "forced", "wait", "read", "none"}
          \subseteq PC \ (Taking \cup {"blocked", "unsteal", "release"})
    BY DEF PC, Turn, Taking, Ended
  <2>2. PICK place \in {"line", "password", "program", "top", "login", "forced",
                        "wait", "read", "none"} :
          Goto(s, place) /\ UNCHANGED <<table, lines, locals>>
    BY <1>3 DEF ReadLine, Hello, RunProgram, OtherLine, StopProgram, Password,
                ReadForced, WaitIfAssigned, DeleteJob
  <2>3. loggedIn \subseteq Sessions /\ stolen \subseteq Sessions
        /\ peers \in [Sessions -> SUBSET Sessions]
    BY DEF TypeOK
  <2>4. QED
    BY <2>1, <2>2, <2>3, MoveTyped
<1>4. CASE Login(s) \/ LogOut(s)
  <2>1. "top" \in PC \ (Taking \cup {"blocked", "unsteal", "release"})
    BY DEF PC, Turn, Taking
  <2>2. QED
    BY <1>4, <2>1, MoveTyped DEF Login, LogOut, TypeOK
<1>5. CASE Close(s) \/ EndProgram(s) \/ Bye(s) \/ EndOfFile(s)
  BY <1>5, CloseFileTyped DEF Close, EndProgram, Bye, EndOfFile
<1>6. CASE WaitKBReleased(s)
  <2> DEFINE a == kbOwner[kb[s]]
  <2>1. CASE a = NoAssignment
    <3>1. "top" \in PC \ (Taking \cup {"blocked", "unsteal", "release"})
      BY DEF PC, Turn, Taking
    <3>2. Goto(s, "top") /\ UNCHANGED <<table, lines, locals>>
      BY <1>6, <2>1 DEF WaitKBReleased
    <3>3. QED
      BY <3>1, <3>2, MoveTyped DEF TypeOK
  <2>2. CASE a # NoAssignment
    <3>1. a \in Assignments /\ [asg[a] EXCEPT !.parked = TRUE] \in Assignment
      BY <2>2, AssignmentTyped DEF TypeOK
    <3>2. /\ asg' = [asg EXCEPT ![a].parked = TRUE]
          /\ at' = [at EXCEPT ![s] = a]
          /\ pc' = [pc EXCEPT ![s] = "blocked"]
          /\ UNCHANGED <<shells, kbOwner, lines, file, peer, peers, ret>>
      BY <1>6, <2>2 DEF WaitKBReleased, Goto
    <3>3. asg' \in [Assignments -> Assignment]
      BY <3>1, <3>2 DEF TypeOK
    <3>4. "blocked" \in PC /\ "blocked" \notin Taking \cup {"unsteal"}
      BY DEF PC, Turn, Taking
    <3>5. QED
      BY <2>2, <3>1, <3>2, <3>3, <3>4 DEF TypeOK
  <2>3. QED
    BY <2>1, <2>2
<1>7. CASE Wake(s)
  <2>1. "wait" \in PC \ (Taking \cup {"blocked", "unsteal", "release"})
    BY DEF PC, Turn, Taking
  <2>2. /\ pc' \in [Sessions -> PC] /\ pc'[s] = "wait"
        /\ \A r \in Sessions \ {s} : pc'[r] = pc[r]
    BY <1>7, <2>1, GotoTyped DEF Wake
  <2>3. QED
    BY <1>7, <2>1, <2>2 DEF Wake, TypeOK
<1>8. CASE TakeKB(s)
  <2>1. CASE Refused(s)
    <3>1. Goto(s, "program") /\ peer' = [peer EXCEPT ![s] = NoSession]
          /\ UNCHANGED <<table, lines, file, at, peers, ret>>
      BY <1>8, <2>1 DEF TakeKB
    <3>2. "program" \in PC \ (Taking \cup {"blocked", "unsteal", "release"})
      BY DEF PC, Turn, Taking
    <3>3. /\ pc' \in [Sessions -> PC] /\ pc'[s] = "program"
          /\ \A r \in Sessions \ {s} : pc'[r] = pc[r]
      BY <3>1, <3>2, GotoTyped
    <3>4. QED
      BY <3>1, <3>2, <3>3 DEF TypeOK, SomeSession
  <2>2. CASE ~Refused(s)
    <3>1. PICK a \in Assignments :
            /\ asg' = [asg EXCEPT ![a] = [owner |-> kb[s], peer |-> peer[s],
                                           done |-> FALSE, parked |-> FALSE]]
            /\ kbOwner' = [kbOwner EXCEPT ![kb[peer[s]]] = a]
            /\ at' = [at EXCEPT ![s] = a]
            /\ pc' = [pc EXCEPT ![s] = "steal"]
            /\ UNCHANGED <<shells, peer, lines, file, peers, ret>>
      BY <1>8, <2>2 DEF TakeKB, Goto
    <3>2. pc[s] = "found" /\ "found" \in Taking
      BY <1>8 DEF TakeKB, Taking
    <3>3. peer[s] \in Sessions
      BY <3>2 DEF TypeOK, SomeSession
    <3>4. asg' \in [Assignments -> Assignment]
      BY <3>1, <3>3 DEF TypeOK, Assignment
    <3>5. /\ "steal" \in PC /\ a # NoAssignment /\ peer[s] # NoSession
      BY <3>3, KBAssumption DEF PC, Taking
    <3>6. QED
      BY <3>1, <3>3, <3>4, <3>5 DEF TypeOK
  <2>3. QED
    BY <2>1, <2>2
<1>9. CASE Steal(s)
  <2>1. pc[s] = "steal" /\ peer[s] \in Sessions
    BY <1>9 DEF Steal, TypeOK, SomeSession, Taking
  <2>2. CASE kb[peer[s]] \in Telnet
    <3>1. /\ stolen' = stolen \cup {peer[s]}
          /\ pc' = [pc EXCEPT ![s] = "await"]
          /\ UNCHANGED <<table, kb, loggedIn, file, peer, at, peers, ret>>
      BY <1>9, <2>2 DEF Steal, Goto
    <3>2. "await" \in PC
      BY DEF PC, Taking
    <3>3. QED
      BY <2>1, <3>1, <3>2 DEF TypeOK, Taking
  <2>3. CASE kb[peer[s]] \notin Telnet
    BY <1>9, <2>3, SetFileTyped DEF Steal, TypeOK
  <2>4. QED
    BY <2>2, <2>3
<1>10. CASE Await(s) \/ Timeout(s)
  BY <1>10, SetFileTyped DEF Await, Timeout, TypeOK
<1>11. CASE Unsteal(s)
  BY <1>11 DEF Unsteal, Goto, TypeOK, SomeSession, PC, Taking
<1>12. CASE Release(s)
  <2>1. at[s] \in Assignments
    BY <1>12 DEF Release, TypeOK
  <2>2. [asg[at[s]] EXCEPT !.done = TRUE] \in Assignment
    BY <2>1, AssignmentTyped DEF TypeOK
  <2>3. asg' \in [Assignments -> Assignment]
    BY <1>12, <2>1, <2>2 DEF Release, TypeOK
  <2>4. /\ pc' \in [Sessions -> PC]
        /\ pc'[s] \notin Taking \cup {"blocked", "unsteal", "release"}
        /\ \A r \in Sessions \ {s} : pc'[r] = pc[r]
        /\ ret' \in [Sessions -> {"program", "top", "bye", "unregister", "unshell", "gone"}]
    BY <1>12, ReturnTyped DEF Release
  <2>5. /\ at' \in [Sessions -> Assignments \cup {NoAssignment}]
        /\ \A r \in Sessions \ {s} : at'[r] = at[r]
        /\ UNCHANGED <<shells, kbOwner, lines, file, peer, peers>>
    BY <1>12 DEF Release, TypeOK
  <2>6. QED
    BY <2>3, <2>4, <2>5 DEF TypeOK, Taking
<1>13. CASE Unregister(s) \/ Detach(s)
  BY <1>13, ReleaseKBForJobTyped DEF Unregister, Detach
<1>14. CASE UnstealOne(s)
  BY <1>14 DEF UnstealOne, TypeOK
<1>15. CASE UnstealNone(s)
  <2>1. Return(s) /\ UNCHANGED <<table, lines, file, peer, at, peers>>
    BY <1>15 DEF UnstealNone
  <2>2. /\ pc' \in [Sessions -> PC]
        /\ pc'[s] \notin Taking \cup {"blocked", "unsteal", "release"}
        /\ \A r \in Sessions \ {s} : pc'[r] = pc[r]
        /\ ret' \in [Sessions -> {"program", "top", "bye", "unregister", "unshell", "gone"}]
    BY <2>1, ReturnTyped
  <2>3. QED
    BY <2>1, <2>2 DEF TypeOK, Taking
<1>16. CASE DeleteShell(s)
  BY <1>16 DEF DeleteShell, Goto, TypeOK, SomeSession, PC, Ended, Taking
<1>17. QED
  BY <1>1, <1>2, <1>3, <1>4, <1>5, <1>6, <1>7, <1>8, <1>9, <1>10, <1>11,
     <1>12, <1>13, <1>14, <1>15, <1>16 DEF Decide, Proceed

(* Every field keeps its type, and whoever is named by a session that takes *)
(* or gives back a keyboard is there: peer and at are set where pc says.    *)
THEOREM TypeCorrect == Spec => []TypeOK
<1>1. TypeOK /\ [Next]_vars => TypeOK'
  <2>1. TypeOK /\ UNCHANGED vars => TypeOK'
    BY DEF vars, TypeOK
  <2>2. QED
    BY <2>1, StepTyped DEF Next
<1>2. QED
  BY <1>1, InitTyped, PTL DEF Spec

-----------------------------------------------------------------------------
(* Keyboards handed over.                                                  *)

Holding == {"blocked", "unsteal", "release"}

LEMMA InitHanded == Init => Handed
BY DEF Init, Handed, Named, NotReleased, OutOfTable, Returning, StepsAside, NoLostRelease,
       OwnedByOpen, Taken

(* A step of one session that leaves the table and the assignments alone. *)
LEMMA QuietStep ==
  ASSUME IInv, NEW s \in Sessions, UNCHANGED <<kbOwner, asg, kb>>,
         \A r \in Sessions \ {s} : /\ pc'[r] = pc[r] /\ at'[r] = at[r]
                                   /\ ret'[r] = ret[r],
         pc[s] \notin Holding, pc'[s] \notin Holding,
         pc[s] \in Closing \/ pc'[s] \notin Closing
  PROVE  Handed'
<1>1. \A a : InTable(a)' <=> InTable(a)
  BY DEF InTable
<1>2. Named' /\ NotReleased'
  BY DEF IInv, Handed, Named, NotReleased, Taken
<1>3. OutOfTable' /\ Returning'
  BY <1>1 DEF IInv, Handed, OutOfTable, Returning, Holding
<1>4. StepsAside'
  BY DEF IInv, Handed, StepsAside, Holding
<1>5. NoLostRelease'
  BY <1>1 DEF IInv, Handed, NoLostRelease, Holding
<1>6. OwnedByOpen'
  BY DEF IInv, Handed, OwnedByOpen, Taken
<1>7. QED
  BY <1>2, <1>3, <1>4, <1>5, <1>6 DEF Handed

(* The assignments in the table are distinct: each names one keyboard. *)
LEMMA OneKeyboard ==
  ASSUME Named, NEW k \in Keyboards, NEW l \in Keyboards, Taken(k),
         kbOwner[k] = kbOwner[l]
  PROVE  k = l
BY DEF Named, Taken

LEMMA SetFileHanded ==
  ASSUME IInv, NEW s \in Sessions, pc[s] \in {"steal", "await"}, SetFile(s),
         UNCHANGED <<table, kb, ret>>
  PROVE  Handed'
<1>1. \A r \in Sessions \ {s} : pc'[r] = pc[r] /\ at'[r] = at[r]
  BY DEF SetFile, Goto, IInv, TypeOK
<1>2. pc'[s] = "program"
  BY DEF SetFile, Goto, IInv, TypeOK
<1>3. QED
  BY <1>1, <1>2, QuietStep DEF table, Holding, Closing, Ended

(* A new session is nobody's peer and has held nothing. *)
LEMMA ConnectHanded ==
  ASSUME IInv, NEW s \in Sessions, NEW k \in Keyboards, Connect(s, k)
  PROVE  Handed'
<1>1. /\ UNCHANGED <<kbOwner, asg, at, ret>>
      /\ pc[s] = "none" /\ pc'[s] = "top"
      /\ \A r \in Sessions \ {s} : pc'[r] = pc[r] /\ kb'[r] = kb[r]
  BY DEF Connect, FreshSession, Goto, locals, IInv, TypeOK
<1>2. \A a : InTable(a)' <=> InTable(a)
  BY <1>1 DEF InTable
<1>3. Named'
  <2>1. \A l \in Keyboards : Taken(l) =>
          asg[kbOwner[l]].peer \in Sessions \ {s}
    <3>1. \A l \in Keyboards : Taken(l) =>
            /\ kbOwner[l] \in Assignments /\ asg[kbOwner[l]].peer \in Sessions
            /\ InTable(kbOwner[l])
      BY AssignmentTyped DEF IInv, TypeOK, Taken, InTable
    <3>2. QED
      BY <3>1 DEF Connect, FreshSession
  <2>2. QED
    BY <1>1, <2>1 DEF IInv, Handed, Named, Taken
<1>4. NotReleased'
  BY <1>1 DEF IInv, Handed, NotReleased, Taken
<1>5. OutOfTable' /\ Returning'
  BY <1>1, <1>2 DEF IInv, Handed, OutOfTable, Returning
<1>6. StepsAside'
  BY <1>1 DEF IInv, Handed, StepsAside
<1>7. NoLostRelease'
  BY <1>1, <1>2 DEF IInv, Handed, NoLostRelease
<1>8. OwnedByOpen'
  BY <1>1 DEF IInv, Handed, OwnedByOpen, Taken, Closing, Ended
<1>9. QED
  BY <1>3, <1>4, <1>5, <1>6, <1>7, <1>8 DEF Handed

(* Stepping aside: the session blocks on what it marks. *)
LEMMA WaitHanded ==
  ASSUME IInv, NEW s \in Sessions, WaitKBReleased(s)
  PROVE  Handed'
<1> DEFINE a == kbOwner[kb[s]]
<1>1. pc[s] = "wait" /\ UNCHANGED <<kbOwner, kb, ret>>
  BY DEF WaitKBReleased, lines
<1>2. CASE a = NoAssignment
  <2>1. UNCHANGED <<asg, at>> /\ pc'[s] = "top"
        /\ \A r \in Sessions \ {s} : pc'[r] = pc[r]
    BY <1>2 DEF WaitKBReleased, Goto, IInv, TypeOK
  <2>2. QED
    BY <1>1, <2>1, QuietStep DEF Holding, Closing, Ended
<1>3. CASE a # NoAssignment
  <2>1. kb[s] \in Keyboards /\ a \in Assignments /\ Taken(kb[s])
    BY <1>3 DEF IInv, TypeOK, Taken
  <2>2. /\ pc'[s] = "blocked" /\ at'[s] = a
        /\ \A r \in Sessions \ {s} : pc'[r] = pc[r] /\ at'[r] = at[r]
        /\ asg' = [asg EXCEPT ![a].parked = TRUE]
    BY <1>3 DEF WaitKBReleased, Goto, IInv, TypeOK
  <2>3. /\ \A b \in Assignments \ {a} : asg'[b] = asg[b]
        /\ asg'[a].owner = asg[a].owner /\ asg'[a].peer = asg[a].peer
        /\ asg'[a].done = asg[a].done
    BY <2>1, <2>2 DEF IInv, TypeOK, Assignment
  <2>4. \A k \in Keyboards : Taken(k) =>
          /\ kbOwner[k] \in Assignments
          /\ asg'[kbOwner[k]].owner = asg[kbOwner[k]].owner
          /\ asg'[kbOwner[k]].peer = asg[kbOwner[k]].peer
          /\ asg'[kbOwner[k]].done = asg[kbOwner[k]].done
    BY <2>3 DEF IInv, TypeOK, Taken
  <2>5. \A b : InTable(b)' <=> InTable(b)
    BY <1>1 DEF InTable
  <2>6. Named' /\ NotReleased'
    BY <1>1, <2>4 DEF IInv, Handed, Named, NotReleased, Taken
  <2>7. OutOfTable' /\ Returning'
    BY <1>1, <2>2, <2>5 DEF IInv, Handed, OutOfTable, Returning
  <2>8. StepsAside'
    <3> SUFFICES ASSUME NEW k \in Keyboards, kbOwner[k] # NoAssignment,
                        asg'[kbOwner[k]].parked
                 PROVE  \E r \in Sessions : kb[r] = k /\ pc'[r] = "blocked"
                                               /\ at'[r] = kbOwner[k]
      BY <1>1 DEF StepsAside
    <3>1. CASE k = kb[s]
      BY <2>2, <3>1
    <3>2. CASE k # kb[s]
      <4>1. kbOwner[k] # a
        BY <2>1, <3>2, OneKeyboard DEF IInv, Handed
      <4>2. asg'[kbOwner[k]] = asg[kbOwner[k]]
        BY <2>3, <4>1 DEF IInv, TypeOK
      <4>3. PICK r \in Sessions : kb[r] = k /\ pc[r] = "blocked" /\ at[r] = kbOwner[k]
        BY <4>2 DEF IInv, Handed, StepsAside
      <4>4. r # s
        BY <1>1, <4>3
      <4>5. QED
        BY <2>2, <4>3, <4>4
    <3>3. QED
      BY <3>1, <3>2
  <2>9. NoLostRelease'
    <3>1. InTable(a)
      BY <2>1 DEF InTable
    <3>2. \A b \in Assignments : asg[b].done => asg'[b].done
      BY <2>3
    <3>3. \A r \in Sessions : pc[r] = "blocked" => at[r] \in Assignments
      BY DEF IInv, TypeOK
    <3>4. QED
      BY <1>1, <2>2, <2>5, <3>1, <3>2, <3>3 DEF IInv, Handed, NoLostRelease
  <2>10. OwnedByOpen'
    BY <1>1, <2>2, <2>4 DEF IInv, Handed, OwnedByOpen, Taken, Closing, Ended
  <2>11. QED
    BY <2>6, <2>7, <2>8, <2>9, <2>10 DEF Handed
<1>4. QED
  BY <1>2, <1>3

(* Waking up: what the session waited for is out of the table. *)
LEMMA WakeHanded ==
  ASSUME IInv, NEW s \in Sessions, Wake(s)
  PROVE  Handed'
<1>1. /\ UNCHANGED <<kbOwner, asg, kb, ret>>
      /\ pc[s] = "blocked" /\ asg[at[s]].done /\ pc'[s] = "wait"
      /\ \A r \in Sessions \ {s} : pc'[r] = pc[r] /\ at'[r] = at[r]
  BY DEF Wake, Goto, table, lines, IInv, TypeOK
<1>2. \A a : InTable(a)' <=> InTable(a)
  BY <1>1 DEF InTable
<1>3. Named' /\ NotReleased' /\ OutOfTable' /\ Returning'
  BY <1>1, <1>2 DEF IInv, Handed, Named, NotReleased, OutOfTable, Returning, Taken
<1>4. StepsAside'
  BY <1>1 DEF IInv, Handed, StepsAside, NotReleased, Taken
<1>5. NoLostRelease'
  BY <1>1, <1>2 DEF IInv, Handed, NoLostRelease
<1>6. OwnedByOpen'
  BY <1>1 DEF IInv, Handed, OwnedByOpen, Taken, Closing, Ended
<1>7. QED
  BY <1>3, <1>4, <1>5, <1>6 DEF Handed

(* Entering an assignment: a new one, on a keyboard that had none. *)
LEMMA TakeHanded ==
  ASSUME IInv, NEW s \in Sessions, TakeKB(s)
  PROVE  Handed'
<1> DEFINE k0 == kb[peer[s]]
<1>1. pc[s] = "found" /\ kb' = kb /\ ret' = ret
      /\ peer[s] \in Sessions /\ k0 \in Keyboards
  BY DEF TakeKB, lines, IInv, TypeOK, Taking, SomeSession
<1>2. CASE Refused(s)
  <2>1. UNCHANGED <<kbOwner, asg, at>> /\ pc'[s] = "program"
        /\ \A r \in Sessions \ {s} : pc'[r] = pc[r]
    BY <1>2 DEF TakeKB, Goto, IInv, TypeOK, table
  <2>2. QED
    BY <1>1, <2>1, QuietStep DEF Holding, Closing, Ended
<1>3. CASE ~Refused(s)
  <2>1. PICK a \in Assignments :
          /\ FreshAssignment(a)
          /\ asg' = [asg EXCEPT ![a] = [owner |-> kb[s], peer |-> peer[s],
                                         done |-> FALSE, parked |-> FALSE]]
          /\ kbOwner' = [kbOwner EXCEPT ![k0] = a]
          /\ at' = [at EXCEPT ![s] = a]
          /\ pc' = [pc EXCEPT ![s] = "steal"]
    BY <1>3 DEF TakeKB, Goto
  <2>2. ~Taken(k0)
    BY <1>3 DEF Refused, Taken
  <2>3. /\ \A k \in Keyboards : kbOwner[k] # a
        /\ \A r \in Sessions : at[r] # a
        /\ a # NoAssignment
    BY <2>1, KBAssumption DEF FreshAssignment, InTable
  <2>4. /\ asg'[a] = [owner |-> kb[s], peer |-> peer[s],
                      done |-> FALSE, parked |-> FALSE]
        /\ \A b \in Assignments \ {a} : asg'[b] = asg[b]
        /\ kbOwner'[k0] = a
        /\ \A k \in Keyboards \ {k0} : kbOwner'[k] = kbOwner[k]
        /\ at'[s] = a /\ pc'[s] = "steal"
        /\ \A r \in Sessions \ {s} : at'[r] = at[r] /\ pc'[r] = pc[r]
    BY <1>1, <2>1 DEF IInv, TypeOK
  <2>5. \A k \in Keyboards \ {k0} : Taken(k) =>
          kbOwner[k] \in Assignments \ {a}
    BY <2>3 DEF IInv, TypeOK, Taken
  <2>6. Named'
    BY <1>1, <2>4, <2>5 DEF IInv, Handed, Named, Taken
  <2>7. NotReleased'
    BY <2>4, <2>5 DEF IInv, Handed, NotReleased, Taken
  <2>8. OutOfTable' /\ Returning'
    BY <1>1, <2>3, <2>4 DEF IInv, Handed, OutOfTable, Returning, InTable
  <2>9. StepsAside'
    <3> SUFFICES ASSUME NEW k \in Keyboards, kbOwner'[k] # NoAssignment,
                        asg'[kbOwner'[k]].parked
                 PROVE  \E r \in Sessions : kb[r] = k /\ pc'[r] = "blocked"
                                               /\ at'[r] = kbOwner'[k]
      BY <1>1 DEF StepsAside
    <3>1. k # k0 /\ kbOwner'[k] = kbOwner[k]
      BY <2>4
    <3>2. asg'[kbOwner[k]] = asg[kbOwner[k]]
      BY <2>4, <2>5, <3>1 DEF Taken
    <3>3. PICK r \in Sessions : kb[r] = k /\ pc[r] = "blocked" /\ at[r] = kbOwner[k]
      BY <3>1, <3>2 DEF IInv, Handed, StepsAside
    <3>4. r # s
      BY <1>1, <3>3
    <3>5. QED
      BY <2>4, <3>1, <3>3, <3>4
  <2>10. NoLostRelease'
    <3> SUFFICES ASSUME NEW r \in Sessions, pc'[r] = "blocked"
                 PROVE  \/ InTable(at[r])' \/ asg'[at'[r]].done
                        \/ \E q \in Sessions : pc'[q] \in {"unsteal", "release"}
                                                /\ at'[q] = at'[r]
      BY DEF NoLostRelease
    <3>1. r # s /\ pc[r] = "blocked" /\ at'[r] = at[r]
      BY <2>4
    <3>2. at[r] \in Assignments \ {a}
      BY <2>3, <3>1 DEF IInv, TypeOK
    <3>3. CASE InTable(at[r])
      <4>1. PICK k \in Keyboards : kbOwner[k] = at[r]
        BY <3>3 DEF InTable
      <4>2. k # k0
        BY <2>2, <3>2, <4>1, KBAssumption DEF Taken
      <4>3. kbOwner'[k] = at'[r]
        BY <2>4, <3>1, <4>1, <4>2
      <4>4. QED
        BY <4>3 DEF InTable
    <3>4. CASE asg[at[r]].done
      BY <2>4, <3>1, <3>2, <3>4
    <3>5. CASE \E q \in Sessions : pc[q] \in {"unsteal", "release"} /\ at[q] = at[r]
      BY <1>1, <2>4, <3>1, <3>5
    <3>6. QED
      BY <3>1, <3>3, <3>4, <3>5 DEF IInv, Handed, NoLostRelease
  <2>11. OwnedByOpen'
    BY <1>1, <2>4, <2>5 DEF IInv, Handed, OwnedByOpen, Taken, Closing, Ended
  <2>12. QED
    BY <2>6, <2>7, <2>8, <2>9, <2>10, <2>11 DEF Handed
<1>4. QED
  BY <1>2, <1>3

(* Giving one back, first half: out of the table, the closer keeps it. *)
LEMMA CloseFileHanded ==
  ASSUME IInv, NEW s \in Sessions, NEW next \in {"program", "top", "bye", "unregister"},
         pc[s] \in {"program", "line"}, CloseFile(s, next)
  PROVE  Handed'
<1> DEFINE p == file[s]
           a == IF p = NoSession THEN NoAssignment ELSE kbOwner[kb[p]]
<1>1. UNCHANGED <<asg, kb>>
  BY DEF CloseFile, lines
<1>2. CASE a # NoAssignment /\ asg[a].owner = kb[s]
  <2>1. p \in Sessions /\ kb[p] \in Keyboards /\ kbOwner[kb[p]] = a
        /\ Taken(kb[p])
    BY <1>2 DEF IInv, TypeOK, SomeSession, Taken
  <2>2. /\ kbOwner' = [kbOwner EXCEPT ![kb[p]] = NoAssignment]
        /\ at'[s] = a /\ pc'[s] = "unsteal" /\ ret'[s] = next
        /\ \A r \in Sessions \ {s} : /\ at'[r] = at[r] /\ pc'[r] = pc[r]
                                      /\ ret'[r] = ret[r]
    BY <1>2 DEF CloseFile, Goto, IInv, TypeOK
  <2>3. \A k \in Keyboards : Taken(k)' => kbOwner'[k] = kbOwner[k] /\ Taken(k)
    BY <2>1, <2>2 DEF IInv, TypeOK, Taken
  <2>4. \A k \in Keyboards : kbOwner'[k] # a
    BY <1>2, <2>1, <2>2, OneKeyboard DEF IInv, Handed, TypeOK
  <2>5. \A b : InTable(b)' => (InTable(b) /\ b # a) \/ b = NoAssignment
    BY <2>3, <2>4 DEF InTable, Taken
  <2>6. \A b : InTable(b) => InTable(b)' \/ b = a
    BY <2>1, <2>2 DEF InTable, IInv, TypeOK
  <2>7. Named' /\ NotReleased'
    BY <1>1, <2>3 DEF IInv, Handed, Named, NotReleased, Taken
  <2>8. OutOfTable' /\ Returning'
    <3>1. \A r \in Sessions : pc[r] \in {"unsteal", "release"} => at[r] # NoAssignment
      BY DEF IInv, TypeOK
    <3>2. QED
      BY <1>2, <2>2, <2>5, <3>1 DEF IInv, Handed, OutOfTable, Returning, Closing, Ended
  <2>9. StepsAside'
    BY <1>1, <2>2, <2>3 DEF IInv, Handed, StepsAside, Taken
  <2>10. NoLostRelease'
    BY <1>1, <2>2, <2>6 DEF IInv, Handed, NoLostRelease
  <2>11. OwnedByOpen'
    BY <1>1, <2>2, <2>3 DEF IInv, Handed, OwnedByOpen, Taken, Closing, Ended
  <2>12. QED
    BY <2>7, <2>8, <2>9, <2>10, <2>11 DEF Handed
<1>3. CASE ~(a # NoAssignment /\ asg[a].owner = kb[s])
  <2>1. UNCHANGED <<kbOwner, at, ret>> /\ pc'[s] = next
        /\ \A r \in Sessions \ {s} : pc'[r] = pc[r]
    BY <1>3 DEF CloseFile, Goto, IInv, TypeOK
  <2>2. QED
    BY <1>1, <2>1, QuietStep DEF Holding, Closing, Ended
<1>4. QED
  BY <1>2, <1>3

(* Second half: it is still out of the table when its channel is closed. *)
LEMMA UnstealHanded ==
  ASSUME IInv, NEW s \in Sessions, Unsteal(s)
  PROVE  Handed'
<1>1. /\ UNCHANGED <<kbOwner, asg, kb, at, ret>>
      /\ pc[s] = "unsteal" /\ pc'[s] = "release"
      /\ \A r \in Sessions \ {s} : pc'[r] = pc[r]
  BY DEF Unsteal, Goto, table, IInv, TypeOK
<1>2. \A a : InTable(a)' <=> InTable(a)
  BY <1>1 DEF InTable
<1>3. Named' /\ NotReleased' /\ OutOfTable' /\ Returning'
  BY <1>1, <1>2 DEF IInv, Handed, Named, NotReleased, OutOfTable, Returning, Taken
<1>4. StepsAside'
  BY <1>1 DEF IInv, Handed, StepsAside
<1>5. NoLostRelease'
  BY <1>1, <1>2 DEF IInv, Handed, NoLostRelease
<1>6. OwnedByOpen'
  BY <1>1 DEF IInv, Handed, OwnedByOpen, Taken, Closing, Ended
<1>7. QED
  BY <1>3, <1>4, <1>5, <1>6 DEF Handed

LEMMA ReleaseHanded ==
  ASSUME IInv, NEW s \in Sessions, Release(s)
  PROVE  Handed'
<1> DEFINE a == at[s]
<1>1. /\ UNCHANGED <<kbOwner, kb>>
      /\ pc[s] = "release" /\ a \in Assignments /\ ~InTable(a)
  BY DEF Release, lines, IInv, TypeOK, Handed, OutOfTable
<1>2. pc'[s] = ret[s] /\ pc'[s] \notin Holding
      /\ pc'[s] \notin Closing
      /\ \A r \in Sessions \ {s} : /\ pc'[r] = pc[r] /\ at'[r] = at[r]
                                    /\ ret'[r] = ret[r]
  BY DEF Release, Return, Goto, IInv, TypeOK, Holding, Handed, Returning
<1>3. /\ asg'[a].done = TRUE
      /\ \A b \in Assignments \ {a} : asg'[b] = asg[b]
      /\ asg'[a].owner = asg[a].owner /\ asg'[a].peer = asg[a].peer
  BY <1>1 DEF Release, IInv, TypeOK, Assignment
<1>4. \A k \in Keyboards : Taken(k) => asg'[kbOwner[k]] = asg[kbOwner[k]]
  BY <1>1, <1>3 DEF IInv, TypeOK, Taken, InTable
<1>5. \A b : InTable(b)' <=> InTable(b)
  BY <1>1 DEF InTable
<1>6. Named' /\ NotReleased'
  BY <1>1, <1>4 DEF IInv, Handed, Named, NotReleased, Taken
<1>7. OutOfTable' /\ Returning'
  BY <1>2, <1>5 DEF IInv, Handed, OutOfTable, Returning, Holding
<1>8. StepsAside'
  BY <1>1, <1>2, <1>4 DEF IInv, Handed, StepsAside, Taken
<1>9. NoLostRelease'
  <2>1. \A r \in Sessions : pc[r] = "blocked" => at[r] \in Assignments
    BY DEF IInv, TypeOK
  <2>2. \A b \in Assignments : asg[b].done => asg'[b].done
    BY <1>3
  <2>3. QED
    BY <1>1, <1>2, <1>3, <1>5, <2>1, <2>2 DEF IInv, Handed, NoLostRelease, Holding
<1>10. OwnedByOpen'
  BY <1>1, <1>2, <1>4 DEF IInv, Handed, OwnedByOpen, Taken, Closing, Ended
<1>11. QED
  BY <1>6, <1>7, <1>8, <1>9, <1>10 DEF Handed

(* The end of a job: all of its assignments at once. *)
LEMMA ReleaseForJobHanded ==
  ASSUME IInv, NEW s \in Sessions, NEW next \in {"unshell", "gone"},
         pc[s] \in {"unregister", "detach"}, ReleaseKBForJob(s, next)
  PROVE  Handed'
<1> DEFINE gone == {k \in Keyboards : kbOwner[k] # NoAssignment
                                        /\ OfJob(kbOwner[k], s)}
           let(a) == \E k \in gone : kbOwner[k] = a
<1>1. /\ kb' = kb /\ at' = at /\ pc'[s] = "unstealAll"
      /\ \A r \in Sessions \ {s} : pc'[r] = pc[r] /\ ret'[r] = ret[r]
  BY DEF ReleaseKBForJob, Goto, lines, IInv, TypeOK
<1>2. \A k \in Keyboards :
        /\ k \in gone => kbOwner'[k] = NoAssignment
        /\ k \notin gone => kbOwner'[k] = kbOwner[k]
  BY DEF ReleaseKBForJob
<1>3. \A a \in Assignments :
        /\ let(a) => asg'[a] = [asg[a] EXCEPT !.done = TRUE]
        /\ ~let(a) => asg'[a] = asg[a]
  BY DEF ReleaseKBForJob
<1>4. \A a \in Assignments : asg[a].done \/ let(a) => asg'[a].done
  <2>1. \A a \in Assignments : [asg[a] EXCEPT !.done = TRUE].done = TRUE
    BY DEF IInv, TypeOK, Assignment
  <2>2. QED
    BY <1>3, <2>1
<1>5. \A k \in Keyboards : Taken(k)' =>
        /\ k \notin gone /\ kbOwner'[k] = kbOwner[k] /\ Taken(k)
        /\ kbOwner[k] \in Assignments
  BY <1>2 DEF Taken, IInv, TypeOK
<1>6. \A k \in Keyboards : Taken(k)' => asg'[kbOwner[k]] = asg[kbOwner[k]]
  <2> SUFFICES ASSUME NEW k \in Keyboards, Taken(k)'
               PROVE  asg'[kbOwner[k]] = asg[kbOwner[k]]
    OBVIOUS
  <2>1. ~let(kbOwner[k])
    <3> SUFFICES ASSUME NEW l \in gone, kbOwner[l] = kbOwner[k] PROVE FALSE
      OBVIOUS
    <3>1. l = k
      BY <1>5, OneKeyboard DEF IInv, Handed, Taken
    <3>2. QED
      BY <1>5, <3>1
  <2>2. QED
    BY <1>3, <1>5, <2>1
<1>7. \A a \in Assignments : InTable(a) => InTable(a)' \/ let(a)
  <2> SUFFICES ASSUME NEW a \in Assignments, InTable(a)
               PROVE  InTable(a)' \/ let(a)
    OBVIOUS
  <2>1. PICK k \in Keyboards : kbOwner[k] = a
    BY DEF InTable
  <2>2. CASE k \in gone
    BY <2>1, <2>2
  <2>3. CASE k \notin gone
    BY <1>2, <2>1, <2>3 DEF InTable
  <2>4. QED
    BY <2>2, <2>3
<1>8. \A a \in Assignments : InTable(a)' => InTable(a)
  BY <1>2, KBAssumption DEF InTable
<1>9. Named' /\ NotReleased'
  BY <1>1, <1>5, <1>6 DEF IInv, Handed, Named, NotReleased, Taken
<1>10. OutOfTable' /\ Returning'
  <2>1. \A r \in Sessions : pc'[r] \in {"unsteal", "release"} =>
          r # s /\ pc[r] = pc'[r] /\ at[r] \in Assignments
    BY <1>1 DEF IInv, TypeOK
  <2>2. QED
    BY <1>1, <1>8, <2>1 DEF IInv, Handed, OutOfTable, Returning
<1>11. StepsAside'
  <2> SUFFICES ASSUME NEW k \in Keyboards, kbOwner'[k] # NoAssignment,
                      asg'[kbOwner'[k]].parked
               PROVE  \E r \in Sessions : kb[r] = k /\ pc'[r] = "blocked"
                                             /\ at[r] = kbOwner'[k]
    BY <1>1 DEF StepsAside
  <2>1. Taken(k)'
    BY DEF Taken
  <2>2. Taken(k) /\ kbOwner'[k] = kbOwner[k] /\ asg[kbOwner[k]].parked
    BY <1>5, <1>6, <2>1
  <2>3. PICK r \in Sessions : kb[r] = k /\ pc[r] = "blocked" /\ at[r] = kbOwner[k]
    BY <2>2 DEF IInv, Handed, StepsAside, Taken
  <2>4. QED
    BY <1>1, <2>2, <2>3
<1>12. NoLostRelease'
  <2> SUFFICES ASSUME NEW r \in Sessions, pc'[r] = "blocked"
               PROVE  \/ InTable(at[r])' \/ asg'[at[r]].done
                      \/ \E q \in Sessions : pc'[q] \in {"unsteal", "release"}
                                              /\ at[q] = at[r]
    BY <1>1 DEF NoLostRelease
  <2>1. pc[r] = "blocked" /\ at[r] \in Assignments
    BY <1>1 DEF IInv, TypeOK
  <2>2. CASE InTable(at[r])
    <3>1. CASE let(at[r])
      BY <1>4, <2>1, <3>1
    <3>2. CASE ~let(at[r])
      <4>1. PICK k \in Keyboards : kbOwner'[k] = at[r]
        BY <1>7, <2>1, <2>2, <3>2 DEF InTable
      <4>2. QED
        BY <1>1, <4>1 DEF InTable
    <3>3. QED
      BY <3>1, <3>2
  <2>3. CASE asg[at[r]].done
    BY <1>4, <2>1, <2>3
  <2>4. CASE \E q \in Sessions : pc[q] \in {"unsteal", "release"} /\ at[q] = at[r]
    BY <1>1, <2>4
  <2>5. QED
    BY <2>1, <2>2, <2>3, <2>4 DEF IInv, Handed, NoLostRelease
<1>13. OwnedByOpen'
  <2> SUFFICES ASSUME NEW k \in Keyboards, Taken(k)'
               PROVE  \E r \in Sessions : kb[r] = asg[kbOwner[k]].owner
                                             /\ pc'[r] \notin Closing
    BY <1>1, <1>5, <1>6 DEF OwnedByOpen
  <2>1. k \notin gone /\ Taken(k)
    BY <1>5
  <2>2. PICK r \in Sessions : kb[r] = asg[kbOwner[k]].owner /\ pc[r] \notin Closing
    BY <2>1 DEF IInv, Handed, OwnedByOpen
  <2>3. r # s
    BY <2>1, <2>2 DEF Taken, OfJob
  <2>4. QED
    BY <1>1, <2>2, <2>3
<1>14. QED
  BY <1>9, <1>10, <1>11, <1>12, <1>13 DEF Handed

LEMMA StepHanded ==
  ASSUME IInv, NEW s \in Sessions, Decide(s) \/ Proceed(s)
  PROVE  Handed'
<1> USE DEF table, lines, locals
<1>1. ASSUME NEW k \in Keyboards, Connect(s, k) PROVE Handed'
  BY <1>1, ConnectHanded
<1>2. ASSUME UNCHANGED <<kbOwner, asg, kb, at, ret>>, NEW here \in PC, NEW place \in PC,
             pc[s] = here, Goto(s, place),
             here \notin Holding, place \notin Holding,
             here \in Closing \/ place \notin Closing
      PROVE  Handed'
  <2>1. pc'[s] = place /\ \A r \in Sessions \ {s} : pc'[r] = pc[r]
    BY <1>2 DEF Goto, IInv, TypeOK
  <2>2. QED
    BY <1>2, <2>1, QuietStep
<1>3. CASE ReadLine(s) \/ Hello(s) \/ RunProgram(s) \/ OtherLine(s) \/ StopProgram(s)
           \/ Password(s) \/ ReadForced(s) \/ WaitIfAssigned(s)
           \/ Login(s) \/ LogOut(s) \/ \E k \in Keyboards : Open(s, k)
  <2> DEFINE Places == {"line", "password", "program", "top", "login", "forced",
                        "wait", "read", "bye", "found"}
  <2>1. Places \subseteq PC \ (Holding \cup Closing)
    BY DEF PC, Turn, Taking, Holding, Closing, Ended
  <2>2. PICK place \in Places :
          /\ pc[s] \in Places /\ Goto(s, place)
          /\ UNCHANGED <<kbOwner, asg, kb, at, ret>>
    BY <1>3 DEF ReadLine, Hello, RunProgram, OtherLine, StopProgram, Password,
                ReadForced, WaitIfAssigned, Login, LogOut, Open
  <2>3. QED
    BY <1>2, <2>1, <2>2
<1>4. CASE Close(s) \/ EndProgram(s) \/ Bye(s) \/ EndOfFile(s)
  BY <1>4, CloseFileHanded DEF Close, EndProgram, Bye, EndOfFile
<1>5. CASE WaitKBReleased(s)
  BY <1>5, WaitHanded
<1>6. CASE Wake(s)
  BY <1>6, WakeHanded
<1>7. CASE TakeKB(s)
  BY <1>7, TakeHanded
<1>8. CASE Steal(s)
  <2>1. pc[s] = "steal"
    BY <1>8 DEF Steal
  <2>2. CASE kb[peer[s]] \in Telnet
    <3>1. Goto(s, "await") /\ UNCHANGED <<kbOwner, asg, kb, at, ret>>
      BY <1>8, <2>2 DEF Steal
    <3>2. {"steal", "await"} \subseteq PC \ (Holding \cup Closing)
      BY DEF PC, Taking, Holding, Closing, Ended
    <3>3. QED
      BY <1>2, <2>1, <3>1, <3>2
  <2>3. CASE kb[peer[s]] \notin Telnet
    BY <1>8, <2>1, <2>3, SetFileHanded DEF Steal
  <2>4. QED
    BY <2>2, <2>3
<1>9. CASE Await(s) \/ Timeout(s)
  BY <1>9, SetFileHanded DEF Await, Timeout
<1>10. CASE Unsteal(s)
  BY <1>10, UnstealHanded
<1>11. CASE Release(s)
  BY <1>11, ReleaseHanded
<1>12. CASE Unregister(s) \/ Detach(s)
  BY <1>12, ReleaseForJobHanded DEF Unregister, Detach
<1>13. CASE UnstealOne(s)
  <2>1. pc[s] = "unstealAll" /\ pc' = pc /\ UNCHANGED <<kbOwner, asg, kb, at, ret>>
    BY <1>13 DEF UnstealOne
  <2>2. QED
    BY <2>1, QuietStep DEF Holding, Closing
<1>14. CASE UnstealNone(s)
  <2>1. /\ pc[s] = "unstealAll" /\ UNCHANGED <<kbOwner, asg, kb, at>>
        /\ pc'[s] = ret[s] /\ ret[s] \notin Holding
        /\ \A r \in Sessions \ {s} : pc'[r] = pc[r] /\ ret'[r] = ret[r]
    BY <1>14 DEF UnstealNone, Return, Goto, IInv, TypeOK, Holding
  <2>2. QED
    BY <2>1, QuietStep DEF Closing, Holding
<1>15. CASE DeleteShell(s) \/ DeleteJob(s)
  <2>1. {"unshell", "detach", "gone", "none"} \subseteq (PC \cap Closing) \ Holding
    BY DEF PC, Closing, Ended, Holding
  <2>2. PICK place \in {"detach", "none"} :
          /\ pc[s] \in {"unshell", "gone"} /\ Goto(s, place)
          /\ UNCHANGED <<kbOwner, asg, kb, at, ret>>
    BY <1>15 DEF DeleteShell, DeleteJob
  <2>3. QED
    BY <1>2, <2>1, <2>2
<1>16. QED
  BY <1>1, <1>3, <1>4, <1>5, <1>6, <1>7, <1>8, <1>9, <1>10, <1>11, <1>12,
     <1>13, <1>14, <1>15 DEF Decide, Proceed

LEMMA Inductive == Spec => []IInv
<1>1. Init => IInv
  BY InitTyped, InitHanded DEF IInv
<1>2. IInv /\ [Next]_vars => IInv'
  <2>1. IInv /\ Next => IInv'
    BY StepTyped, StepHanded DEF IInv, Next
  <2>2. IInv /\ UNCHANGED vars => IInv'
    BY DEF vars, IInv, TypeOK, Handed, Named, NotReleased, OutOfTable, Returning,
           StepsAside, NoLostRelease, OwnedByOpen, Taken, InTable
  <2>3. QED
    BY <2>1, <2>2
<1>3. QED
  BY <1>1, <1>2, PTL DEF Spec

(* A session that has stepped aside stays aside until the assignment it    *)
(* stepped aside for is out of the table (waitKBReleased against takeKB,   *)
(* dropKB and releaseKBForJob).                                            *)
THEOREM HandedOver == Spec => []StepsAside
<1>1. IInv => StepsAside
  BY DEF IInv, Handed
<1>2. QED
  BY <1>1, Inductive, PTL

(* No session waits for an assignment that was removed and not released.   *)
THEOREM EveryWaitEnds == Spec => []NoLostRelease
<1>1. IInv => NoLostRelease
  BY DEF IInv, Handed
<1>2. QED
  BY <1>1, Inductive, PTL

(* No assignment outlives the job that made it, on any number of           *)
(* keyboards: whatever channels a program overwrote, releaseKBForJob finds *)
(* what it left.                                                           *)
THEOREM NothingLeftTaken == Spec => []OwnedByLive
<1>1. IInv => OwnedByLive
  BY DEF IInv, Handed, OwnedByOpen, OwnedByLive, Closing, Taken
<1>2. QED
  BY <1>1, Inductive, PTL

=============================================================================
