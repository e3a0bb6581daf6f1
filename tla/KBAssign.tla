------------------------------ MODULE KBAssign ------------------------------
(***************************************************************************)
(* A keyboard taken by another job.  OPEN "KBn:" finds the session on that *)
(* line, enters an assignment for it and, when the line is a Telnet line,  *)
(* waits up to two seconds for the session to step aside; the session      *)
(* looks for an assignment before and after it reads a line and waits      *)
(* until the assignment is given back by CLOSE or by the end of either     *)
(* job.  system.go takeKB to releaseKBForJob, chardev.go, and the turn of  *)
(* shell.go.                                                               *)
(*                                                                         *)
(* A session keeps one keyboard here (ATTACH is in module Jobs) and its    *)
(* job number is that of its keyboard.  sys.mu is held for one critical    *)
(* section at a time; each action is one.                                  *)
(***************************************************************************)
EXTENDS Naturals, FiniteSets

CONSTANTS
  Keyboards,    \* KB0:, KB1:, ...
  Telnet,       \* those whose terminal can be taken from its reader
  Users,        \* those whose callers have an account to log in to
  Privileged,   \* those of them whose account is privileged
  Sessions,     \* *Shell values, a bound on those in use at once
  Assignments,  \* *kbAssign values, a bound in the same way
  NoSession, NoAssignment

ASSUME KBAssumption ==
  /\ Telnet \subseteq Keyboards
  /\ Privileged \subseteq Users /\ Users \subseteq Keyboards
  /\ NoSession \notin Sessions
  /\ NoAssignment \notin Assignments

(* Where a session stands: in its turn, running a program, taking or      *)
(* giving back a keyboard, or being cleaned up.                           *)
Turn == {"top", "wait", "blocked", "read", "line", "forced", "password",
         "login", "program", "bye"}
Taking == {"found", "steal", "await"}
Ended == {"none", "unshell", "detach", "gone"}
PC == Turn \cup Taking \cup Ended \cup
      {"unsteal", "release", "unregister", "unstealAll"}

VARIABLES
  shells,   \* sys.shells by keyboard
  kbOwner,  \* sys.kbOwner, the assignment of each keyboard
  asg,      \* the fields of each kbAssign
  pc,       \* where each session stands
  kb,       \* the keyboard of each session
  loggedIn, \* sessions with an account
  stolen,   \* sessions whose connection has been taken from its reader
  file,     \* the session whose keyboard is open on the program's channel
  peer,     \* local of takeKB and dropKB
  at,       \* the assignment a session enters, gives back or waits for
  peers,    \* local of releaseKBForJob
  ret       \* where a session goes on after giving keyboards back

vars == <<shells, kbOwner, asg, pc, kb, loggedIn, stolen, file, peer, at,
          peers, ret>>

(* owner is the job number, that of a keyboard. *)
Assignment == [owner : Keyboards, peer : Sessions, done : BOOLEAN,
               parked : BOOLEAN]
SomeSession == Sessions \cup {NoSession}

TypeOK ==
  /\ shells \in [Keyboards -> SomeSession]
  /\ kbOwner \in [Keyboards -> Assignments \cup {NoAssignment}]
  /\ asg \in [Assignments -> Assignment]
  /\ pc \in [Sessions -> PC]
  /\ kb \in [Sessions -> Keyboards]
  /\ loggedIn \subseteq Sessions
  /\ stolen \subseteq Sessions
  /\ file \in [Sessions -> SomeSession]
  /\ peer \in [Sessions -> SomeSession]
  /\ at \in [Sessions -> Assignments \cup {NoAssignment}]
  /\ peers \in [Sessions -> SUBSET Sessions]
  /\ ret \in [Sessions -> {"program", "top", "bye", "unregister", "unshell", "gone"}]
  /\ \A s \in Sessions :
       /\ pc[s] \in Taking \cup {"unsteal"} => peer[s] # NoSession
       /\ pc[s] \in {"blocked", "steal", "await", "unsteal", "release"}
            => at[s] # NoAssignment

Init ==
  /\ shells = [k \in Keyboards |-> NoSession]
  /\ kbOwner = [k \in Keyboards |-> NoAssignment]
  /\ \E k \in Keyboards, s \in Sessions :
       asg = [a \in Assignments |->
                [owner |-> k, peer |-> s, done |-> FALSE, parked |-> FALSE]]
  /\ pc = [s \in Sessions |-> "none"]
  /\ \E k \in Keyboards : kb = [s \in Sessions |-> k]
  /\ loggedIn = {}
  /\ stolen = {}
  /\ file = [s \in Sessions |-> NoSession]
  /\ peer = [s \in Sessions |-> NoSession]
  /\ at = [s \in Sessions |-> NoAssignment]
  /\ peers = [s \in Sessions |-> {}]
  /\ ret = [s \in Sessions |-> "top"]

-----------------------------------------------------------------------------
Goto(s, place) == pc' = [pc EXCEPT ![s] = place]
table == <<shells, kbOwner, asg>>
locals == <<file, peer, at, peers, ret>>
lines == <<kb, loggedIn, stolen>>

InTable(a) == \E k \in Keyboards : kbOwner[k] = a

(* New values: nothing in the program refers to them. *)
FreshSession(s) ==
  /\ pc[s] = "none"
  /\ \A r \in Sessions \ {s} : s \notin {file[r], peer[r]} \cup peers[r]
  /\ \A a \in Assignments : InTable(a) => asg[a].peer # s
FreshAssignment(a) == ~InTable(a) /\ \A s \in Sessions : at[s] # a

(* Somebody is logged in at the keyboard of this session, or at the one   *)
(* that has its job number now.                                           *)
AtReady(s) == \E r \in loggedIn : r = s \/ (pc[r] # "none" /\ kb[r] = kb[s])

-----------------------------------------------------------------------------
(* The session's turn.                                                     *)

Connect(s, k) ==
  /\ FreshSession(s)
  /\ \A r \in Sessions : pc[r] # "none" => kb[r] # k
  /\ shells' = [shells EXCEPT ![k] = s]
  /\ kb' = [kb EXCEPT ![s] = k]
  /\ loggedIn' = loggedIn \ {s}
  /\ stolen' = stolen \ {s}
  /\ Goto(s, "top")
  /\ UNCHANGED <<kbOwner, asg, locals>>

(* Mutant: the session says that it has stepped aside at its first look.  *)
ParkFirst(s) ==
  /\ pc[s] \in {"top", "line", "forced"}
  /\ LET a == kbOwner[kb[s]] IN
       IF a # NoAssignment
       THEN Goto(s, "wait") /\ asg' = [asg EXCEPT ![a].parked = TRUE]
       ELSE /\ pc[s] # "line"
            /\ Goto(s, IF pc[s] = "top" THEN "read" ELSE "top")
            /\ UNCHANGED asg
  /\ UNCHANGED <<shells, kbOwner, lines, locals>>

(* waitIfAssigned, before the prompt and again when the read is over: the *)
(* line is dropped when the keyboard has been taken.                      *)
WaitIfAssigned(s) ==
  /\ \/ /\ pc[s] \in {"top", "line", "forced"}
        /\ kbOwner[kb[s]] # NoAssignment
        /\ Goto(s, "wait")
     \/ /\ pc[s] \in {"top", "forced"}
        /\ kbOwner[kb[s]] = NoAssignment
        /\ Goto(s, IF pc[s] = "top" THEN "read" ELSE "top")
  /\ UNCHANGED <<table, lines, locals>>

(* Mutant: no second look at the table. *)
WaitBlindly(s) ==
  /\ pc[s] = "wait"
  /\ LET a == kbOwner[kb[s]] IN
       /\ asg' = [asg EXCEPT ![a].parked = TRUE]
       /\ at' = [at EXCEPT ![s] = a]
       /\ Goto(s, "blocked")
  /\ UNCHANGED <<shells, kbOwner, lines, file, peer, peers, ret>>

(* waitKBReleased: step aside for whichever assignment is in the table    *)
(* now, and look again when it has been given back.                       *)
WaitKBReleased(s) ==
  /\ pc[s] = "wait"
  /\ LET a == kbOwner[kb[s]] IN
       IF a = NoAssignment
       THEN Goto(s, "top") /\ UNCHANGED <<asg, at>>
       ELSE /\ asg' = [asg EXCEPT ![a].parked = TRUE]
            /\ at' = [at EXCEPT ![s] = a]
            /\ Goto(s, "blocked")
  /\ UNCHANGED <<shells, kbOwner, lines, file, peer, peers, ret>>

Wake(s) ==
  /\ pc[s] = "blocked"
  /\ asg[at[s]].done
  /\ at' = [at EXCEPT ![s] = NoAssignment]
  /\ Goto(s, "wait")
  /\ UNCHANGED <<table, lines, file, peer, peers, ret>>

(* A line typed by the user, or the read forced back when the Telnet line *)
(* has been taken.                                                        *)
ReadLine(s) ==
  /\ pc[s] = "read" /\ s \notin stolen
  /\ Goto(s, "line")
  /\ UNCHANGED <<table, lines, locals>>

ReadForced(s) ==
  /\ pc[s] = "read" /\ s \in stolen
  /\ Goto(s, "forced")
  /\ UNCHANGED <<table, lines, locals>>

(* A line that is not dropped: HELLO, RUN, or anything of no concern here. *)
Hello(s) ==
  /\ pc[s] = "line" /\ s \notin loggedIn
  /\ kbOwner[kb[s]] = NoAssignment
  /\ Goto(s, "password")
  /\ UNCHANGED <<table, lines, locals>>

RunProgram(s) ==
  /\ pc[s] = "line" /\ s \in loggedIn
  /\ kbOwner[kb[s]] = NoAssignment
  /\ Goto(s, "program")
  /\ UNCHANGED <<table, lines, locals>>

OtherLine(s) ==
  /\ pc[s] = "line"
  /\ kbOwner[kb[s]] = NoAssignment
  /\ Goto(s, "top")
  /\ UNCHANGED <<table, lines, locals>>

(* The password is read with no look at the assignment; on a line that    *)
(* has been taken the read fails, and HELLO with it.                      *)
Password(s) ==
  /\ pc[s] = "password"
  /\ \/ Goto(s, "top")
     \/ s \notin stolen /\ kb[s] \in Users /\ Goto(s, "login")
  /\ UNCHANGED <<table, lines, locals>>

Login(s) ==
  /\ pc[s] = "login"
  /\ loggedIn' = loggedIn \cup {s}
  /\ Goto(s, "top")
  /\ UNCHANGED <<table, kb, stolen, locals>>

-----------------------------------------------------------------------------
(* OPEN "KBn:" by a program.                                               *)

(* shellOnKB: the session on that keyboard, not a lock on it. *)
Open(s, k) ==
  /\ pc[s] = "program"
  /\ k # kb[s] /\ shells[k] # NoSession
  /\ peer' = [peer EXCEPT ![s] = shells[k]]
  /\ Goto(s, "found")
  /\ UNCHANGED <<table, lines, file, at, peers, ret>>

(* The critical section of takeKB: refused, or entered in the table. *)
Refused(s) ==
  \/ kbOwner[kb[peer[s]]] # NoAssignment
  \/ AtReady(peer[s]) /\ kb[s] \notin Privileged

TakeKB(s) ==
  /\ pc[s] = "found"
  /\ IF Refused(s)
     THEN /\ Goto(s, "program")
          /\ peer' = [peer EXCEPT ![s] = NoSession]
          /\ UNCHANGED <<kbOwner, asg, at>>
     ELSE \E a \in Assignments :
          /\ FreshAssignment(a)
          /\ asg' = [asg EXCEPT ![a] = [owner |-> kb[s], peer |-> peer[s],
                                        done |-> FALSE, parked |-> FALSE]]
          /\ kbOwner' = [kbOwner EXCEPT ![kb[peer[s]]] = a]
          /\ at' = [at EXCEPT ![s] = a]
          /\ Goto(s, "steal")
          /\ UNCHANGED peer
  /\ UNCHANGED <<shells, lines, file, peers, ret>>

(* Back in openCharDevice: the channel is set, whatever was on it.         *)
SetFile(s) ==
  /\ file' = [file EXCEPT ![s] = peer[s]]
  /\ peer' = [peer EXCEPT ![s] = NoSession]
  /\ at' = [at EXCEPT ![s] = NoAssignment]
  /\ Goto(s, "program")

(* A Telnet line is told and given two seconds; a serial line or the      *)
(* console cannot be told.                                                *)
Steal(s) ==
  /\ pc[s] = "steal"
  /\ IF kb[peer[s]] \in Telnet
     THEN /\ stolen' = stolen \cup {peer[s]}
          /\ Goto(s, "await")
          /\ UNCHANGED <<file, peer, at>>
     ELSE SetFile(s) /\ UNCHANGED stolen
  /\ UNCHANGED <<table, kb, loggedIn, peers, ret>>

Await(s) ==
  /\ pc[s] = "await"
  /\ asg[at[s]].parked
  /\ SetFile(s)
  /\ UNCHANGED <<table, lines, peers, ret>>

Timeout(s) ==
  /\ pc[s] = "await"
  /\ ~asg[at[s]].parked
  /\ SetFile(s)
  /\ UNCHANGED <<table, lines, peers, ret>>

-----------------------------------------------------------------------------
(* CLOSE, and CloseAllFiles at the end of a program, of the log-in or of  *)
(* the session: dropKB looks the keyboard up again and removes whichever   *)
(* assignment of this job is there.                                       *)
CloseFile(s, next) ==
  LET p == file[s]
      a == IF p = NoSession THEN NoAssignment ELSE kbOwner[kb[p]] IN
    /\ file' = [file EXCEPT ![s] = NoSession]
    /\ IF a # NoAssignment /\ asg[a].owner = kb[s]
       THEN
          /\ kbOwner' = [kbOwner EXCEPT ![kb[p]] = NoAssignment]
          /\ peer' = [peer EXCEPT ![s] = asg[a].peer]
          /\ at' = [at EXCEPT ![s] = a]
          /\ ret' = [ret EXCEPT ![s] = next]
          /\ Goto(s, "unsteal")
       ELSE
          /\ Goto(s, next)
          /\ UNCHANGED <<kbOwner, peer, at, ret>>
    /\ UNCHANGED <<shells, asg, lines, peers>>

Close(s) == pc[s] = "program" /\ file[s] # NoSession /\ CloseFile(s, "program")
EndProgram(s) == pc[s] = "program" /\ CloseFile(s, "top")

(* STOP, ^C and a command typed without a line number leave the channel. *)
StopProgram(s) ==
  /\ pc[s] = "program"
  /\ Goto(s, "top")
  /\ UNCHANGED <<table, lines, locals>>

Bye(s) ==
  /\ pc[s] = "line" /\ s \in loggedIn
  /\ kbOwner[kb[s]] = NoAssignment
  /\ CloseFile(s, "bye")

LogOut(s) ==
  /\ pc[s] = "bye"
  /\ loggedIn' = loggedIn \ {s}
  /\ Goto(s, "top")
  /\ UNCHANGED <<table, kb, stolen, locals>>

(* End of file at the prompt, or BYE at Bye. *)
EndOfFile(s) ==
  /\ pc[s] = "line"
  /\ kbOwner[kb[s]] = NoAssignment
  /\ CloseFile(s, "unregister")

Return(s) == Goto(s, ret[s]) /\ ret' = [ret EXCEPT ![s] = "top"]

Unsteal(s) ==
  /\ pc[s] = "unsteal"
  /\ stolen' = stolen \ {peer[s]}
  /\ peer' = [peer EXCEPT ![s] = NoSession]
  /\ Goto(s, "release")
  /\ UNCHANGED <<table, kb, loggedIn, file, at, peers, ret>>

(* Mutant: a line that was never told is not released either. *)
ReleaseTelnet(s) ==
  /\ pc[s] = "release"
  /\ asg' = [asg EXCEPT ![at[s]].done = kb[asg[at[s]].peer] \in Telnet]
  /\ at' = [at EXCEPT ![s] = NoAssignment]
  /\ Return(s)
  /\ UNCHANGED <<shells, kbOwner, lines, file, peer, peers>>

Release(s) ==
  /\ pc[s] = "release"
  /\ asg' = [asg EXCEPT ![at[s]].done = TRUE]
  /\ at' = [at EXCEPT ![s] = NoAssignment]
  /\ Return(s)
  /\ UNCHANGED <<shells, kbOwner, lines, file, peer, peers>>

(* Mutant: the keyboards the job has taken are left assigned. *)
PeerOfJob(a, s) == kb[s] = kb[asg[a].peer]

(* releaseKBForJob: every assignment the job made or that was made of its *)
(* keyboard is removed and released under one lock; the lines are given   *)
(* back after it.                                                         *)
OfJob(a, s) == kb[s] \in {asg[a].owner, kb[asg[a].peer]}

ReleaseKBForJob(s, next) ==
  LET gone == {k \in Keyboards : kbOwner[k] # NoAssignment
                                   /\ OfJob(kbOwner[k], s)} IN
    /\ kbOwner' = [k \in Keyboards |-> IF k \in gone THEN NoAssignment
                                       ELSE kbOwner[k]]
    /\ asg' = [a \in Assignments |->
                 IF \E k \in gone : kbOwner[k] = a
                 THEN [asg[a] EXCEPT !.done = TRUE] ELSE asg[a]]
    /\ peers' = [peers EXCEPT ![s] = {asg[kbOwner[k]].peer : k \in gone}]
    /\ ret' = [ret EXCEPT ![s] = next]
    /\ Goto(s, "unstealAll")
    /\ UNCHANGED <<shells, lines, file, peer, at>>

Unregister(s) == pc[s] = "unregister" /\ ReleaseKBForJob(s, "unshell")

UnstealOne(s) ==
  /\ pc[s] = "unstealAll"
  /\ \E p \in peers[s] :
       /\ stolen' = stolen \ {p}
       /\ peers' = [peers EXCEPT ![s] = @ \ {p}]
  /\ UNCHANGED <<table, pc, kb, loggedIn, file, peer, at, ret>>

UnstealNone(s) ==
  /\ pc[s] = "unstealAll" /\ peers[s] = {}
  /\ Return(s)
  /\ UNCHANGED <<table, lines, file, peer, at, peers>>

DeleteShell(s) ==
  /\ pc[s] = "unshell"
  /\ shells' = [shells EXCEPT ![kb[s]] = IF @ = s THEN NoSession ELSE @]
  /\ Goto(s, "detach")
  /\ UNCHANGED <<kbOwner, asg, lines, locals>>

(* Detach releases once more before the job number is free. *)
Detach(s) == pc[s] = "detach" /\ ReleaseKBForJob(s, "gone")

DeleteJob(s) ==
  /\ pc[s] = "gone"
  /\ Goto(s, "none")
  /\ UNCHANGED <<table, lines, locals>>

-----------------------------------------------------------------------------
(* What the user and the program decide, and what goes on by itself. *)
Decide(s) ==
  \/ \E k \in Keyboards : Connect(s, k) \/ Open(s, k)
  \/ ReadLine(s) \/ Hello(s) \/ RunProgram(s) \/ OtherLine(s) \/ Bye(s)
  \/ EndOfFile(s) \/ Password(s)
  \/ Close(s) \/ EndProgram(s) \/ StopProgram(s)

Proceed(s) ==
  \/ WaitIfAssigned(s) \/ WaitKBReleased(s) \/ Wake(s) \/ ReadForced(s)
  \/ Login(s) \/ LogOut(s)
  \/ TakeKB(s) \/ Steal(s) \/ Await(s) \/ Timeout(s)
  \/ Unsteal(s) \/ Release(s) \/ Unregister(s) \/ UnstealOne(s)
  \/ UnstealNone(s) \/ DeleteShell(s) \/ Detach(s) \/ DeleteJob(s)

Next == \E s \in Sessions : Decide(s) \/ Proceed(s)

Spec == Init /\ [][Next]_vars

-----------------------------------------------------------------------------
(* Properties.                                                             *)

(* README.md:549: I/O on that channel until CLOSE, login waits.  Once a    *)
(* session has stepped aside it stays aside until that very assignment is *)
(* out of the table: two jobs never read one keyboard that was handed      *)
(* over.  (A serial line, or a session that has not stepped aside in two   *)
(* seconds, is not handed over.)                                           *)
StepsAside == \A k \in Keyboards :
  LET a == kbOwner[k] IN
    a # NoAssignment /\ asg[a].parked =>
      \E s \in Sessions : kb[s] = k /\ pc[s] = "blocked" /\ at[s] = a

(* A session waits for an assignment that somebody can still give back, or *)
(* is just giving back, or has given back: no release is lost between the *)
(* removal from the table and the close of its channel.                   *)
NoLostRelease == \A s \in Sessions :
  pc[s] = "blocked" =>
    \/ InTable(at[s]) \/ asg[at[s]].done
    \/ \E r \in Sessions : pc[r] \in {"unsteal", "release"} /\ at[r] = at[s]

(* No assignment outlives the job that made it, however that job ends and *)
(* whoever has its job number next: nobody could give it back.            *)
OwnedByLive == \A k \in Keyboards :
  kbOwner[k] # NoAssignment =>
    \E s \in Sessions : kb[s] = asg[kbOwner[k]].owner /\ pc[s] \notin Ended
=============================================================================
