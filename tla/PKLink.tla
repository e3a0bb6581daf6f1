------------------------------- MODULE PKLink -------------------------------
(***************************************************************************)
(* One pseudo-keyboard (pk.go): two byte buffers between the program that   *)
(* opened PKn: (the controller) and the session it forked (the job).       *)
(*                                                                         *)
(* A step is one critical section of the link's mutex, or what a goroutine *)
(* does between two of them.  The job sleeps on the condition variable or, *)
(* under WAIT, on the wake channel; the controller polls the channel with a *)
(* 50 ms timer.  The channel has room for one token and both sides read it. *)
(* A third party, HANGUP, FORCE or SHUTUP, comes at any time.              *)
(***************************************************************************)
EXTENDS Naturals, Sequences, SequencesExt, Selection

CONSTANTS
  Printing,    \* the printing characters
  Keys,        \* what one PUT, PRINT # or FORCE sends: sequences of bytes
  Prints,      \* what one PRINT of the job sends
  LineMax,     \* readEdit's 255
  MaxToJob,    \* bounds on the bytes that wait in the two buffers
  MaxToCtrl

Control == {"NUL", "^C", "^Z", "^U", "DEL", "ESC", "CR", "LF", "TAB"}
Bytes == Control \cup Printing
CtrlC == {"^C"}

ASSUME LinkAssumption ==
  /\ Keys \subseteq Seq(Bytes) /\ Prints \subseteq Seq(Bytes)
  /\ LineMax \in Nat /\ MaxToJob \in Nat /\ MaxToCtrl \in Nat

VARIABLES
  toJob, toCtrl,    \* the two buffers of pkLink
  dead, kicked,     \* its flags
  wake,             \* a token is in the wake channel
  ctrl,             \* the controller: its place, the wait and the record of a
                    \* GET, the channel's eof, whether its own ^C is recorded
  job,              \* the job: its place, the wait of a GET, the locals of
                    \* readEdit, and what the place returns to
  keys, output      \* history: what each side is owed of what the other sent

vars == <<toJob, toCtrl, dead, kicked, wake, ctrl, job, keys, output>>
link == <<toJob, toCtrl, dead, kicked, wake>>
program == [pc |-> "run", timed |-> FALSE, got |-> 0, eof |-> FALSE, intr |-> FALSE]
session == [pc |-> "turn", back |-> "turn", typed |-> 0, esc |-> 0, echoes |-> FALSE,
            echo |-> <<>>, then |-> "edit", running |-> TRUE]

Reading == {"edit", "asleep"}
JobPlaces == Reading \cup {"turn", "run", "echo", "byte", "timed", "leaving", "gone"}
CtrlPlaces == {"run", "line", "lineWait", "byte", "byteWait", "closed"}

CtrlStates == [pc : CtrlPlaces, timed : BOOLEAN, got : 0 .. 1, eof : BOOLEAN, intr : BOOLEAN]
JobStates == [pc : JobPlaces, back : {"turn", "run"}, typed : 0 .. LineMax, esc : 0 .. 3,
              echoes : BOOLEAN, echo : Seq(Bytes),
              then : {"edit", "turn", "run", "leaving"}, running : BOOLEAN]

(* The types of the variables: readEdit's line and its escape counter stay within
   their limits. *)
TypeOK ==
  /\ dead \in BOOLEAN /\ kicked \in BOOLEAN /\ wake \in BOOLEAN
  /\ toJob \in Seq(Bytes) /\ Len(toJob) <= MaxToJob
  /\ toCtrl \in Seq(Bytes) /\ Len(toCtrl) <= MaxToCtrl
  /\ keys \in [text : Seq(Bytes), presses : 0 .. MaxToJob]
  /\ ctrl \in CtrlStates /\ job \in JobStates

\* What is still owed to a reader that has just been given b; a byte out of turn
\* leaves a debt that nothing pays.
Owed(owed, b) ==
  IF IsPrefix(b, owed) THEN SubSeq(owed, Len(b) + 1, Len(owed)) ELSE <<"lost">> \o owed

Typed(s) == Without(s, CtrlC)
Presses(s) == Len(s) - Len(Typed(s))

Init ==
  /\ toJob = <<>> /\ toCtrl = <<>> /\ dead = FALSE /\ kicked = FALSE /\ wake = FALSE
  /\ ctrl = program /\ job = session
  /\ keys = [text |-> <<>>, presses |-> 0]
  /\ output = <<>>

-----------------------------------------------------------------------------
(* The link *)

\* Mutant of Signalled: only the wake channel, which a job without WAIT never reads.
TokenOnly(j) == wake' = TRUE /\ job' = j

\* A token for whoever waits on the channel, and everybody off the condition.
Signalled(j) ==
  /\ wake' = TRUE
  /\ job' = IF j.pc = "asleep" THEN [j EXCEPT !.pc = "edit"] ELSE j

\* Mutant of Hangup: the flag alone.
HangupQuietly == dead' = TRUE /\ UNCHANGED <<toJob, toCtrl, kicked, wake, job, keys, output>>

Hangup ==
  /\ dead' = TRUE
  /\ Signalled(job)
  /\ UNCHANGED <<toJob, toCtrl, kicked, keys, output>>

\* ctrlWriteBytes; PRINT # and FORCE come through ctrlWrite, where a line ends
\* in CR.  A dead link refuses, and the caller goes on with the error.
CtrlWriteBytes(b) ==
  IF dead THEN UNCHANGED <<link, job, keys, output>>
  ELSE /\ Len(toJob) + Len(b) <= MaxToJob
       /\ toJob' = toJob \o b
       /\ keys' = [text |-> keys.text \o Typed(b), presses |-> keys.presses + Presses(b)]
       /\ Signalled(job)
       /\ UNCHANGED <<toCtrl, dead, kicked, output>>

CtrlWrite(b) == CtrlWriteBytes([i \in DOMAIN b |-> IF b[i] = "LF" THEN "CR" ELSE b[i]])

\* Mutant of JobWrite: a dead link still takes what the job prints.
JobWriteDead(b, j) ==
  /\ Len(toCtrl) + Len(b) <= MaxToCtrl
  /\ toCtrl' = toCtrl \o b
  /\ output' = output \o b
  /\ Signalled(j)
  /\ UNCHANGED <<toJob, dead, kicked, keys>>

\* The job's output, with its next state; a dead link takes nothing.
JobWrite(b, j) ==
  IF dead THEN job' = j /\ UNCHANGED <<link, keys, output>>
  ELSE /\ Len(toCtrl) + Len(b) <= MaxToCtrl
       /\ toCtrl' = toCtrl \o b
       /\ output' = output \o b
       /\ Signalled(j)
       /\ UNCHANGED <<toJob, dead, kicked, keys>>

\* pkTerm.Write: a line feed alone gets its carriage return.
Lined(b) ==
  FlattenSeq([i \in DOMAIN b |->
    IF b[i] = "LF" /\ (i = 1 \/ b[i - 1] # "CR") THEN <<"CR", "LF">> ELSE <<b[i]>>])

-----------------------------------------------------------------------------
(* The controller's program *)

Put == /\ ctrl.pc = "run"
       /\ \E b \in Keys : CtrlWriteBytes(b) \/ CtrlWrite(b)
       /\ UNCHANGED ctrl

\* INPUT #, and GET of a record of one or two bytes, which looks for ^C first.
StartLine == /\ ctrl.pc = "run"
             /\ ctrl' = [ctrl EXCEPT !.pc = "line"]
             /\ UNCHANGED <<link, job, keys, output>>

StartGet == /\ ctrl.pc = "run"
            /\ IF ctrl.intr
               THEN ctrl' = [ctrl EXCEPT !.intr = FALSE]
               ELSE \E timed \in BOOLEAN :
                      ctrl' = [ctrl EXCEPT !.pc = "byte", !.timed = timed]
            /\ UNCHANGED <<link, job, keys, output>>

Returned == [program EXCEPT !.eof = ctrl.eof, !.intr = ctrl.intr]
AtEof == [Returned EXCEPT !.eof = TRUE]
Stopped == [Returned EXCEPT !.intr = FALSE]    \* trapped or not, the program goes on or ends

\* Mutant of TakeOutput: the rest of a dead link is returned and not reset.
TakeOutputAgain(n, c) ==
  /\ toCtrl' = IF dead THEN toCtrl ELSE SubSeq(toCtrl, n + 1, Len(toCtrl))
  /\ output' = Owed(output, SubSeq(toCtrl, 1, n))
  /\ ctrl' = c
  /\ UNCHANGED <<toJob, dead, kicked, wake, job, keys>>

TakeOutput(n, c) ==
  /\ toCtrl' = SubSeq(toCtrl, n + 1, Len(toCtrl))
  /\ output' = Owed(output, SubSeq(toCtrl, 1, n))
  /\ ctrl' = c
  /\ UNCHANGED <<toJob, dead, kicked, wake, job, keys>>

LineEnds == {i \in DOMAIN toCtrl : toCtrl[i] = "LF"}

\* Mutant of CtrlReadLine: no look at the controller's own ^C.
CtrlReadLineDeaf ==
  /\ ctrl.pc = "line"
  /\ IF LineEnds # {} THEN TakeOutput(CHOOSE i \in LineEnds : \A k \in LineEnds : i <= k, Returned)
     ELSE IF dead THEN TakeOutput(Len(toCtrl), IF toCtrl = <<>> THEN AtEof ELSE Returned)
     ELSE /\ ctrl' = [ctrl EXCEPT !.pc = "lineWait"]
          /\ UNCHANGED <<link, job, keys, output>>

\* ctrlReadLine, under the mutex: a line, the rest of a dead link, its end, ^C,
\* or one more wait.
CtrlReadLine ==
  /\ ctrl.pc = "line"
  /\ IF LineEnds # {} THEN TakeOutput(CHOOSE i \in LineEnds : \A k \in LineEnds : i <= k, Returned)
     ELSE IF dead THEN TakeOutput(Len(toCtrl), IF toCtrl = <<>> THEN AtEof ELSE Returned)
     ELSE /\ ctrl' = IF ctrl.intr THEN Stopped ELSE [ctrl EXCEPT !.pc = "lineWait"]
          /\ UNCHANGED <<link, job, keys, output>>

\* takeByte for GET, under the mutex.  Under WAIT the time may be over at any look.
CtrlGetByte ==
  /\ ctrl.pc = "byte"
  /\ IF toCtrl # <<>>
     THEN \/ TakeOutput(1, Returned)
          \/ ctrl.got = 0 /\ TakeOutput(1, IF ctrl.intr THEN Stopped
                                           ELSE [ctrl EXCEPT !.got = 1])
     ELSE /\ \/ dead /\ ctrl' = IF ctrl.got = 0 THEN AtEof ELSE Returned
             \/ ~dead /\ ctrl.intr /\ ctrl' = Stopped
             \/ ~dead /\ ~ctrl.intr /\ ctrl.timed /\ ctrl' = Returned
             \/ ~dead /\ ~ctrl.intr /\ ctrl' = [ctrl EXCEPT !.pc = "byteWait"]
          /\ UNCHANGED <<link, job, keys, output>>

\* The wait between two looks: the token, or the timer (of 50 ms, or of WAIT n).
CtrlWakes ==
  /\ ctrl.pc \in {"lineWait", "byteWait"}
  /\ \/ wake /\ wake' = FALSE
     \/ UNCHANGED wake
  /\ ctrl' = [ctrl EXCEPT !.pc = IF @ = "lineWait" THEN "line" ELSE "byte"]
  /\ UNCHANGED <<toJob, toCtrl, dead, kicked, job, keys, output>>

\* channelAtEnd: EOF(n).
AtEnd == /\ ctrl.pc = "run"
         /\ ctrl' = [ctrl EXCEPT !.eof = @ \/ (dead /\ toCtrl = <<>>)]
         /\ UNCHANGED <<link, job, keys, output>>

CloseChanFile == /\ ctrl.pc = "run"
                 /\ ctrl' = [ctrl EXCEPT !.pc = "closed"]
                 /\ Hangup

-----------------------------------------------------------------------------
(* The job's session and its programs *)

\* What a session does of a line, and of each error: a command may run a program
\* or log out; the end of the file ends it; the others bring the next turn.  A
\* program may go on after any of them.
Back(place, result) ==
  IF place = "run" THEN {"run", "turn"}
  ELSE CASE result = "line" -> {"turn", "run", "leaving"}
         [] result = "eof" -> {"leaving"}
         [] OTHER -> {"turn"}

\* A prompt, and readEdit.  readLine prints its prompt itself, whether or not the
\* link takes it, and lets readEdit echo; ReadPassword has readEdit write the
\* prompt and not echo, and there a dead link ends the read at once.
StartRead ==
  /\ job.pc = "run" \/ (job.pc = "turn" /\ job.running)
  /\ \E echoes \in BOOLEAN, prompt \in Prints \cup {<<>>} :
       LET j == [job EXCEPT !.pc = "edit", !.back = job.pc, !.echoes = echoes]
       IN  IF dead /\ prompt # <<>> /\ ~echoes
           THEN \E pc \in Back(job.pc, "eof") :
                  job' = [job EXCEPT !.pc = pc] /\ UNCHANGED <<link, keys, output>>
           ELSE JobWrite(Lined(prompt), j)

\* The line end is echoed; ReadPassword writes one whatever came.
ReadEnds(result) ==
  \E pc \in Back(job.back, result) :
    LET j == [session EXCEPT !.running = job.running]
    IN  job' = IF job.echoes => result = "line"
               THEN [j EXCEPT !.pc = "echo", !.echo = <<"CR", "LF">>, !.then = pc]
               ELSE [j EXCEPT !.pc = pc]

TakeKey == /\ toJob' = Tail(toJob)
           /\ keys' = IF Head(toJob) = "^C" THEN [keys EXCEPT !.presses = @ - 1]
                      ELSE [keys EXCEPT !.text = Owed(@, <<Head(toJob)>>)]
           /\ UNCHANGED <<toCtrl, dead, kicked, wake, ctrl, output>>

\* What one byte does to the line, and what it echoes: the switch of readEdit.
\* A read that echoes has no prompt to write again after ^U: readLine gives the
\* terminal an empty one.
Edit(b) ==
  IF job.esc > 0
  THEN [typed |-> job.typed, echo |-> <<>>,
        esc |-> IF b \in {"[", "O", "Y"} /\ job.esc < 3 THEN job.esc + 1 ELSE 0]
  ELSE [typed |-> CASE b = "^U" -> 0
                    [] b = "DEL" -> IF job.typed = 0 THEN 0 ELSE job.typed - 1
                    [] b \in Control \ {"^U", "DEL"} -> job.typed
                    [] OTHER -> IF job.typed < LineMax THEN job.typed + 1 ELSE LineMax,
        echo |-> CASE b = "^U" -> <<"^U", "CR", "LF">>
                   [] b = "DEL" /\ job.typed > 0 -> <<"DEL">>
                   [] b \in Control \ {"^U"} -> <<>>
                   [] OTHER -> IF job.typed < LineMax THEN <<b>> ELSE <<>>,
        esc |-> IF b = "ESC" THEN 1 ELSE 0]

Ends == {"CR", "LF", "^C", "^Z"}
EndsRead(b) == job.esc = 0 /\ b \in Ends /\ (b = "^Z" => job.typed = 0)

\* jobReadByte and the switch: one byte of the line, ...
ReadKey ==
  /\ job.pc = "edit" /\ ~kicked /\ toJob # <<>> /\ ~EndsRead(Head(toJob))
  /\ TakeKey
  /\ LET e == Edit(Head(toJob))
         echo == IF job.echoes THEN e.echo ELSE <<>>
     IN  job' = [job EXCEPT !.typed = e.typed, !.esc = e.esc, !.echo = echo,
                            !.pc = IF echo # <<>> THEN "echo" ELSE "edit"]

\* ... its echo, a critical section of its own, ...
Echo == /\ job.pc = "echo"
        /\ JobWrite(job.echo, [job EXCEPT !.pc = job.then, !.echo = <<>>, !.then = "edit"])
        /\ UNCHANGED ctrl

\* ... the byte that ends it, ...
EndLine ==
  /\ job.pc = "edit" /\ ~kicked /\ toJob # <<>> /\ EndsRead(Head(toJob))
  /\ TakeKey
  /\ LET key == Head(toJob)
         result == CASE key = "^C" -> "interrupt" [] key = "^Z" -> "eof" [] OTHER -> "line"
     IN  ReadEnds(result)

\* ... SHUTUP, which forgets what was typed, ...
ReadForced ==
  /\ job.pc = "edit" /\ kicked
  /\ kicked' = FALSE
  /\ ReadEnds("forced")
  /\ UNCHANGED <<toJob, toCtrl, dead, wake, ctrl, keys, output>>

\* ... the end of the link, where a line without end still counts, or sleep.
ReadDead ==
  /\ job.pc = "edit" /\ ~kicked /\ toJob = <<>> /\ dead
  /\ ReadEnds(IF job.typed = 0 THEN "eof" ELSE "line")
  /\ UNCHANGED <<link, ctrl, keys, output>>

ReadSleeps ==
  /\ job.pc = "edit" /\ ~kicked /\ toJob = <<>> /\ ~dead
  /\ job' = [job EXCEPT !.pc = "asleep"]
  /\ UNCHANGED <<link, ctrl, keys, output>>

\* A program of the job prints, polls for ^C, GETs with a wait, or ends.
PrintText == job.pc = "run" /\ (\E b \in Prints : JobWrite(Lined(b), job)) /\ UNCHANGED ctrl

CtrlCs == {i \in DOMAIN toJob : toJob[i] = "^C"}

\* Mutant of PollCtrlC: the ^C stays.
PollAndLeave ==
  /\ job.pc = "run" /\ CtrlCs # {}
  /\ keys' = [keys EXCEPT !.presses = @ - 1]
  /\ \E pc \in {"run", "turn"} : job' = [job EXCEPT !.pc = pc]
  /\ UNCHANGED <<link, ctrl, output>>

\* m.Interrupted with PollInterrupt: the first ^C goes, what is before it stays.
PollCtrlC ==
  /\ job.pc = "run" /\ CtrlCs # {}
  /\ toJob' = RemoveAt(toJob, CHOOSE i \in CtrlCs : \A k \in CtrlCs : i <= k)
  /\ keys' = [keys EXCEPT !.presses = @ - 1]
  /\ \E pc \in {"run", "turn"} : job' = [job EXCEPT !.pc = pc]
  /\ UNCHANGED <<toCtrl, dead, kicked, wake, ctrl, output>>

StartGetKey == /\ job.pc = "run"
               /\ job' = [job EXCEPT !.pc = "byte"]
               /\ UNCHANGED <<link, ctrl, keys, output>>

\* takeByte for the job under WAIT: a kick comes before a byte, a byte before
\* the end of the link, and that before the time.
GetKey ==
  /\ job.pc = "byte"
  /\ \/ /\ kicked /\ kicked' = FALSE
        /\ job' = [job EXCEPT !.pc = "turn"]
        /\ UNCHANGED <<toJob, toCtrl, dead, wake, ctrl, keys, output>>
     \/ ~kicked /\ toJob # <<>> /\ TakeKey /\ job' = [job EXCEPT !.pc = "run"]
     \/ /\ ~kicked /\ toJob = <<>>
        /\ \E pc \in IF dead THEN {"run"} ELSE {"run", "timed"} :
             job' = [job EXCEPT !.pc = pc]
        /\ UNCHANGED <<link, ctrl, keys, output>>

GetKeyWakes ==
  /\ job.pc = "timed"
  /\ (wake /\ wake' = FALSE) \/ UNCHANGED wake
  /\ job' = [job EXCEPT !.pc = "byte"]
  /\ UNCHANGED <<toJob, toCtrl, dead, kicked, ctrl, keys, output>>

EndProgram == /\ job.pc = "run" /\ job' = [job EXCEPT !.pc = "turn"]
              /\ UNCHANGED <<link, ctrl, keys, output>>

\* The loop of Run looks at Running before each turn.
Leave == /\ job.pc = "turn" /\ ~job.running
         /\ job' = [job EXCEPT !.pc = "leaving"]
         /\ UNCHANGED <<link, ctrl, keys, output>>

\* The goroutine of openPK, when the session has ended.
ChildEnds == /\ job.pc = "leaving"
             /\ dead' = TRUE /\ wake' = TRUE /\ job' = [job EXCEPT !.pc = "gone"]
             /\ UNCHANGED <<toJob, toCtrl, kicked, ctrl, keys, output>>

-----------------------------------------------------------------------------
(* Others *)

HangupJob == ~dead /\ job.pc # "gone" /\ Hangup /\ UNCHANGED ctrl

ForceLine == job.pc # "gone" /\ (\E b \in Keys : CtrlWrite(b \o <<"CR">>)) /\ UNCHANGED ctrl

\* SHUTUP: Running = false and InterruptRead.
Kick == /\ job.pc # "gone" /\ job.running
        /\ kicked' = TRUE /\ Signalled([job EXCEPT !.running = FALSE])
        /\ UNCHANGED <<toJob, toCtrl, dead, ctrl, keys, output>>

TypeCtrlC == /\ ctrl.pc # "closed" /\ ctrl' = [ctrl EXCEPT !.intr = TRUE]
             /\ UNCHANGED <<link, job, keys, output>>

\* What the two goroutines do by themselves, and what their programs choose.
CtrlWorks == CtrlReadLine \/ CtrlGetByte \/ CtrlWakes
CtrlChooses == Put \/ StartLine \/ StartGet \/ AtEnd \/ CloseChanFile
JobWorks == \/ StartRead /\ job.pc = "turn" /\ UNCHANGED ctrl
            \/ ReadKey \/ Echo \/ EndLine \/ ReadForced \/ ReadDead \/ ReadSleeps
            \/ GetKey \/ GetKeyWakes \/ Leave \/ ChildEnds
JobChooses == \/ StartRead /\ job.pc = "run" /\ UNCHANGED ctrl
              \/ PrintText \/ PollCtrlC \/ StartGetKey \/ EndProgram
Others == HangupJob \/ ForceLine \/ Kick \/ TypeCtrlC

Next == CtrlWorks \/ CtrlChooses \/ JobWorks \/ JobChooses \/ Others
Spec == Init /\ [][Next]_vars

\* The scheduler runs a goroutine that can go on, and time passes.
FairSpec == Spec /\ WF_vars(CtrlWorks) /\ WF_vars(JobWorks)

-----------------------------------------------------------------------------
(* Properties *)

(* Whatever the job reads with, lines, GET or the poll for ^C that takes one out
   of the middle of the type-ahead, it gets the characters the controller and
   FORCE sent, all of them, once and in order, and every ^C once. *)
KeysInOrder == keys = [text |-> Typed(toJob), presses |-> Presses(toJob)]

(* The controller gets what the job printed, once and in order, whether it reads
   lines or bytes, and also what was left when the job ended. *)
OutputInOrder == output = toCtrl

(* Nothing is lost, doubled or overtaken on the way in or out. *)
InOrder == KeysInOrder /\ OutputInOrder

(* A job sleeps on the condition only while there is nothing for it: every way
   to give it a byte, to kick it or to hang it up wakes it. *)
SleepsForCause == job.pc = "asleep" => toJob = <<>> /\ ~kicked /\ ~dead

(* Once the controller has been told of the end of the file, by an error or by
   EOF(n), there is nothing left to read and there will be nothing. *)
EofIsFinal == ctrl.eof => dead /\ toCtrl = <<>>

(* A controller that waits leaves its INPUT # or GET after ^C at its own terminal
   or when the job is gone. *)
ControllerLeaves ==
  (ctrl.pc \in CtrlPlaces \ {"run", "closed"} /\ (ctrl.intr \/ dead))
    ~> (ctrl.pc = "run")

(* When the link is hung up the session ends, unless a program that it runs goes
   on without it. *)
HangupEnds == dead ~> (job.pc \in {"gone", "run"})
=============================================================================
