----------------------------- MODULE PKLinkProofs -----------------------------
(***************************************************************************)
(* Theorems about PKLink: the types, the order of what goes through the    *)
(* link in both directions, the sleep of the job and the end of the file.  *)
(*                                                                         *)
(* LinkInv, the four of them together, is inductive: that the keys are in  *)
(* order needs the bytes to be a sequence, that the end of the file is     *)
(* final needs nothing printed on a dead link, and the count of ^C stays   *)
(* within its type because it counts what is in the buffer.  A step is one *)
(* of the lemmas on what moves bytes (SendStep, PrintStep, TakeOutputStep, *)
(* TakeKeyStep) or moves none (FlagsStep).                                 *)
(***************************************************************************)
EXTENDS PKLink, SelectionProofs

-----------------------------------------------------------------------------
(* What each side is owed. *)

\* Typed and Presses have their types.
LEMMA TypedIsSeq ==
  ASSUME NEW s, s \in Seq(Bytes)
  PROVE  Typed(s) \in Seq(Bytes) /\ Presses(s) \in 0 .. Len(s)
<1>1. Without(s, CtrlC) \in Seq(Bytes \ CtrlC)
  BY WithoutIsSeq
<1>2. Seq(Bytes \ CtrlC) \subseteq Seq(Bytes)
  BY SeqMonotonic
<1>3. Len(Without(s, CtrlC)) \in 0 .. Len(s)
  BY WithoutLen
<1>4. Len(s) \in Nat
  OBVIOUS
<1> QED
  BY <1>1, <1>2, <1>3, <1>4 DEF Typed, Presses

\* What is typed, and how often ^C is pressed, in two pieces one after the other.
LEMMA TypedConcat ==
  ASSUME NEW s, NEW t, s \in Seq(Bytes), t \in Seq(Bytes)
  PROVE  /\ Typed(s \o t) = Typed(s) \o Typed(t)
         /\ Presses(s \o t) = Presses(s) + Presses(t)
<1>1. Typed(s \o t) = Typed(s) \o Typed(t)
  BY WithoutConcat DEF Typed
<1>2. Len(s \o t) = Len(s) + Len(t) /\ Len(s) \in Nat /\ Len(t) \in Nat
  OBVIOUS
<1>3. Typed(s) \in Seq(Bytes) /\ Typed(t) \in Seq(Bytes)
  BY TypedIsSeq
<1>4. Len(Typed(s) \o Typed(t)) = Len(Typed(s)) + Len(Typed(t))
      /\ Len(Typed(s)) \in Nat /\ Len(Typed(t)) \in Nat
  BY <1>3
<1> QED
  BY <1>1, <1>2, <1>4 DEF Presses

\* ... in one byte.
LEMMA TypedOne ==
  ASSUME NEW e, NEW h, h = <<e>>
  PROVE  /\ Typed(h) = IF e = "^C" THEN <<>> ELSE h
         /\ Presses(h) = IF e = "^C" THEN 1 ELSE 0
<1>1. Without(<<e>>, CtrlC) = IF e \in CtrlC THEN <<>> ELSE <<e>>
  BY WithoutOne
<1>2. Typed(h) = IF e = "^C" THEN <<>> ELSE h
  BY <1>1 DEF Typed, CtrlC
<1>3. Len(h) = 1 /\ Len(<<>>) = 0
  OBVIOUS
<1> QED
  BY <1>2, <1>3 DEF Presses

\* ... in the first byte and in the rest.
LEMMA TypedHead ==
  ASSUME NEW s, s \in Seq(Bytes), s # <<>>
  PROVE  /\ Typed(s) = IF Head(s) = "^C" THEN Typed(Tail(s)) ELSE <<Head(s)>> \o Typed(Tail(s))
         /\ Presses(s) = Presses(Tail(s)) + (IF Head(s) = "^C" THEN 1 ELSE 0)
         /\ Tail(s) \in Seq(Bytes) /\ Head(s) \in Bytes /\ Len(Tail(s)) = Len(s) - 1
<1>1. /\ Without(s, CtrlC) = IF Head(s) \in CtrlC THEN Without(Tail(s), CtrlC)
                              ELSE <<Head(s)>> \o Without(Tail(s), CtrlC)
      /\ Tail(s) \in Seq(Bytes) /\ Head(s) \in Bytes /\ Len(Tail(s)) = Len(s) - 1
  BY WithoutHead
<1>2. Typed(s) = IF Head(s) = "^C" THEN Typed(Tail(s)) ELSE <<Head(s)>> \o Typed(Tail(s))
  BY <1>1 DEF Typed, CtrlC
<1>3. PICK u : u = Typed(Tail(s))
  OBVIOUS
<1>4. u \in Seq(Bytes) /\ Len(s) \in Nat
  <2>1. PICK t : t = Tail(s)
    OBVIOUS
  <2>2. t \in Seq(Bytes)
    BY <1>1, <2>1
  <2>3. Typed(t) \in Seq(Bytes)
    BY <2>2, TypedIsSeq
  <2>4. Len(s) \in Nat
    OBVIOUS
  <2> QED
    BY <1>3, <2>1, <2>3, <2>4
<1>5. Len(<<Head(s)>> \o u) = Len(u) + 1 /\ Len(u) \in Nat
  BY <1>4
<1>6. Presses(s) = Presses(Tail(s)) + (IF Head(s) = "^C" THEN 1 ELSE 0)
  <2>1. Len(Typed(s)) = IF Head(s) = "^C" THEN Len(u) ELSE Len(u) + 1
    BY <1>2, <1>3, <1>5
  <2> QED
    BY <1>1, <1>3, <1>4, <1>5, <2>1 DEF Presses
<1> QED
  BY <1>1, <1>2, <1>6

\* Taking a ^C out of the middle takes one press and no character.
LEMMA TypedRemove ==
  ASSUME NEW s, NEW i, s \in Seq(Bytes), i \in 1 .. Len(s), s[i] = "^C"
  PROVE  /\ Typed(RemoveAt(s, i)) = Typed(s) /\ Presses(RemoveAt(s, i)) = Presses(s) - 1
         /\ RemoveAt(s, i) \in Seq(Bytes) /\ Len(RemoveAt(s, i)) = Len(s) - 1
<1>1. /\ Typed(RemoveAt(s, i)) = Typed(s)
      /\ RemoveAt(s, i) \in Seq(Bytes) /\ Len(RemoveAt(s, i)) = Len(s) - 1
  <2>1. s[i] \in CtrlC
    BY DEF CtrlC
  <2> QED
    BY <2>1, WithoutRemove DEF Typed
<1>2. Len(s) \in Nat /\ Len(Typed(s)) \in Nat
  <2>1. Typed(s) \in Seq(Bytes)
    BY TypedIsSeq
  <2> QED
    BY <2>1
<1> QED
  BY <1>1, <1>2 DEF Presses

\* A reader that is given the first byte is owed the others.
LEMMA OwedFirst ==
  ASSUME NEW t, NEW x, t \in Seq(Bytes), x \in Bytes
  PROVE  Owed(<<x>> \o t, <<x>>) = t
<1>1. IsPrefix(<<x>>, <<x>> \o t)
  BY DEF IsPrefix
<1>2. SubSeq(<<x>> \o t, Len(<<x>>) + 1, Len(<<x>> \o t)) = t
  OBVIOUS
<1> QED
  BY <1>1, <1>2 DEF Owed

\* A reader that is given the first n bytes is owed the others.
LEMMA OwedPrefix ==
  ASSUME NEW s, NEW n, s \in Seq(Bytes), n \in 0 .. Len(s)
  PROVE  Owed(s, SubSeq(s, 1, n)) = SubSeq(s, n + 1, Len(s))
<1>1. Len(SubSeq(s, 1, n)) = n
  OBVIOUS
<1>2. IsPrefix(SubSeq(s, 1, n), s)
  BY <1>1 DEF IsPrefix
<1> QED
  BY <1>1, <1>2 DEF Owed

-----------------------------------------------------------------------------
\* What the four properties have in common: together they are inductive.
LinkInv == TypeOK /\ InOrder /\ SleepsForCause /\ EofIsFinal

\* The state of a session that begins.
LEMMA SessionTyped == session \in JobStates
<1>1. <<>> \in Seq(Bytes) /\ 0 \in 0 .. LineMax
  BY LinkAssumption
<1> QED
  BY <1>1 DEF session, JobStates, JobPlaces, Reading

\* LinkInv holds in the initial state.
LEMMA LinkInit == Init => LinkInv
<1> SUFFICES ASSUME Init PROVE LinkInv
  OBVIOUS
<1>1. TypeOK
  <2>1. program \in CtrlStates
    BY DEF program, CtrlStates, CtrlPlaces
  <2>2. session \in JobStates
    BY SessionTyped
  <2>3. <<>> \in Seq(Bytes) /\ Len(<<>>) = 0 /\ 0 \in 0 .. MaxToJob
    BY LinkAssumption
  <2>4. [text |-> <<>>, presses |-> 0] \in [text : Seq(Bytes), presses : 0 .. MaxToJob]
    BY <2>3
  <2>5. /\ dead \in BOOLEAN /\ kicked \in BOOLEAN /\ wake \in BOOLEAN
        /\ ctrl \in CtrlStates /\ job \in JobStates
    BY <2>1, <2>2 DEF Init
  <2>6. /\ toJob \in Seq(Bytes) /\ Len(toJob) <= MaxToJob
        /\ toCtrl \in Seq(Bytes) /\ Len(toCtrl) <= MaxToCtrl
    BY <2>3, LinkAssumption DEF Init
  <2>7. keys \in [text : Seq(Bytes), presses : 0 .. MaxToJob]
    BY <2>4 DEF Init
  <2> QED
    BY <2>5, <2>6, <2>7 DEF TypeOK
<1>2. InOrder
  <2>1. Typed(<<>>) = <<>> /\ Presses(<<>>) = 0
    BY WithoutEmpty DEF Typed, Presses
  <2> QED
    BY <2>1 DEF Init, InOrder, KeysInOrder, OutputInOrder
<1> QED
  BY <1>1, <1>2 DEF Init, LinkInv, SleepsForCause, EofIsFinal, program, session

\* Whoever is signalled does not sleep.
LEMMA SignalledWakes ==
  ASSUME NEW j, j \in JobStates, Signalled(j)
  PROVE  wake' = TRUE /\ job' \in JobStates /\ job'.pc # "asleep"
BY DEF Signalled, JobStates, JobPlaces, Reading

\* A step that moves bytes neither in nor out.
LEMMA FlagsStep ==
  ASSUME LinkInv, UNCHANGED <<toJob, toCtrl, keys, output>>,
         dead' \in BOOLEAN, kicked' \in BOOLEAN, wake' \in BOOLEAN,
         job' \in JobStates, ctrl' \in CtrlStates,
         job'.pc = "asleep" => toJob = <<>> /\ ~kicked' /\ ~dead',
         ctrl'.eof => dead' /\ toCtrl = <<>>
  PROVE  LinkInv'
BY DEF LinkInv, TypeOK, InOrder, KeysInOrder, OutputInOrder, SleepsForCause, EofIsFinal

\* Bytes sent to the job, by the three ways there are.
LEMMA SendStep ==
  ASSUME LinkInv, NEW b, b \in Seq(Bytes), CtrlWriteBytes(b), ctrl' = ctrl
  PROVE  LinkInv'
<1>1. CASE dead
  BY <1>1, FlagsStep DEF CtrlWriteBytes, LinkInv, TypeOK, link, SleepsForCause, EofIsFinal
<1>2. CASE ~dead
  <2>1. /\ Len(toJob) + Len(b) <= MaxToJob
        /\ toJob' = toJob \o b
        /\ keys' = [text |-> keys.text \o Typed(b), presses |-> keys.presses + Presses(b)]
        /\ Signalled(job)
        /\ UNCHANGED <<toCtrl, dead, kicked, output>>
    BY <1>2 DEF CtrlWriteBytes
  <2>2. wake' = TRUE /\ job' \in JobStates /\ job'.pc # "asleep"
    BY <2>1, SignalledWakes DEF LinkInv, TypeOK
  <2>3. /\ toJob \in Seq(Bytes)
        /\ keys = [text |-> Typed(toJob), presses |-> Presses(toJob)]
    BY DEF LinkInv, TypeOK, InOrder, KeysInOrder
  <2>4. toJob' \in Seq(Bytes) /\ Len(toJob') = Len(toJob) + Len(b)
    BY <2>1, <2>3
  <2>5. Typed(toJob') = Typed(toJob) \o Typed(b) /\ Presses(toJob') = Presses(toJob) + Presses(b)
    BY <2>1, <2>3, TypedConcat
  <2>6. keys' = [text |-> Typed(toJob'), presses |-> Presses(toJob')]
    BY <2>1, <2>3, <2>5
  <2>7. /\ keys' \in [text : Seq(Bytes), presses : 0 .. MaxToJob]
        /\ Len(toJob') <= MaxToJob
    <3>1. PICK t : t = toJob'
      OBVIOUS
    <3>2. t \in Seq(Bytes) /\ Len(t) <= MaxToJob
      BY <2>1, <2>4, <3>1
    <3>3. Len(t) \in Nat
      BY <3>2
    <3>4. Typed(t) \in Seq(Bytes) /\ Presses(t) \in 0 .. Len(t)
      BY <3>2, TypedIsSeq
    <3>5. Presses(t) \in 0 .. MaxToJob
      BY <3>2, <3>3, <3>4, LinkAssumption
    <3>6. [text |-> Typed(t), presses |-> Presses(t)] \in [text : Seq(Bytes), presses : 0 .. MaxToJob]
      BY <3>4, <3>5
    <3> QED
      BY <2>6, <3>1, <3>2, <3>6
  <2>8. TypeOK'
    BY <2>1, <2>2, <2>4, <2>7 DEF LinkInv, TypeOK
  <2> QED
    BY <2>1, <2>2, <2>6, <2>8 DEF LinkInv, InOrder, KeysInOrder, OutputInOrder,
       SleepsForCause, EofIsFinal
<1> QED
  BY <1>1, <1>2 DEF LinkInv, TypeOK

\* The same with its line ends.
LEMMA CtrlWriteStep ==
  ASSUME LinkInv, NEW b, b \in Seq(Bytes), CtrlWrite(b), ctrl' = ctrl
  PROVE  LinkInv'
<1>1. PICK c : c = [i \in DOMAIN b |-> IF b[i] = "LF" THEN "CR" ELSE b[i]]
  OBVIOUS
<1>2. c \in Seq(Bytes)
  <2>1. "CR" \in Bytes
    BY DEF Bytes, Control
  <2> QED
    BY <1>1, <2>1
<1> QED
  BY <1>1, <1>2, SendStep DEF CtrlWrite

\* Bytes printed by the job.
LEMMA PrintStep ==
  ASSUME LinkInv, NEW b, NEW j, b \in Seq(Bytes), j \in JobStates, j.pc # "asleep",
         JobWrite(b, j), ctrl' = ctrl
  PROVE  LinkInv'
<1>1. CASE dead
  BY <1>1, FlagsStep DEF JobWrite, LinkInv, TypeOK, link, EofIsFinal
<1>2. CASE ~dead
  <2>1. /\ Len(toCtrl) + Len(b) <= MaxToCtrl
        /\ toCtrl' = toCtrl \o b
        /\ output' = output \o b
        /\ Signalled(j)
        /\ UNCHANGED <<toJob, dead, kicked, keys>>
    BY <1>2 DEF JobWrite
  <2>2. wake' = TRUE /\ job' \in JobStates /\ job'.pc # "asleep"
    BY <2>1, SignalledWakes
  <2>3. toCtrl \in Seq(Bytes) /\ output = toCtrl /\ ~ctrl.eof
    BY <1>2 DEF LinkInv, TypeOK, InOrder, OutputInOrder, EofIsFinal
  <2>4. toCtrl' \in Seq(Bytes) /\ Len(toCtrl') = Len(toCtrl) + Len(b) /\ output' = toCtrl'
    BY <2>1, <2>3
  <2>5. TypeOK'
    BY <2>1, <2>2, <2>4 DEF LinkInv, TypeOK
  <2> QED
    BY <2>1, <2>2, <2>3, <2>4, <2>5 DEF LinkInv, InOrder, KeysInOrder, OutputInOrder,
       SleepsForCause, EofIsFinal
<1> QED
  BY <1>1, <1>2 DEF LinkInv, TypeOK

\* The controller takes the first n bytes of the output.
LEMMA TakeOutputStep ==
  ASSUME LinkInv, NEW n, NEW c, n \in 0 .. Len(toCtrl), c \in CtrlStates,
         c.eof => dead /\ toCtrl = <<>>, TakeOutput(n, c)
  PROVE  LinkInv'
<1>1. /\ toCtrl' = SubSeq(toCtrl, n + 1, Len(toCtrl))
      /\ output' = Owed(output, SubSeq(toCtrl, 1, n))
      /\ ctrl' = c
      /\ UNCHANGED <<toJob, dead, kicked, wake, job, keys>>
  BY DEF TakeOutput
<1>2. toCtrl \in Seq(Bytes) /\ output = toCtrl
  BY DEF LinkInv, TypeOK, InOrder, OutputInOrder
<1>3. output' = toCtrl'
  BY <1>1, <1>2, OwedPrefix
<1>4. toCtrl' \in Seq(Bytes) /\ Len(toCtrl') <= Len(toCtrl) /\ Len(toCtrl') \in Nat
      /\ Len(toCtrl) \in Nat /\ (toCtrl = <<>> => toCtrl' = <<>>)
  BY <1>1, <1>2
<1>5. TypeOK'
  BY <1>1, <1>4, LinkAssumption DEF LinkInv, TypeOK
<1> QED
  BY <1>1, <1>3, <1>4, <1>5 DEF LinkInv, InOrder, KeysInOrder, OutputInOrder,
     SleepsForCause, EofIsFinal

\* The job takes the first byte it was sent.
LEMMA TakeKeyStep ==
  ASSUME LinkInv, toJob # <<>>, TakeKey, job' \in JobStates, job'.pc # "asleep"
  PROVE  LinkInv'
<1>1. /\ toJob' = Tail(toJob)
      /\ keys' = IF Head(toJob) = "^C" THEN [keys EXCEPT !.presses = @ - 1]
                 ELSE [keys EXCEPT !.text = Owed(@, <<Head(toJob)>>)]
      /\ UNCHANGED <<toCtrl, dead, kicked, wake, ctrl, output>>
  BY DEF TakeKey
<1>2. /\ toJob \in Seq(Bytes)
      /\ keys = [text |-> Typed(toJob), presses |-> Presses(toJob)]
  BY DEF LinkInv, TypeOK, InOrder, KeysInOrder
<1>3. PICK h, t, u : h = Head(toJob) /\ t = Tail(toJob) /\ u = Typed(t)
  OBVIOUS
<1>4. /\ Typed(toJob) = IF h = "^C" THEN u ELSE <<h>> \o u
      /\ Presses(toJob) = Presses(t) + (IF h = "^C" THEN 1 ELSE 0)
      /\ t \in Seq(Bytes) /\ h \in Bytes /\ Len(t) = Len(toJob) - 1
  BY <1>2, <1>3, TypedHead
<1>5. u \in Seq(Bytes) /\ Presses(t) \in 0 .. Len(t)
  BY <1>3, <1>4, TypedIsSeq
<1>6. Len(t) \in Nat /\ Len(toJob) \in Nat /\ Len(toJob) <= MaxToJob
  BY <1>2, <1>4 DEF LinkInv, TypeOK
<1>7. keys' = [text |-> u, presses |-> Presses(t)]
  <2>1. CASE h = "^C"
    <3>1. keys.text = u /\ keys.presses = Presses(t) + 1
      BY <1>2, <1>4, <2>1
    <3>2. keys' = [keys EXCEPT !.presses = @ - 1]
      BY <1>1, <1>3, <2>1
    <3>3. keys' = [text |-> keys.text, presses |-> keys.presses - 1]
      BY <1>2, <3>2
    <3> QED
      BY <1>5, <1>6, <3>1, <3>3
  <2>2. CASE h # "^C"
    <3>1. keys.text = <<h>> \o u /\ keys.presses = Presses(t)
      BY <1>2, <1>4, <1>5, <1>6, <2>2
    <3>2. keys' = [keys EXCEPT !.text = Owed(@, <<h>>)]
      BY <1>1, <1>3, <2>2
    <3>3. keys' = [text |-> Owed(keys.text, <<h>>), presses |-> keys.presses]
      BY <1>2, <3>2
    <3>4. Owed(<<h>> \o u, <<h>>) = u
      BY <1>4, <1>5, OwedFirst
    <3> QED
      BY <3>1, <3>3, <3>4
  <2> QED
    BY <2>1, <2>2
<1>8. keys' = [text |-> Typed(toJob'), presses |-> Presses(toJob')]
  BY <1>1, <1>3, <1>7
<1>9. /\ toJob' \in Seq(Bytes) /\ Len(toJob') <= MaxToJob
      /\ keys' \in [text : Seq(Bytes), presses : 0 .. MaxToJob]
  <2>1. Presses(t) \in 0 .. MaxToJob /\ Len(t) <= MaxToJob
    BY <1>4, <1>5, <1>6, LinkAssumption
  <2>2. [text |-> u, presses |-> Presses(t)] \in [text : Seq(Bytes), presses : 0 .. MaxToJob]
    BY <1>5, <2>1
  <2> QED
    BY <1>1, <1>3, <1>4, <1>7, <2>1, <2>2
<1>10. TypeOK'
  BY <1>1, <1>9 DEF LinkInv, TypeOK
<1> QED
  BY <1>1, <1>8, <1>10 DEF LinkInv, InOrder, KeysInOrder, OutputInOrder,
     SleepsForCause, EofIsFinal

\* Hanging up moves no byte.
LEMMA HangupStep ==
  ASSUME LinkInv, Hangup, ctrl' \in CtrlStates, ctrl'.eof = ctrl.eof
  PROVE  LinkInv'
<1>1. dead' = TRUE /\ Signalled(job) /\ UNCHANGED <<toJob, toCtrl, kicked, keys, output>>
  BY DEF Hangup
<1>2. wake' = TRUE /\ job' \in JobStates /\ job'.pc # "asleep"
  BY <1>1, SignalledWakes DEF LinkInv, TypeOK
<1>3. kicked' \in BOOLEAN /\ (ctrl'.eof => toCtrl = <<>>)
  BY <1>1 DEF LinkInv, TypeOK, EofIsFinal
<1> QED
  BY <1>1, <1>2, <1>3, FlagsStep

\* What is printed with a carriage return before every line feed is a sequence of bytes.
LEMMA LinedIsSeq ==
  ASSUME NEW b, b \in Seq(Bytes)
  PROVE  Lined(b) \in Seq(Bytes)
<1>1. PICK q : q = [i \in DOMAIN b |-> IF b[i] = "LF" /\ (i = 1 \/ b[i - 1] # "CR")
                                       THEN <<"CR", "LF">> ELSE <<b[i]>>]
  OBVIOUS
<1>2. PICK n \in Nat : DOMAIN b = 1 .. n /\ \A i \in 1 .. n : b[i] \in Bytes
  <2>1. Len(b) \in Nat /\ DOMAIN b = 1 .. Len(b) /\ \A i \in 1 .. Len(b) : b[i] \in Bytes
    OBVIOUS
  <2> QED
    BY <2>1
<1>3. "CR" \in Bytes /\ "LF" \in Bytes
  BY DEF Bytes, Control
<1>4. <<"CR", "LF">> \in Seq(Bytes) /\ \A x \in Bytes : <<x>> \in Seq(Bytes)
  BY <1>3
<1>5. \A i \in 1 .. n : q[i] \in Seq(Bytes)
  BY <1>1, <1>2, <1>4
<1>6. q = [i \in 1 .. n |-> q[i]]
  BY <1>1, <1>2
<1>7. q \in Seq(Seq(Bytes))
  BY <1>5, <1>6
<1>8. FlattenSeq(q) \in Seq(Bytes)
  BY <1>7, FlattenIsSeq
<1> QED
  BY <1>1, <1>8 DEF Lined

-----------------------------------------------------------------------------
(* The controller's steps. *)

\* PUT and PRINT #.
LEMMA PutInv == LinkInv /\ Put => LinkInv'
<1> SUFFICES ASSUME LinkInv, Put PROVE LinkInv'
  OBVIOUS
<1>1. PICK b \in Keys : CtrlWriteBytes(b) \/ CtrlWrite(b)
  BY DEF Put
<1>2. b \in Seq(Bytes) /\ ctrl' = ctrl
  BY LinkAssumption DEF Put
<1> QED
  BY <1>1, <1>2, SendStep, CtrlWriteStep

\* A step of the controller alone.
LEMMA CtrlStep ==
  ASSUME LinkInv, UNCHANGED <<link, job, keys, output>>, ctrl' \in CtrlStates,
         ctrl'.eof => ctrl.eof \/ (dead /\ toCtrl = <<>>)
  PROVE  LinkInv'
BY FlagsStep DEF link, LinkInv, TypeOK, SleepsForCause, EofIsFinal

\* The states in which INPUT # and GET leave the controller.
LEMMA PlacesTyped ==
  ASSUME LinkInv
  PROVE  /\ ctrl \in CtrlStates /\ Returned \in CtrlStates /\ AtEof \in CtrlStates
         /\ Stopped \in CtrlStates
         /\ Returned.eof = ctrl.eof /\ Stopped.eof = ctrl.eof
<1>1. ctrl \in CtrlStates /\ program \in CtrlStates
  BY DEF LinkInv, TypeOK, program, CtrlStates, CtrlPlaces
<1>2. Returned \in CtrlStates /\ Returned.eof = ctrl.eof
  <2>1. program \in CtrlStates /\ ctrl.eof \in BOOLEAN /\ ctrl.intr \in BOOLEAN
    BY <1>1 DEF CtrlStates
  <2> QED
    BY <2>1 DEF Returned, CtrlStates
<1>3. AtEof \in CtrlStates
  BY <1>2 DEF AtEof, CtrlStates
<1>4. Stopped \in CtrlStates /\ Stopped.eof = Returned.eof
  BY <1>2 DEF Stopped, CtrlStates
<1> QED
  BY <1>1, <1>2, <1>3, <1>4

\* INPUT # and GET begin, EOF(n), and ^C at the own terminal.
LEMMA StartsInv == LinkInv /\ (StartLine \/ StartGet \/ AtEnd \/ TypeCtrlC) => LinkInv'
<1> SUFFICES ASSUME LinkInv, StartLine \/ StartGet \/ AtEnd \/ TypeCtrlC PROVE LinkInv'
  OBVIOUS
<1>1. UNCHANGED <<link, job, keys, output>>
  BY DEF StartLine, StartGet, AtEnd, TypeCtrlC
<1>2. ctrl \in CtrlStates /\ dead \in BOOLEAN
  BY DEF LinkInv, TypeOK
<1>3. CASE StartLine
  <2>1. ctrl' \in CtrlStates /\ ctrl'.eof = ctrl.eof
    BY <1>2, <1>3 DEF StartLine, CtrlStates, CtrlPlaces
  <2> QED
    BY <1>1, <2>1, CtrlStep
<1>4. CASE StartGet
  <2>1. ctrl' \in CtrlStates /\ ctrl'.eof = ctrl.eof
    BY <1>2, <1>4 DEF StartGet, CtrlStates, CtrlPlaces
  <2> QED
    BY <1>1, <2>1, CtrlStep
<1>5. CASE AtEnd
  <2>1. ctrl' = [ctrl EXCEPT !.eof = @ \/ (dead /\ toCtrl = <<>>)]
    BY <1>5 DEF AtEnd
  <2>2. ctrl' \in CtrlStates /\ (ctrl'.eof => ctrl.eof \/ (dead /\ toCtrl = <<>>))
    BY <1>2, <2>1 DEF CtrlStates
  <2> QED
    BY <1>1, <2>2, CtrlStep
<1>6. CASE TypeCtrlC
  <2>1. ctrl' \in CtrlStates /\ ctrl'.eof = ctrl.eof
    BY <1>2, <1>6 DEF TypeCtrlC, CtrlStates
  <2> QED
    BY <1>1, <2>1, CtrlStep
<1> QED
  BY <1>3, <1>4, <1>5, <1>6

\* INPUT # looks at the buffer.
LEMMA ReadLineInv == LinkInv /\ CtrlReadLine => LinkInv'
<1> SUFFICES ASSUME LinkInv, CtrlReadLine PROVE LinkInv'
  OBVIOUS
<1>1. toCtrl \in Seq(Bytes) /\ Len(toCtrl) \in Nat
  <2>1. toCtrl \in Seq(Bytes)
    BY DEF LinkInv, TypeOK
  <2> QED
    BY <2>1
<1>2. CASE LineEnds # {}
  <2> DEFINE n == CHOOSE i \in LineEnds : \A k \in LineEnds : i <= k
  <2>1. TakeOutput(n, Returned)
    BY <1>2 DEF CtrlReadLine
  <2>2. LineEnds \subseteq 1 .. Len(toCtrl) /\ LineEnds \subseteq Nat
    BY <1>1 DEF LineEnds
  <2>3. \E i \in LineEnds : \A k \in LineEnds : i <= k
    BY <1>2, <2>2, Least
  <2>4. n \in LineEnds
    BY <2>3
  <2> HIDE DEF n
  <2>5. n \in 0 .. Len(toCtrl)
    BY <1>1, <2>2, <2>4
  <2> QED
    BY <2>1, <2>5, PlacesTyped, TakeOutputStep DEF LinkInv, EofIsFinal
<1>3. CASE LineEnds = {} /\ dead
  <2>1. TakeOutput(Len(toCtrl), IF toCtrl = <<>> THEN AtEof ELSE Returned)
    BY <1>3 DEF CtrlReadLine
  <2>2. Len(toCtrl) \in 0 .. Len(toCtrl)
    BY <1>1
  <2> QED
    BY <1>3, <2>1, <2>2, PlacesTyped, TakeOutputStep DEF LinkInv, EofIsFinal
<1>4. CASE LineEnds = {} /\ ~dead
  <2>1. /\ ctrl' = IF ctrl.intr THEN Stopped ELSE [ctrl EXCEPT !.pc = "lineWait"]
        /\ UNCHANGED <<link, job, keys, output>>
    BY <1>4 DEF CtrlReadLine
  <2>2. [ctrl EXCEPT !.pc = "lineWait"] \in CtrlStates
        /\ [ctrl EXCEPT !.pc = "lineWait"].eof = ctrl.eof
    BY PlacesTyped DEF CtrlStates, CtrlPlaces
  <2> QED
    BY <2>1, <2>2, PlacesTyped, CtrlStep
<1> QED
  BY <1>2, <1>3, <1>4

\* GET looks at the buffer.
LEMMA GetByteInv == LinkInv /\ CtrlGetByte => LinkInv'
<1> SUFFICES ASSUME LinkInv, CtrlGetByte PROVE LinkInv'
  OBVIOUS
<1>1. toCtrl \in Seq(Bytes) /\ ctrl \in CtrlStates
  BY DEF LinkInv, TypeOK
<1>2. CASE toCtrl # <<>>
  <2>1. \/ TakeOutput(1, Returned)
        \/ TakeOutput(1, IF ctrl.intr THEN Stopped ELSE [ctrl EXCEPT !.got = 1])
    BY <1>2 DEF CtrlGetByte
  <2>2. [ctrl EXCEPT !.got = 1] \in CtrlStates /\ [ctrl EXCEPT !.got = 1].eof = ctrl.eof
    BY <1>1 DEF CtrlStates
  <2>3. 1 \in 0 .. Len(toCtrl) /\ ~ctrl.eof
    BY <1>1, <1>2 DEF LinkInv, EofIsFinal
  <2> QED
    BY <2>1, <2>2, <2>3, PlacesTyped, TakeOutputStep
<1>3. CASE toCtrl = <<>>
  <2>1. /\ \/ dead /\ ctrl' = IF ctrl.got = 0 THEN AtEof ELSE Returned
           \/ ctrl' = Stopped
           \/ ctrl' = Returned
           \/ ctrl' = [ctrl EXCEPT !.pc = "byteWait"]
        /\ UNCHANGED <<link, job, keys, output>>
    BY <1>3 DEF CtrlGetByte
  <2>2. [ctrl EXCEPT !.pc = "byteWait"] \in CtrlStates
        /\ [ctrl EXCEPT !.pc = "byteWait"].eof = ctrl.eof
    BY <1>1 DEF CtrlStates, CtrlPlaces
  <2> QED
    BY <1>3, <2>1, <2>2, PlacesTyped, CtrlStep
<1> QED
  BY <1>2, <1>3

\* The wait of INPUT # and GET.
LEMMA CtrlWakesInv == LinkInv /\ CtrlWakes => LinkInv'
<1> SUFFICES ASSUME LinkInv, CtrlWakes PROVE LinkInv'
  OBVIOUS
<1>1. /\ ctrl' = [ctrl EXCEPT !.pc = IF @ = "lineWait" THEN "line" ELSE "byte"]
      /\ UNCHANGED <<toJob, toCtrl, dead, kicked, job, keys, output>>
      /\ wake' \in BOOLEAN
  BY DEF CtrlWakes, LinkInv, TypeOK
<1>2. ctrl' \in CtrlStates /\ ctrl'.eof = ctrl.eof
  BY <1>1 DEF LinkInv, TypeOK, CtrlStates, CtrlPlaces
<1> QED
  BY <1>1, <1>2, FlagsStep DEF LinkInv, TypeOK, SleepsForCause, EofIsFinal

\* CLOSE.
LEMMA CloseInv == LinkInv /\ CloseChanFile => LinkInv'
<1> SUFFICES ASSUME LinkInv, CloseChanFile PROVE LinkInv'
  OBVIOUS
<1>1. Hangup /\ ctrl' = [ctrl EXCEPT !.pc = "closed"]
  BY DEF CloseChanFile
<1>2. ctrl' \in CtrlStates /\ ctrl'.eof = ctrl.eof
  BY <1>1 DEF LinkInv, TypeOK, CtrlStates, CtrlPlaces
<1> QED
  BY <1>1, <1>2, HangupStep

-----------------------------------------------------------------------------
(* The job's steps. *)

\* A step of the job alone.
LEMMA JobStep ==
  ASSUME LinkInv, UNCHANGED <<link, ctrl, keys, output>>, job' \in JobStates,
         job'.pc = "asleep" => toJob = <<>> /\ ~kicked /\ ~dead
  PROVE  LinkInv'
BY FlagsStep DEF link, LinkInv, TypeOK, EofIsFinal

\* The types of the states.
LEMMA JobTyped == LinkInv => job \in JobStates /\ dead \in BOOLEAN /\ kicked \in BOOLEAN
                             /\ ctrl \in CtrlStates
BY DEF LinkInv, TypeOK

\* Where the job may go, without the rest of its state.
LEMMA GoTo ==
  ASSUME LinkInv, NEW pc, pc \in JobPlaces \ {"asleep"}
  PROVE  [job EXCEPT !.pc = pc] \in JobStates /\ [job EXCEPT !.pc = pc].pc # "asleep"
BY JobTyped DEF JobStates

\* A session does not go back to sleep.
LEMMA BackPlaces ==
  ASSUME NEW place, NEW result
  PROVE  Back(place, result) \subseteq {"turn", "run", "leaving"}
BY DEF Back

\* readEdit begins.
LEMMA PromptInv ==
  ASSUME LinkInv, StartRead, ctrl' = ctrl
  PROVE  LinkInv'
<1>1. PICK echoes \in BOOLEAN, prompt \in Prints \cup {<<>>} :
        LET j == [job EXCEPT !.pc = "edit", !.back = job.pc, !.echoes = echoes]
        IN  IF dead /\ prompt # <<>> /\ ~echoes
            THEN \E pc \in Back(job.pc, "eof") :
                   job' = [job EXCEPT !.pc = pc] /\ UNCHANGED <<link, keys, output>>
            ELSE JobWrite(Lined(prompt), j)
  BY DEF StartRead
<1>2. CASE dead /\ prompt # <<>> /\ ~echoes
  <2>1. PICK pc \in Back(job.pc, "eof") :
          job' = [job EXCEPT !.pc = pc] /\ UNCHANGED <<link, keys, output>>
    BY <1>1, <1>2
  <2>2. pc \in JobPlaces \ {"asleep"}
    BY BackPlaces DEF JobPlaces, Reading
  <2> QED
    BY <2>1, <2>2, GoTo, JobStep
<1>3. CASE ~ (dead /\ prompt # <<>> /\ ~echoes)
  <2>1. PICK j : j = [job EXCEPT !.pc = "edit", !.back = job.pc, !.echoes = echoes]
    OBVIOUS
  <2>2. JobWrite(Lined(prompt), j)
    BY <1>1, <1>3, <2>1
  <2>3. job \in JobStates /\ job.pc \in {"turn", "run"} /\ echoes \in BOOLEAN
    BY JobTyped DEF StartRead
  <2>4. j \in JobStates /\ j.pc # "asleep"
    BY <2>1, <2>3 DEF JobStates, JobPlaces, Reading
  <2>5. <<>> \in Seq(Bytes)
    OBVIOUS
  <2>6. Lined(prompt) \in Seq(Bytes)
    BY <2>5, LinkAssumption, LinedIsSeq
  <2> QED
    BY <2>2, <2>4, <2>6, PrintStep
<1> QED
  BY <1>2, <1>3

\* readEdit ends.
LEMMA ReadEndsTyped ==
  ASSUME LinkInv, NEW result, ReadEnds(result)
  PROVE  job' \in JobStates /\ job'.pc # "asleep"
<1>1. PICK pc, j :
        /\ pc \in Back(job.back, result)
        /\ j = [session EXCEPT !.running = job.running]
        /\ job' = IF job.echoes => result = "line"
                  THEN [j EXCEPT !.pc = "echo", !.echo = <<"CR", "LF">>, !.then = pc]
                  ELSE [j EXCEPT !.pc = pc]
  BY DEF ReadEnds
<1>2. pc \in {"turn", "run", "leaving"}
  BY <1>1, BackPlaces
<1>3. j \in JobStates
  BY <1>1, JobTyped, SessionTyped DEF JobStates
<1>4. <<"CR", "LF">> \in Seq(Bytes)
  BY DEF Bytes, Control
<1>5. PICK e : e = <<"CR", "LF">>
  OBVIOUS
<1>6. e \in Seq(Bytes)
  BY <1>4, <1>5
<1>7. [j EXCEPT !.pc = "echo", !.echo = e, !.then = pc] \in JobStates
  BY <1>2, <1>3, <1>6 DEF JobStates, JobPlaces
<1>8. [j EXCEPT !.pc = pc] \in JobStates
  BY <1>2, <1>3 DEF JobStates, JobPlaces
<1>9. [j EXCEPT !.pc = "echo", !.echo = e, !.then = pc].pc = "echo"
      /\ [j EXCEPT !.pc = pc].pc = pc
  BY <1>3 DEF JobStates
<1> QED
  BY <1>1, <1>2, <1>5, <1>7, <1>8, <1>9

\* What one byte does to the line stays within readEdit's limits.
LEMMA EditTyped ==
  ASSUME LinkInv, NEW b, b \in Bytes
  PROVE  /\ Edit(b).typed \in 0 .. LineMax /\ Edit(b).esc \in 0 .. 3
         /\ Edit(b).echo \in Seq(Bytes)
<1>1. job.esc \in 0 .. 3 /\ job.typed \in 0 .. LineMax /\ LineMax \in Nat
  BY JobTyped, LinkAssumption DEF JobStates
<1>2. /\ <<>> \in Seq(Bytes) /\ <<"^U", "CR", "LF">> \in Seq(Bytes) /\ <<"DEL">> \in Seq(Bytes)
      /\ <<b>> \in Seq(Bytes)
  BY DEF Bytes, Control
<1>3. Edit(b).typed \in 0 .. LineMax
  BY <1>1 DEF Edit
<1>4. Edit(b).esc \in 0 .. 3
  BY <1>1 DEF Edit
<1>5. Edit(b).echo \in Seq(Bytes)
  <2>1. Edit(b).echo \in {<<>>, <<"^U", "CR", "LF">>, <<"DEL">>, <<b>>}
    BY DEF Edit
  <2> QED
    BY <1>2, <2>1
<1> QED
  BY <1>3, <1>4, <1>5

\* One byte of the line.
LEMMA ReadKeyInv == LinkInv /\ ReadKey => LinkInv'
<1> SUFFICES ASSUME LinkInv, ReadKey PROVE LinkInv'
  OBVIOUS
<1>1. PICK e, echo :
        /\ e = Edit(Head(toJob)) /\ echo = IF job.echoes THEN e.echo ELSE <<>>
        /\ job' = [job EXCEPT !.typed = e.typed, !.esc = e.esc, !.echo = echo,
                              !.pc = IF echo # <<>> THEN "echo" ELSE "edit"]
        /\ toJob # <<>> /\ TakeKey
  BY DEF ReadKey
<1>2. Head(toJob) \in Bytes
  BY <1>1 DEF LinkInv, TypeOK
<1>3. e.typed \in 0 .. LineMax /\ e.esc \in 0 .. 3 /\ e.echo \in Seq(Bytes)
  BY <1>1, <1>2, EditTyped
<1>4. echo \in Seq(Bytes)
  BY <1>1, <1>3
<1>5. job' \in JobStates /\ job'.pc # "asleep"
  BY <1>1, <1>3, <1>4, JobTyped DEF JobStates, JobPlaces, Reading
<1> QED
  BY <1>1, <1>5, TakeKeyStep

\* Its echo.
LEMMA EchoInv == LinkInv /\ Echo => LinkInv'
<1> SUFFICES ASSUME LinkInv, Echo PROVE LinkInv'
  OBVIOUS
<1>1. PICK j, b : /\ j = [job EXCEPT !.pc = job.then, !.echo = <<>>, !.then = "edit"]
                  /\ b = job.echo /\ JobWrite(b, j) /\ ctrl' = ctrl
  BY DEF Echo
<1>2. <<>> \in Seq(Bytes)
  OBVIOUS
<1>3. j \in JobStates /\ j.pc # "asleep" /\ b \in Seq(Bytes)
  BY <1>1, <1>2, JobTyped DEF JobStates, JobPlaces, Reading
<1> QED
  BY <1>1, <1>3, PrintStep

\* The line ends: by a byte, by SHUTUP, or with the link.
LEMMA LineEndsInv == LinkInv /\ (EndLine \/ ReadForced \/ ReadDead) => LinkInv'
<1> SUFFICES ASSUME LinkInv, EndLine \/ ReadForced \/ ReadDead PROVE LinkInv'
  OBVIOUS
<1>1. PICK result : ReadEnds(result)
  BY DEF EndLine, ReadForced, ReadDead
<1>2. job' \in JobStates /\ job'.pc # "asleep"
  BY <1>1, ReadEndsTyped
<1>3. CASE EndLine
  BY <1>2, <1>3, TakeKeyStep DEF EndLine
<1>4. CASE ReadForced
  BY <1>2, <1>4, FlagsStep DEF ReadForced, LinkInv, TypeOK, EofIsFinal
<1>5. CASE ReadDead
  BY <1>2, <1>5, JobStep DEF ReadDead
<1> QED
  BY <1>3, <1>4, <1>5

\* The job goes to sleep, having looked at all there is to wake for.
LEMMA SleepInv == LinkInv /\ ReadSleeps => LinkInv'
<1> SUFFICES ASSUME LinkInv, ReadSleeps PROVE LinkInv'
  OBVIOUS
<1>1. job' = [job EXCEPT !.pc = "asleep"] /\ UNCHANGED <<link, ctrl, keys, output>>
      /\ ~kicked /\ toJob = <<>> /\ ~dead
  BY DEF ReadSleeps
<1>2. job' \in JobStates
  BY <1>1, JobTyped DEF JobStates, JobPlaces, Reading
<1> QED
  BY <1>1, <1>2, JobStep

\* GET of the job under WAIT.
LEMMA GetKeyInv == LinkInv /\ GetKey => LinkInv'
<1> SUFFICES ASSUME LinkInv, GetKey PROVE LinkInv'
  OBVIOUS
<1>1. {"turn", "run", "timed"} \subseteq JobPlaces \ {"asleep"}
  BY DEF JobPlaces, Reading
<1>2. PICK pc \in {"turn", "run", "timed"} : job' = [job EXCEPT !.pc = pc]
  BY DEF GetKey
<1>3. job' \in JobStates /\ job'.pc # "asleep"
  BY <1>1, <1>2, GoTo
<1>4. CASE kicked' = FALSE /\ UNCHANGED <<toJob, toCtrl, dead, wake, ctrl, keys, output>>
  BY <1>3, <1>4, FlagsStep DEF LinkInv, TypeOK, EofIsFinal
<1>5. CASE toJob # <<>> /\ TakeKey
  BY <1>3, <1>5, TakeKeyStep
<1>6. CASE UNCHANGED <<link, ctrl, keys, output>>
  BY <1>3, <1>6, JobStep
<1> QED
  BY <1>4, <1>5, <1>6 DEF GetKey

\* Its wait.
LEMMA GetKeyWakesInv == LinkInv /\ GetKeyWakes => LinkInv'
<1> SUFFICES ASSUME LinkInv, GetKeyWakes PROVE LinkInv'
  OBVIOUS
<1>1. /\ job' = [job EXCEPT !.pc = "byte"] /\ wake' \in BOOLEAN
      /\ UNCHANGED <<toJob, toCtrl, dead, kicked, ctrl, keys, output>>
  BY DEF GetKeyWakes, LinkInv, TypeOK
<1>2. "byte" \in JobPlaces \ {"asleep"}
  BY DEF JobPlaces, Reading
<1>3. job' \in JobStates /\ job'.pc # "asleep"
  BY <1>1, <1>2, GoTo
<1> QED
  BY <1>1, <1>3, FlagsStep DEF LinkInv, TypeOK, EofIsFinal

\* Steps of the job that touch nothing of the link.
LEMMA MovesInv == LinkInv /\ (StartGetKey \/ EndProgram \/ Leave) => LinkInv'
<1> SUFFICES ASSUME LinkInv, StartGetKey \/ EndProgram \/ Leave PROVE LinkInv'
  OBVIOUS
<1>1. {"byte", "turn", "leaving"} \subseteq JobPlaces \ {"asleep"}
  BY DEF JobPlaces, Reading
<1>2. PICK pc \in {"byte", "turn", "leaving"} : job' = [job EXCEPT !.pc = pc]
  BY DEF StartGetKey, EndProgram, Leave
<1>3. UNCHANGED <<link, ctrl, keys, output>>
  BY DEF StartGetKey, EndProgram, Leave
<1> QED
  BY <1>1, <1>2, <1>3, GoTo, JobStep

\* PRINT.
LEMMA PrintTextInv == LinkInv /\ PrintText => LinkInv'
<1> SUFFICES ASSUME LinkInv, PrintText PROVE LinkInv'
  OBVIOUS
<1>1. PICK b \in Prints : JobWrite(Lined(b), job)
  BY DEF PrintText
<1>2. Lined(b) \in Seq(Bytes)
  BY LinkAssumption, LinedIsSeq
<1> QED
  BY <1>1, <1>2, JobTyped, PrintStep DEF PrintText

\* The poll for ^C.
LEMMA PollInv == LinkInv /\ PollCtrlC => LinkInv'
<1> SUFFICES ASSUME LinkInv, PollCtrlC PROVE LinkInv'
  OBVIOUS
<1>1. /\ CtrlCs # {}
      /\ toJob' = RemoveAt(toJob, CHOOSE i \in CtrlCs : \A k \in CtrlCs : i <= k)
      /\ keys' = [keys EXCEPT !.presses = @ - 1]
      /\ UNCHANGED <<toCtrl, dead, kicked, wake, ctrl, output>>
  BY DEF PollCtrlC
<1>2. PICK i : i = CHOOSE n \in CtrlCs : \A k \in CtrlCs : n <= k
  OBVIOUS
<1>3. /\ toJob \in Seq(Bytes) /\ Len(toJob) \in Nat /\ Len(toJob) <= MaxToJob
      /\ keys = [text |-> Typed(toJob), presses |-> Presses(toJob)]
      /\ keys \in [text : Seq(Bytes), presses : 0 .. MaxToJob]
  BY DEF LinkInv, TypeOK, InOrder, KeysInOrder
<1>4. CtrlCs \subseteq 1 .. Len(toJob) /\ CtrlCs \subseteq Nat
  BY <1>3 DEF CtrlCs
<1>5. i \in CtrlCs
  <2>1. \E n \in CtrlCs : \A k \in CtrlCs : n <= k
    BY <1>1, <1>4, Least
  <2> QED
    BY <1>2, <2>1
<1>6. i \in 1 .. Len(toJob) /\ toJob[i] = "^C" /\ toJob' = RemoveAt(toJob, i)
  BY <1>1, <1>2, <1>4, <1>5 DEF CtrlCs
<1>7. PICK t : t = RemoveAt(toJob, i)
  OBVIOUS
<1>8. /\ Typed(t) = Typed(toJob) /\ Presses(t) = Presses(toJob) - 1
      /\ t \in Seq(Bytes) /\ Len(t) = Len(toJob) - 1
  BY <1>3, <1>6, <1>7, TypedRemove
<1>9. Presses(t) \in 0 .. MaxToJob /\ Len(t) <= MaxToJob
  <2>1. Presses(t) \in 0 .. Len(t) /\ Len(t) \in Nat
    BY <1>8, TypedIsSeq
  <2> QED
    BY <1>3, <1>8, <2>1, LinkAssumption
<1>10. keys' = [text |-> Typed(t), presses |-> Presses(t)]
  BY <1>1, <1>3, <1>8
<1>11. keys' \in [text : Seq(Bytes), presses : 0 .. MaxToJob]
  BY <1>1, <1>3, <1>9, <1>10
<1>12. job' \in JobStates /\ job'.pc # "asleep"
  <2>1. PICK pc \in {"run", "turn"} : job' = [job EXCEPT !.pc = pc]
    BY DEF PollCtrlC
  <2>2. {"run", "turn"} \subseteq JobPlaces \ {"asleep"}
    BY DEF JobPlaces, Reading
  <2> QED
    BY <2>1, <2>2, GoTo
<1>13. toJob' = t
  BY <1>6, <1>7
<1>14. TypeOK'
  BY <1>1, <1>8, <1>9, <1>11, <1>12, <1>13 DEF LinkInv, TypeOK
<1> QED
  BY <1>1, <1>10, <1>12, <1>13, <1>14 DEF LinkInv, InOrder, KeysInOrder, OutputInOrder,
     SleepsForCause, EofIsFinal

\* The end of the session.
LEMMA ChildEndsInv == LinkInv /\ ChildEnds => LinkInv'
<1> SUFFICES ASSUME LinkInv, ChildEnds PROVE LinkInv'
  OBVIOUS
<1>1. /\ dead' = TRUE /\ wake' = TRUE /\ job' = [job EXCEPT !.pc = "gone"]
      /\ UNCHANGED <<toJob, toCtrl, kicked, ctrl, keys, output>>
  BY DEF ChildEnds
<1>2. "gone" \in JobPlaces \ {"asleep"}
  BY DEF JobPlaces, Reading
<1>3. job' \in JobStates /\ job'.pc # "asleep"
  BY <1>1, <1>2, GoTo
<1> QED
  BY <1>1, <1>3, FlagsStep DEF LinkInv, TypeOK, EofIsFinal

-----------------------------------------------------------------------------
(* The others. *)

\* HANGUP, FORCE and SHUTUP.
LEMMA OthersInv == LinkInv /\ (HangupJob \/ ForceLine \/ Kick) => LinkInv'
<1> SUFFICES ASSUME LinkInv, HangupJob \/ ForceLine \/ Kick PROVE LinkInv'
  OBVIOUS
<1>1. CASE HangupJob
  BY <1>1, JobTyped, HangupStep DEF HangupJob
<1>2. CASE ForceLine
  <2>1. PICK b \in Keys : CtrlWrite(b \o <<"CR">>)
    BY <1>2 DEF ForceLine
  <2>2. PICK c : c = b \o <<"CR">>
    OBVIOUS
  <2>3. "CR" \in Bytes /\ b \in Seq(Bytes)
    BY LinkAssumption DEF Bytes, Control
  <2>4. c \in Seq(Bytes)
    BY <2>2, <2>3
  <2> QED
    BY <1>2, <2>1, <2>2, <2>4, CtrlWriteStep DEF ForceLine
<1>3. CASE Kick
  <2>1. PICK j : j = [job EXCEPT !.running = FALSE] /\ Signalled(j)
    BY <1>3 DEF Kick
  <2>2. j \in JobStates
    BY <2>1, JobTyped DEF JobStates
  <2>3. wake' = TRUE /\ job' \in JobStates /\ job'.pc # "asleep"
    BY <2>1, <2>2, SignalledWakes
  <2> QED
    BY <1>3, <2>3, FlagsStep DEF Kick, LinkInv, TypeOK, EofIsFinal
<1> QED
  BY <1>1, <1>2, <1>3

\* Every step preserves LinkInv.
LEMMA LinkStep == LinkInv /\ [Next]_vars => LinkInv'
<1> SUFFICES ASSUME LinkInv, [Next]_vars PROVE LinkInv'
  OBVIOUS
<1>1. CASE CtrlWorks
  BY <1>1, ReadLineInv, GetByteInv, CtrlWakesInv DEF CtrlWorks
<1>2. CASE CtrlChooses
  BY <1>2, PutInv, StartsInv, CloseInv DEF CtrlChooses
<1>3. CASE JobWorks
  BY <1>3, PromptInv, ReadKeyInv, EchoInv, LineEndsInv, SleepInv, GetKeyInv, GetKeyWakesInv,
     MovesInv, ChildEndsInv DEF JobWorks
<1>4. CASE JobChooses
  BY <1>4, PromptInv, PrintTextInv, PollInv, MovesInv DEF JobChooses
<1>5. CASE Others
  BY <1>5, OthersInv, StartsInv DEF Others
<1>6. CASE UNCHANGED vars
  BY <1>6 DEF vars, LinkInv, TypeOK, InOrder, KeysInOrder, OutputInOrder, SleepsForCause, EofIsFinal
<1> QED
  BY <1>1, <1>2, <1>3, <1>4, <1>5, <1>6 DEF Next

(* LinkInv is an inductive invariant. *)
THEOREM LinkInvariant == Spec => []LinkInv
BY LinkInit, LinkStep, PTL DEF Spec

(* The buffers, the flags and the two parties keep their types: readEdit never holds
   more than LineMax characters, nor counts more than three bytes of an escape. *)
THEOREM LinkTypes == Spec => []TypeOK
<1>1. LinkInv => TypeOK
  BY DEF LinkInv
<1> QED
  BY <1>1, LinkInvariant, PTL

(* Nothing that goes through the link is lost, doubled or overtaken, in either
   direction, for any keys, any output and any bound of the buffers. *)
THEOREM LinkInOrder == Spec => []InOrder
<1>1. LinkInv => InOrder
  BY DEF LinkInv
<1> QED
  BY <1>1, LinkInvariant, PTL

(* No wakeup is lost: a job that sleeps has no byte, no kick and no hangup to see. *)
THEOREM LinkSleepsForCause == Spec => []SleepsForCause
<1>1. LinkInv => SleepsForCause
  BY DEF LinkInv
<1> QED
  BY <1>1, LinkInvariant, PTL

(* The end of the file that the controller is told of is final. *)
THEOREM LinkEofIsFinal == Spec => []EofIsFinal
<1>1. LinkInv => EofIsFinal
  BY DEF LinkInv
<1> QED
  BY <1>1, LinkInvariant, PTL
=============================================================================
