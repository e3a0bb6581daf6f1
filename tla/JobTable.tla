------------------------------ MODULE JobTable ------------------------------
(***************************************************************************)
(* What the job table promises to the rest of the system: a job number is  *)
(* given out lowest first, to one holder; it passes once from the line     *)
(* that asked for it to the session started on it; and only that session   *)
(* gives it back.  DETACH and ATTACH move a session between terminals and  *)
(* do not show here: the number goes with the session.                     *)
(***************************************************************************)
EXTENDS Integers

CONSTANTS MaxUsers, Openers, Sessions, Nobody

VARIABLE holder

Numbers == 1..MaxUsers
Free(n) == holder[n] = Nobody

Init == holder = [n \in Numbers |-> Nobody]

(* The lowest free number goes to an opener that waits for no other. *)
Grant(o, n) ==
  /\ Free(n)
  /\ \A m \in 1..(n - 1) : ~Free(m)
  /\ \A m \in Numbers : holder[m] # o
  /\ holder' = [holder EXCEPT ![n] = o]

(* The opener starts a session that has no number yet. *)
Bind(n, s) ==
  /\ holder[n] \in Openers
  /\ \A m \in Numbers : holder[m] # s
  /\ holder' = [holder EXCEPT ![n] = s]

(* The session ends. *)
Return(n) ==
  /\ holder[n] \in Sessions
  /\ holder' = [holder EXCEPT ![n] = Nobody]

Next == \E n \in Numbers :
  \/ \E o \in Openers : Grant(o, n)
  \/ \E s \in Sessions : Bind(n, s)
  \/ Return(n)

Spec == Init /\ [][Next]_holder
=============================================================================
