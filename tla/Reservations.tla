---------------------------- MODULE Reservations ----------------------------
(***************************************************************************)
(* What the interlocks of files and records promise to a program that has  *)
(* a file open on one channel at a time: a file it has claimed exclusively *)
(* is claimed by nobody else, and nobody else takes the record it has.     *)
(* Whatever the other programs do, they do to themselves: one that opens a *)
(* file twice may lose a claim or a record it counts on, and no more.      *)
(***************************************************************************)
CONSTANTS Jobs, Careless, Files, Records

VARIABLES
  claims,  \* who has claimed which file, exclusively or with others
  holds    \* who has interlocked which record

Init == claims = {} /\ holds = {}

Careful(j) == j \notin Careless
Of(S, j, f) == {x \in S : x.job = j /\ x.file = f}
OfOthers(S, j, f) == {x \in S : x.job # j /\ x.file = f}

Claim(j, f, exclusive) ==
  /\ Careful(j) => Of(claims, j, f) = {}
  /\ exclusive => OfOthers(claims, j, f) = {}
  /\ \A x \in OfOthers(claims, j, f) : x.exclusive => ~Careful(x.job)
  /\ claims' = claims \cup {[job |-> j, file |-> f, exclusive |-> exclusive]}
  /\ UNCHANGED holds

(* A record at a time. *)
Interlock(j, f, r) ==
  /\ Careful(j) => Of(holds, j, f) = {}
  /\ \A x \in OfOthers(holds, j, f) : x.rec = r => ~Careful(x.job)
  /\ holds' = holds \cup {[job |-> j, file |-> f, rec |-> r]}
  /\ UNCHANGED claims

GiveBack(j, f) ==
  /\ holds' = holds \ Of(holds, j, f)
  /\ UNCHANGED claims

(* The record is given back before the file is. *)
Close(j, f) ==
  /\ Of(holds, j, f) = {}
  /\ claims' = claims \ Of(claims, j, f)
  /\ UNCHANGED holds

(* A channel goes away or is used for another file, and there may be        *)
(* another one on the file.                                                 *)
Lose(j, f) ==
  /\ ~Careful(j)
  /\ claims' \subseteq claims /\ claims \ claims' \subseteq Of(claims, j, f)
  /\ holds' \subseteq holds /\ holds \ holds' \subseteq Of(holds, j, f)

Next ==
  \/ \E j \in Jobs, f \in Files : Lose(j, f) \/ GiveBack(j, f) \/ Close(j, f)
  \/ \E j \in Jobs, f \in Files, r \in Records : Interlock(j, f, r)
  \/ \E j \in Jobs, f \in Files, exclusive \in BOOLEAN : Claim(j, f, exclusive)

Spec == Init /\ [][Next]_<<claims, holds>>
=============================================================================
