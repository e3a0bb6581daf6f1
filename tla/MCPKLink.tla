------------------------------ MODULE MCPKLink ------------------------------
(* What is sent through a small link. *)
EXTENDS PKLink

Characters == {"a", "x"}
\* Two characters, a line end and a ^C.
KeysSent == {<<"a">>, <<"CR">>, <<"^C">>}
\* A line of one character; single characters come from the echo.
Printed == {<<"x", "LF">>}
=============================================================================
