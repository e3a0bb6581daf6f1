----------------------------- MODULE BasicWords -----------------------------
(* The words of BASIC (token.go): keywords, marks and numbers.  What is none *)
(* of them, and no string, is a name.                                        *)
EXTENDS Integers, TLC

MaxNumber == 250     \* bound: the numbers there are words for
NumberWords == {ToString(n) : n \in 0..MaxNumber}
Numbers == [w \in NumberWords |-> CHOOSE n \in 0..MaxNumber : ToString(n) = w]

Starters == {"PRINT", "INPUT", "LET", "GOTO", "GOSUB", "RETURN", "IF", "FOR", "NEXT",
             "WHILE", "DIM", "DATA", "READ", "RESTORE", "END", "STOP", "REM", "OPEN",
             "CLOSE", "RANDOMIZE", "ON", "DEF", "CHANGE", "LINE", "UNTIL", "GET", "PUT",
             "FIELD", "LSET", "RSET", "RESUME", "MAT", "MAP", "CHAIN", "SLEEP", "KILL",
             "NAME", "FNEND", "FNEXIT", "EXTEND", "NOEXTEND", "COMMON", "WAIT", "UNLOCK",
             "SCALE"}
Keywords == Starters \cup
            {"THEN", "ELSE", "TO", "STEP", "RUN", "LIST", "NEW", "OLD", "SAVE", "DELETE",
             "AS", "FILE", "OUTPUT", "APPEND", "AND", "OR", "NOT", "MOD", "GO", "TAB",
             "SPC", "REPLACE", "CLEAR", "ERROR", "USING", "RECORD", "RECORDSIZE",
             "UNLESS", "ORGANIZATION", "VIRTUAL", "XOR", "EQV", "IMP"}
Marks == {"(", ")", ",", ";", "#", "\\", ":", "=", "+", "-", "*", "/", "^", "<", ">",
          "<>", "<=", ">=", "=="}
BuiltinNames == {"ERR", "ERL", "SYS"}
Reserved == Keywords \cup Marks \cup NumberWords \cup {"eol"}
=============================================================================
