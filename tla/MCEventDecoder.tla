--------------------------- MODULE MCEventDecoder ---------------------------
(* Lengths in bytes for TLC: ids are base58 addresses, or "log:". *)
EXTENDS EventDecoder

CONSTANT o1

MCIdLength ==
    [p \in Others \cup {Taop, System, LogWord} |->
        CASE p = Taop -> 44 [] p = System -> 32 [] p = LogWord -> 4 [] OTHER -> 40]

\* Another program nearly fills a log, with little enough left that the program's
\* success does not fit and a short event does; of the program, the runtime logs the
\* compute units it used; of the System program nothing.
MCTextLengths ==
    [p \in Others \cup {Taop, System} |->
        CASE p = Taop -> {90} [] p = System -> {} [] OTHER -> {9763, 9825}]
=============================================================================
