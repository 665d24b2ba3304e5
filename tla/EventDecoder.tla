---------------------------- MODULE EventDecoder ----------------------------
(***************************************************************************)
(* packages/solana/src/events.ts: the events of the program are read from  *)
(* the log of a transaction, in which lines of event data do not say whose *)
(* they are.  A transaction runs programs that call each other; the        *)
(* decoder keeps a stack of its own from the lines it reads.               *)
(*                                                                         *)
(* A program may log any text, lines that look like the runtime's included: *)
(* "Program log: success" is one that the decoder's patterns match.  The    *)
(* program itself logs no such text and calls the System program alone,    *)
(* which logs nothing (programs/taop_reputation/src/instructions).          *)
(*                                                                         *)
(* A log is bounded in bytes.  A line that does not fit is dropped and takes *)
(* no room, so that a shorter one after it may still be there: a log may   *)
(* have holes anywhere, and it is the lengths of lines that say where.     *)
(***************************************************************************)
EXTENDS Integers, Sequences, SequencesExt

CONSTANTS
    Taop,           \* the program
    System,         \* the System program
    Others,         \* any other program
    LogWord,        \* "log:", which stands where a program's id is expected
    IdLength,       \* how long a program's id, or LogWord, is
    DataLengths,    \* how long a line of event data may be
    TextLengths,    \* how long the lines that the decoder skips are, by the program that runs
    LogLimit,       \* the runtime's bound on the bytes of a log
    MaxDepth,       \* the runtime's bound on the depth of calls
    MaxEvents,      \* bound on the events of the program
    MaxLines        \* bound on the lines that a transaction logs

ASSUME DecoderAssumption ==
    /\ Taop \notin Others /\ System \notin Others /\ Taop # System
    /\ LogWord \notin Others \cup {Taop, System}
    /\ IdLength \in [Others \cup {Taop, System, LogWord} -> Nat]
    /\ IdLength[System] <= IdLength[Taop]
    /\ TextLengths \in [Others \cup {Taop, System} -> SUBSET Nat]
    /\ DataLengths \subseteq Nat /\ LogLimit \in Nat
    /\ MaxDepth \in Nat /\ MaxEvents \in Nat /\ MaxLines \in Nat

VARIABLES
    frames,     \* the programs that are running, each called by the one below it
    emitted,    \* how many events the program has emitted
    room,       \* how many bytes the log still takes
    whole,      \* no line has been dropped
    lines,      \* how many lines have been logged, dropped ones included
    stack,      \* the decoder's stack
    events      \* the lines it has decoded as events

decoderVars == <<frames, emitted, room, whole, lines, stack, events>>

Programs == Others \cup {Taop, System}
Forged == 0     \* stands for the number of an event in another program's data

Invocation(program) == [kind |-> "invoke", of |-> program]
Return(program) == [kind |-> "return", of |-> program]
Data(event, length) == [kind |-> "data", event |-> event, length |-> length]
Text(length) == [kind |-> "text", length |-> length]

DataLines == [kind : {"data"}, event : 0 .. MaxEvents, length : DataLengths]

DecoderTypeOK ==
    /\ frames \in Seq(Programs) /\ Len(frames) <= MaxDepth
    /\ emitted \in 0 .. MaxEvents /\ lines \in 0 .. MaxLines
    /\ room \in 0 .. LogLimit /\ whole \in BOOLEAN
    /\ stack \in Seq(Programs \cup {LogWord})
    /\ events \in Seq(DataLines)

DecoderInit ==
    /\ frames = <<>>
    /\ emitted = 0
    /\ room = LogLimit
    /\ whole = TRUE
    /\ lines = 0
    /\ stack = <<>>
    /\ events = <<>>

Executing(program) == frames # <<>> /\ Last(frames) = program

-----------------------------------------------------------------------------
(* The decoder, line by line. *)

AnyProgram == TRUE      \* mutant: every line of data is decoded
Attributed == stack # <<>> /\ Last(stack) = Taop

Popped == IF stack = <<>> THEN stack ELSE Front(stack)

DecodeEvents(line) ==
    /\ stack' = CASE line.kind = "invoke" -> Append(stack, line.of)
                  [] line.kind = "return" -> Popped
                  [] OTHER -> stack
    /\ events' = IF line.kind = "data" /\ Attributed THEN Append(events, line) ELSE events

-----------------------------------------------------------------------------
(* The log that the runtime keeps. *)

\* "Program <id> success" and "Program <id> invoke [<depth>]".  A failure ends the
\* transaction, and no data follows it.
ReturnLength(program) == IdLength[program] + 16
BytesOf(line) ==
    CASE line.kind = "return" -> ReturnLength(line.of)
      [] line.kind = "invoke" -> ReturnLength(line.of) + 3
      [] OTHER -> line.length

Log(line) ==
    /\ lines < MaxLines
    /\ lines' = lines + 1
    /\ IF BytesOf(line) < room
       THEN room' = room - BytesOf(line) /\ DecodeEvents(line) /\ UNCHANGED whole
       ELSE whole' = FALSE /\ UNCHANGED <<room, stack, events>>

-----------------------------------------------------------------------------
(* What a transaction logs. *)

\* The runtime rejects a call back into a program that is not its own caller.
Callable(program) ==
    /\ Len(frames) < MaxDepth
    /\ IF Executing(Taop) THEN program = System ELSE ~Executing(System)
    /\ program \in Range(frames) => Executing(program)

Invoke(program) ==
    /\ Callable(program)
    /\ frames' = Append(frames, program)
    /\ Log(Invocation(program))
    /\ UNCHANGED emitted

End ==
    /\ frames # <<>>
    /\ frames' = Front(frames)
    /\ Log(Return(Last(frames)))
    /\ UNCHANGED emitted

EmitEvent ==
    /\ Executing(Taop)
    /\ emitted < MaxEvents
    /\ emitted' = emitted + 1
    /\ \E length \in DataLengths : Log(Data(emitted + 1, length))
    /\ UNCHANGED frames

\* Another program logs what it likes: data that reads as an event, or text that
\* reads like a call or its end.
LogAnything ==
    /\ frames # <<>> /\ Last(frames) \in Others
    /\ \E line \in {Data(Forged, length) : length \in DataLengths}
                   \cup {Invocation(LogWord), Return(LogWord)} : Log(line)
    /\ UNCHANGED <<frames, emitted>>

\* Lines that the decoder skips, the runtime's own included, take room.
LogText ==
    /\ frames # <<>>
    /\ \E length \in TextLengths[Last(frames)] : Log(Text(length))
    /\ UNCHANGED <<frames, emitted>>

DecoderNext ==
    \/ \E program \in Programs : Invoke(program)
    \/ End \/ EmitEvent \/ LogAnything \/ LogText

DecoderSpec == DecoderInit /\ [][DecoderNext]_decoderVars

-----------------------------------------------------------------------------
(* Properties *)

Genuine(i) == events[i].event # Forged

\* However programs call each other, and whatever text the others log, the events
\* decoded from a whole log are those the program emitted, in order: none is forged
\* or missed.  Of a log that has lost lines some may be missed; the rest is still in
\* order, without repetition, and another program's data passes for an event only
\* where it is shorter than the line that says that the program has returned.
EventsExact ==
    /\ whole => Len(events) = emitted /\ \A i \in DOMAIN events : events[i].event = i
    /\ \A i, j \in DOMAIN events :
           i < j /\ Genuine(i) /\ Genuine(j) => events[i].event < events[j].event
    /\ \A i \in DOMAIN events : Genuine(i) \/ events[i].length < ReturnLength(Taop)

\* The comment of decodeEvents (events.ts:18-21): data is attributed to the program
\* that logged it, so none of another program's is decoded as an event of this one.
NoForgedEvent == \A i \in DOMAIN events : Genuine(i)
=============================================================================
