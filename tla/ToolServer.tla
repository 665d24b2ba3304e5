----------------------------- MODULE ToolServer ------------------------------
(***************************************************************************)
(* packages/mcp-server: a language model's tool calls become calls of the  *)
(* SDK.  The server checks the arguments, which may be anything, makes one *)
(* call, and for a challenge one more read to tell the bond.               *)
(*                                                                         *)
(* The wallet may serve other programs as well, which use the SDK directly; *)
(* of their calls those that no tool makes are here.                        *)
(***************************************************************************)
EXTENDS ReputationClient

VARIABLE
    serving     \* the tool call in progress; None when there is none

\* What an argument may be where a text is expected: one that is blank or not, or too
\* long for a URI, something else, or absent; and where a boolean is, also that or its
\* spelling.
TextArguments == {"text", "long", "blank", "other", "absent"}
BooleanArguments == TextArguments \cup {"true", "false", "'true'", "'false'"}

-----------------------------------------------------------------------------
(* validation.ts: the set of what an argument is accepted as, which is empty when it
   is refused. *)

RequireString(argument) == {argument} \cap {"text", "long"}
RequireUri(argument) == RequireString(argument) \ {"long"}

CoerceBoolean(argument) ==      \* mutant: Boolean(argument)
    {argument \notin {"false", "absent"}}
RequireBoolean(argument) ==
    {upheld \in BOOLEAN :
        argument \in (IF upheld THEN {"true", "'true'"} ELSE {"false", "'false'"})}

-----------------------------------------------------------------------------
(* index.ts and adapters/solana.ts *)

Serve(tool, target, argument, request) ==
    /\ serving = None
    /\ serving' = [tool |-> tool, target |-> target, argument |-> argument, landed |-> FALSE]
    /\ Begin(request)

ServeAttestation ==
    \E taskType, resultUri \in TextArguments :
        /\ RequireString(taskType) # {} /\ RequireUri(resultUri) # {}
        /\ Serve("attest_completion", None, "text", Attest)

ServeChallenge ==
    \E c \in Targets, evidenceUri \in TextArguments :
        /\ RequireUri(evidenceUri) # {}
        /\ Serve("challenge_completion", c, "text", ChallengeOf(c))

ServeResolution ==
    \E c \in Targets, argument \in BooleanArguments :
        \E upheld \in RequireBoolean(argument) :
            Serve("resolve_challenge", c, argument, ResolutionOf(c, upheld))

\* The SDK's own users.
Use ==
    /\ serving = None
    /\ \E request \in {AttestSeq(seq) : seq \in Seqs} \cup {CancellationOf(c) : c \in Targets} :
           Begin(request)
    /\ UNCHANGED serving

\* Answered when the call returns or throws.
MakeCall ==
    /\ CallStep
    /\ serving' = IF call' = None THEN None ELSE serving

PlaceChallenge ==
    /\ SubmitChallenge
    /\ serving' = [serving EXCEPT !.landed = TRUE]

\* The challenge is read back; without an answer the reply does not tell the bond.
ReplyChallenge ==
    /\ serving # None /\ serving.landed
    /\ serving' = None
    /\ UNCHANGED <<clientVars, chainVars>>

ToolSystemInit == ClientSystemInit /\ serving = None

ToolSystemNext ==
    \/ ReputationSystemNext /\ UNCHANGED <<clientVars, serving>>
    \/ ServeAttestation \/ ServeChallenge \/ ServeResolution \/ Use
    \/ MakeCall \/ PlaceChallenge \/ ReplyChallenge

ToolSystem == ToolSystemInit /\ [][ToolSystemNext]_<<chainVars, clientVars, serving>>

-----------------------------------------------------------------------------
(* Properties *)

\* A tool does what its arguments say: the verdict submitted is the one written, as a
\* boolean or as a word (validation.ts: "Never truthy-coerce"); and the challenge that
\* is read back, however late, is the wallet's own, so that the bond told is the one it
\* has paid.
ServedAsAsked ==
    serving # None =>
        /\ Calling("resolve") => (call.upheld <=> serving.argument \in {"true", "'true'"})
        /\ serving.landed => /\ challenges[serving.target] # None
                             /\ challenges[serving.target].challenger = Wallet
=============================================================================
