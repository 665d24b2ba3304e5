-------------------------- MODULE ReputationClient ---------------------------
(***************************************************************************)
(* packages/solana/src/client.ts, the calls about completions and          *)
(* challenges: one client session reads accounts, builds a transaction     *)
(* from what it read and submits it.  Between any two of these steps       *)
(* anybody may do anything on chain, the session's own wallet in another   *)
(* process included; so what the session read may be stale when it is used. *)
(*                                                                         *)
(* A submission whose confirmation times out is an error to the caller     *)
(* although it may land later: the transaction then is one of the steps of *)
(* the chain.                                                              *)
(***************************************************************************)
EXTENDS Reputation

CONSTANTS
    Wallet,     \* the key the session signs with
    Targets     \* the completions it is asked to challenge, resolve or cancel

ASSUME ClientAssumption ==
    /\ Wallet \in Keys
    /\ Targets \subseteq CompletionKeys
    /\ None \notin Nat

VARIABLES
    call,       \* the call in progress, with what it has read; None between calls
    returned,   \* AttestResult of the last call, until the next one; else None
    refused     \* the last call the SDK refused without submitting it; None before

clientVars == <<call, returned, refused>>
chainVars == <<runtimeVars, configVars, reputationVars>>

\* Unread marks a field whose read has not been answered yet.
Unread == None

Attest == [op |-> "attest", seq |-> Unread, nextId |-> Unread, landed |-> FALSE]
AttestSeq(seq) == [Attest EXCEPT !.seq = seq]
ChallengeOf(c) == [op |-> "challenge", target |-> c, bond |-> Unread, funded |-> FALSE,
                   fresh |-> FALSE]
ResolutionOf(c, upheld) == [op |-> "resolve", target |-> c, upheld |-> upheld,
                            found |-> FALSE, challenger |-> Unread, treasury |-> Unread]
CancellationOf(c) == [op |-> "cancel", target |-> c, owned |-> FALSE]

Requests ==
    {Attest} \cup {AttestSeq(seq) : seq \in Seqs}
    \cup {ChallengeOf(c) : c \in Targets}
    \cup {ResolutionOf(c, upheld) : c \in Targets, upheld \in BOOLEAN}
    \cup {CancellationOf(c) : c \in Targets}

Calling(op) == call # None /\ call.op = op

ClientInit ==
    /\ call = None
    /\ returned = None
    /\ refused = None

-----------------------------------------------------------------------------
(* Steps every call is made of. *)

Begin(request) ==
    /\ call = None
    /\ call' = request
    /\ returned' = None
    /\ UNCHANGED <<refused, chainVars>>

\* A field of the call takes what the chain holds at this moment.
Answer(updated) ==
    /\ call' = updated
    /\ UNCHANGED <<returned, refused, chainVars>>

\* The SDK throws before anything is submitted.
Refuse(why) ==
    /\ refused' = [target |-> call.target, why |-> why]
    /\ call' = None
    /\ UNCHANGED <<returned, chainVars>>

\* The session has no wallet, a read or the submission fails, the transaction is
\* rejected, or its confirmation times out: the call throws.
Throw ==
    /\ call # None
    /\ ~(Calling("attest") /\ call.landed)
    /\ call' = None
    /\ UNCHANGED <<returned, refused, chainVars>>

-----------------------------------------------------------------------------
(* attest: the agent and the configuration are read concurrently, the sequence
   number only when the caller gave none. *)

ReadSeq ==
    /\ Calling("attest") /\ call.seq = Unread
    /\ Answer([call EXCEPT !.seq = AgentOf(Wallet).completions])

ReadNextId ==
    /\ Calling("attest") /\ call.nextId = Unread
    /\ config # None
    /\ Answer([call EXCEPT !.nextId = config.next_completion_id])

SubmitAttest ==
    /\ Calling("attest") /\ ~call.landed
    /\ call.seq # Unread /\ call.nextId # Unread
    /\ call.seq \in Seqs
    /\ AttestCompletion(Wallet, call.seq)
    /\ call' = [call EXCEPT !.landed = TRUE]
    /\ UNCHANGED <<returned, refused>>

IdFromRead(record) == record.id
IdReadAfter(record) == config.next_completion_id    \* mutant: read after the submission
IdReadBefore(record) == call.nextId

\* The completion is read back; when that read fails the id is the one that was
\* expected before the submission.
ReturnAttest(idOf(_)) ==
    /\ Calling("attest") /\ call.landed
    /\ LET c == <<Wallet, call.seq>>
       IN  returned' = [completion |-> c, completionId |-> idOf(completions[c])]
    /\ call' = None
    /\ UNCHANGED <<refused, chainVars>>

PostRead == ReturnAttest(IdFromRead)
PostReadFails == ReturnAttest(IdReadBefore)

-----------------------------------------------------------------------------
(* challenge: the bond is read, the balance is checked against it, the completion
   is looked up, one after the other. *)

ReadBond ==
    /\ Calling("challenge") /\ call.bond = Unread
    /\ config # None
    /\ Answer([call EXCEPT !.bond = config.challenge_bond_lamports])

CheckBalance ==
    /\ Calling("challenge") /\ call.bond # Unread /\ ~call.funded
    /\ IF lamports[Wallet] < call.bond
       THEN Refuse("InsufficientBalance")
       ELSE Answer([call EXCEPT !.funded = TRUE])

\* getCompletion and getChallenge take a failed read for a missing account.
LookUpCompletion ==
    /\ Calling("challenge") /\ call.funded /\ ~call.fresh
    /\ \/ Refuse("AccountNotFound")
       \/ /\ completions[call.target] # None
          /\ IF completions[call.target].challenged
             THEN Refuse("AlreadyChallenged")
             ELSE Answer([call EXCEPT !.fresh = TRUE])

SubmitChallenge ==
    /\ Calling("challenge") /\ call.fresh
    /\ ChallengeCompletion(Wallet, call.target)
    /\ call' = None
    /\ UNCHANGED <<returned, refused>>

-----------------------------------------------------------------------------
(* resolve: completion, challenge and configuration are read concurrently; the
   transaction names the challenger and the treasury that were read. *)

ReadChallenger ==
    /\ Calling("resolve") /\ call.challenger = Unread
    /\ \/ Refuse("AccountNotFound")
       \/ /\ challenges[call.target] # None
          /\ Answer([call EXCEPT !.challenger = challenges[call.target].challenger])

ReadTarget ==
    /\ Calling("resolve") /\ ~call.found
    /\ \/ Refuse("AccountNotFound")
       \/ /\ completions[call.target] # None
          /\ Answer([call EXCEPT !.found = TRUE])

ReadTreasury ==
    /\ Calling("resolve") /\ call.treasury = Unread
    /\ config # None
    /\ Answer([call EXCEPT !.treasury = config.treasury])

ResolveReady ==
    Calling("resolve") /\ call.found /\ call.challenger # Unread /\ call.treasury # Unread

\* The accounts the transaction names must be those the program expects.
SubmitResolve ==
    /\ ResolveReady
    /\ call.challenger = challenges[call.target].challenger
    /\ call.treasury = config.treasury
    /\ ResolveChallenge(Wallet, call.target, call.upheld)
    /\ call' = None
    /\ UNCHANGED <<returned, refused>>

-----------------------------------------------------------------------------
(* cancelChallenge *)

\* Mutant: challenge?.challenger, a missing challenge is taken for somebody else's.
LookUpChallengeMerged ==
    /\ Calling("cancel") /\ ~call.owned
    /\ IF challenges[call.target] = None \/ challenges[call.target].challenger # Wallet
       THEN Refuse("Unauthorized")
       ELSE Answer([call EXCEPT !.owned = TRUE])

LookUpChallenge ==
    /\ Calling("cancel") /\ ~call.owned
    /\ \/ Refuse("AccountNotFound")
       \/ /\ challenges[call.target] # None
          /\ IF challenges[call.target].challenger # Wallet
             THEN Refuse("Unauthorized")
             ELSE Answer([call EXCEPT !.owned = TRUE])

SubmitCancel ==
    /\ Calling("cancel") /\ call.owned
    /\ CancelChallenge(Wallet, call.target)
    /\ call' = None
    /\ UNCHANGED <<returned, refused>>

-----------------------------------------------------------------------------
CallStep ==
    \/ Throw
    \/ ReadSeq \/ ReadNextId \/ SubmitAttest \/ PostRead \/ PostReadFails
    \/ ReadBond \/ CheckBalance \/ LookUpCompletion
    \/ ReadChallenger \/ ReadTarget \/ ReadTreasury \/ SubmitResolve
    \/ LookUpChallenge \/ SubmitCancel

ClientStep ==
    \/ \E request \in Requests : Begin(request)
    \/ CallStep \/ SubmitChallenge

ClientSystemInit == ReputationSystemInit /\ ClientInit

ClientSystemNext ==
    \/ ReputationSystemNext /\ UNCHANGED clientVars
    \/ ClientStep

ClientSystem == ClientSystemInit /\ [][ClientSystemNext]_<<chainVars, clientVars>>

-----------------------------------------------------------------------------
(* Properties *)

\* The transaction of a resolution is built from reads that may be old by the time
\* it lands, and still never names a wrong challenger or treasury: whatever the
\* others do meanwhile, it is rejected for what it asks and never for its accounts.
ResolveAccountsFresh ==
    Calling("resolve") =>
        /\ call.challenger # Unread =>
               /\ challenges[call.target] # None
               /\ call.challenger = challenges[call.target].challenger
        /\ call.treasury # Unread => call.treasury = config.treasury

\* A refusal for what cannot change is final: after AlreadyChallenged the program
\* accepts no challenge of that completion, and after Unauthorized no cancellation by
\* this wallet, at any later time.
LocalRefusalsFinal ==
    refused # None =>
        /\ refused.why = "AlreadyChallenged" => completions[refused.target].challenged
        /\ refused.why = "Unauthorized" =>
               /\ challenges[refused.target] # None
               /\ challenges[refused.target].challenger # Wallet

\* The id attest returns is never one that is still to be issued: when it is not
\* the completion's own, it is that of a completion attested before it.
ReturnedIdNotAhead ==
    returned # None =>
        \E c \in CompletionKeys :
            /\ completions[c] # None /\ completions[c].id = returned.completionId
            /\ completions[c].id <= completions[returned.completion].id

\* client.ts, attest: "the pre-read config holds the id this attestation receives".
ReturnedIdIsTheCompletions ==
    returned # None => returned.completionId = completions[returned.completion].id
=============================================================================
