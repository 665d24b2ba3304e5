----------------------------- MODULE Operations -----------------------------
(***************************************************************************)
(* What operators run beside the program: the configuration calls of       *)
(* packages/solana/src/client.ts, scripts/init-config.ts, which initializes *)
(* the configuration and writes the deployment descriptor, and the         *)
(* scheduled scripts/healthcheck.ts, which compares the deployment with    *)
(* what is documented.  Both scripts make one request after the other while *)
(* the admin and the upgrade authority go on.                              *)
(***************************************************************************)
EXTENDS ProtocolConfig, FiniteSets

CONSTANTS
    Attempts,           \* withRetry's bound on the attempts of a request
    ExpectedAuthority,  \* TAOP_EXPECTED_UPGRADE_AUTHORITY; None when it is not set
    Builds,             \* the builds that may be deployed
    ExpectedBuild       \* whose hash is expected; None when no hash is configured

ASSUME OperationsAssumption ==
    /\ Attempts \in Nat \ {0}
    /\ ExpectedAuthority \in Keys \cup {None}
    /\ ExpectedBuild \in Builds \cup {None} /\ None \notin Builds

VARIABLES
    bytecode,       \* the deployed program's build; None before it is deployed
    descriptor,     \* the deployment descriptor's values; None when there is no file
    script,         \* the run of init-config in progress; None when there is none
    check           \* the healthcheck in progress; None when there is none

operationsVars == <<bytecode, descriptor, script, check>>

OperationsInit ==
    /\ bytecode = None
    /\ descriptor = None
    /\ script = None
    /\ check = None

-----------------------------------------------------------------------------
(* The loader: not gated by anything the program does. *)

Deploy(build) ==
    /\ upgradeAuthority # None
    /\ bytecode' = build
    /\ UNCHANGED <<configVars, runtimeVars, descriptor, script>>

\* SetUpgradeAuthority ends with the initialization; the loader's does not.
RotateAuthority(authority) ==
    /\ config # None
    /\ upgradeAuthority # None
    /\ upgradeAuthority' = authority
    /\ UNCHANGED <<config, pendingAdmin, runtimeVars, bytecode, descriptor, script>>

-----------------------------------------------------------------------------
(* The SDK's configuration calls: a check of its own, then the instruction.  It refuses
   what the program rejects, and initializeConfig refuses also a wallet that has less
   than 20000 lamports over the rents, which the program might accept.  Without fees
   and the rent of records, which the model leaves out, the two conditions on the
   balance are one, so that these are all the configuration steps, whoever takes them. *)

TooLong(decay) == decay # None /\ decay > MaxDecay

SdkInitializeConfig(wallet, certifier, treasury, bond, decay) ==
    /\ ~TooLong(decay)
    /\ lamports[wallet] >= Rent
    /\ InitializeConfig(wallet, certifier, treasury, bond, decay)

SdkUpdateConfig(wallet, bond, decay, paused) ==
    /\ ~TooLong(decay)
    /\ UpdateConfig(wallet, bond, decay, paused)

SdkSetCertifier(wallet, certifier) == SetCertifier(wallet, certifier)
SdkTransferAdmin(wallet, newAdmin) == TransferAdmin(wallet, newAdmin)
SdkAcceptAdmin(wallet) == AcceptAdmin(wallet)

SdkConfigStep ==
    \/ \E wallet \in Keys, certifier \in CertifierChoices, treasury \in TreasuryChoices,
          bond \in BondChoices, decay \in DecayChoices :
           SdkInitializeConfig(wallet, certifier, treasury, bond, decay)
    \/ \E wallet \in Keys, bond \in BondChoices \cup {None},
          decay \in DecayChoices \cup {None}, paused \in PauseChoices \cup {None} :
           SdkUpdateConfig(wallet, bond, decay, paused)
    \/ \E wallet \in Keys, certifier \in CertifierChoices : SdkSetCertifier(wallet, certifier)
    \/ \E wallet \in Keys, newAdmin \in AdminChoices : SdkTransferAdmin(wallet, newAdmin)
    \/ \E wallet \in Keys : SdkAcceptAdmin(wallet)

-----------------------------------------------------------------------------
(* init-config: look for the program, then for the configuration, initialize it
   when there is none, read it and write the descriptor. *)

\* Of its arguments the treasury is kept; the others are chosen where they are used.
BeginScript(treasury) ==
    /\ script = None
    /\ bytecode # None
    /\ script' = [treasury |-> treasury, stage |-> "look", values |-> None]
    /\ UNCHANGED <<configVars, runtimeVars, bytecode, descriptor>>

At(stage) == script # None /\ script.stage = stage

LookForConfig ==
    /\ At("look")
    /\ script' = [script EXCEPT !.stage = IF config = None THEN "initialize" ELSE "read"]
    /\ UNCHANGED <<configVars, runtimeVars, bytecode, descriptor>>

\* It fails when somebody else has initialized the configuration since.
InitializeFromScript ==
    /\ At("initialize")
    /\ \E wallet \in Keys, certifier \in CertifierChoices,
          bond \in BondChoices, decay \in DecayChoices :
           SdkInitializeConfig(wallet, certifier, script.treasury, bond, decay)
    /\ script' = [script EXCEPT !.stage = "read"]
    /\ UNCHANGED <<bytecode, descriptor>>

DescriptorOfArguments ==    \* mutant: the argument is written, not what is on chain
    [certifier |-> config.certifier, treasury |-> script.treasury,
     challengeBondLamports |-> config.challenge_bond_lamports,
     decayPeriodSecs |-> config.decay_period_secs]
DescriptorOfConfig ==
    [certifier |-> config.certifier, treasury |-> config.treasury,
     challengeBondLamports |-> config.challenge_bond_lamports,
     decayPeriodSecs |-> config.decay_period_secs]

ReadBack ==
    /\ At("read")
    /\ config # None
    /\ script' = [script EXCEPT !.stage = "write", !.values = DescriptorOfConfig]
    /\ UNCHANGED <<configVars, runtimeVars, bytecode, descriptor>>

\* What was read may have changed on chain by the time it is written.
WriteDescriptor ==
    /\ At("write")
    /\ descriptor' = script.values
    /\ script' = None
    /\ UNCHANGED <<configVars, runtimeVars, bytecode>>

\* A request fails, a transaction is rejected, or the operator interrupts the script.
ScriptFails ==
    /\ script # None
    /\ script' = None
    /\ UNCHANGED <<configVars, runtimeVars, bytecode, descriptor>>

ScriptStep ==
    \/ \E treasury \in TreasuryChoices : BeginScript(treasury)
    \/ LookForConfig \/ InitializeFromScript \/ ReadBack \/ WriteDescriptor \/ ScriptFails

-----------------------------------------------------------------------------
(* healthcheck: version, program, program data, configuration and descriptor, score. *)

ConfigDrift ==
    IF config = None \/ descriptor = None THEN {}
    ELSE {field \in DOMAIN descriptor : descriptor[field] # DescriptorOfConfig[field]}

DriftOfAuthorities ==   \* mutant: the numbers are not compared
    ConfigDrift \cap {"certifier", "treasury"}
ReportedDrift == ConfigDrift

\* What is wrong with the deployment at this moment.
Deviations ==
    ConfigDrift
    \cup (IF bytecode = None THEN {"program"} ELSE {})
    \cup (IF ExpectedBuild # None /\ bytecode \notin {ExpectedBuild, None}
          THEN {"hash"} ELSE {})
    \cup (IF ExpectedAuthority # None /\ upgradeAuthority # ExpectedAuthority
          THEN {"authority"} ELSE {})
    \cup (IF config = None THEN {"config"} ELSE {})

\* failed says that a problem is reported.  steady, which the code does not have, is
\* what has been wrong ever since the check began, until a problem is reported.
BeginCheck ==
    /\ check = None
    /\ check' = [stage |-> "version", attempt |-> 1, failed |-> FALSE, steady |-> Deviations]
    /\ UNCHANGED <<configVars, runtimeVars, bytecode, descriptor, script>>

Stages == <<"version", "program", "programData", "config", "score", "verdict">>

FollowingStage(stage) ==
    Stages[1 + CHOOSE i \in DOMAIN Stages : Stages[i] = stage]

\* Without an executable account there is no program data to look at.
StageAfter(stage, problems) ==
    IF "program" \in problems THEN "config" ELSE FollowingStage(stage)

\* An expected authority is compared with none when the program data is not read.
WithoutProgramData(problem) ==
    {problem} \cup (IF ExpectedAuthority = None THEN {} ELSE {"authority"})

Found(stage) ==
    CASE stage = "program" /\ bytecode = None -> WithoutProgramData("program")
      [] stage = "programData" -> Deviations \cap {"hash", "authority"}
      [] stage = "config" -> (Deviations \cap {"config"}) \cup ReportedDrift
      [] OTHER -> {}

Reading == check # None /\ check.stage # "verdict"

Proceed(problems) ==
    check' = [check EXCEPT !.stage = StageAfter(check.stage, problems),
                           !.attempt = 1,
                           !.failed = @ \/ problems # {},
                           !.steady = IF problems = {} THEN @ ELSE {}]

RequestAnswered ==
    /\ Reading
    /\ Proceed(Found(check.stage))
    /\ UNCHANGED <<configVars, runtimeVars, bytecode, descriptor, script>>

\* A transient failure is tried again while there are attempts left.
RetryRequest ==
    /\ Reading /\ check.attempt < Attempts
    /\ check' = [check EXCEPT !.attempt = @ + 1]
    /\ UNCHANGED <<configVars, runtimeVars, bytecode, descriptor, script>>

ProblemsOfFailure(stage) ==
    IF stage \in {"program", "programData"} THEN WithoutProgramData(stage) ELSE {stage}

RequestFails ==
    /\ Reading
    /\ Proceed(ProblemsOfFailure(check.stage))
    /\ UNCHANGED <<configVars, runtimeVars, bytecode, descriptor, script>>

ExitWithVerdict ==
    /\ check # None /\ check.stage = "verdict"
    /\ check' = None
    /\ UNCHANGED <<configVars, runtimeVars, bytecode, descriptor, script>>

CheckStep == BeginCheck \/ RequestAnswered \/ RetryRequest \/ RequestFails \/ ExitWithVerdict

\* Whatever the others do, steady keeps what has been wrong all the time.
Watched ==
    check' = IF check = None THEN None ELSE [check EXCEPT !.steady = @ \cap Deviations']

-----------------------------------------------------------------------------
OperationsSystemInit == ConfigSystemInit /\ OperationsInit

OperationsSystemNext ==
    \/ /\ \/ RuntimeStep /\ UNCHANGED configVars
          \/ \E authority \in (AdminChoices \ {ZeroKey}) \cup {None} :
                 SetUpgradeAuthority(authority)
          \/ SdkConfigStep
       /\ UNCHANGED <<bytecode, descriptor, script>>
       /\ Watched
    \/ /\ \/ \E build \in Builds : Deploy(build)
          \/ \E authority \in (AdminChoices \ {ZeroKey}) \cup {None} : RotateAuthority(authority)
          \/ ScriptStep
       /\ Watched
    \/ CheckStep

OperationsSystem ==
    OperationsSystemInit /\ [][OperationsSystemNext]_<<runtimeVars, configVars, operationsVars>>

-----------------------------------------------------------------------------
(* Properties *)

\* What is wrong with a deployment from before a healthcheck until its verdict is
\* not passed, whichever request it shows in, however often requests are retried or
\* fail and whatever else changes meanwhile.
SteadyDeviationFailsCheck ==
    check # None /\ check.stage = "verdict" /\ ~check.failed => check.steady = {}

\* Several operators may run init-config with different arguments, be interrupted and
\* run it again: the descriptor names the treasury that is paid, never an argument
\* that lost the race to initialize.
DescriptorNamesTreasury ==
    descriptor # None => config # None /\ descriptor.treasury = config.treasury
=============================================================================
