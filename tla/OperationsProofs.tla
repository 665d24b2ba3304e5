-------------------------- MODULE OperationsProofs --------------------------
(***************************************************************************)
(* What the operators' scripts can be trusted for, whatever the admin, the *)
(* upgrade authority and other scripts do between two of their requests.   *)
(***************************************************************************)
EXTENDS Operations, HandlerProofs

DescriptorFields ==
    {"certifier", "treasury", "challengeBondLamports", "decayPeriodSecs"}
Problems == DescriptorFields \cup {"program", "hash", "authority", "config"}
CheckStages == {"version", "program", "programData", "config", "score", "verdict"}

ScriptTypeOK ==
    script # None =>
        /\ script = [treasury |-> script.treasury, stage |-> script.stage,
                     values |-> script.values]
        /\ script.treasury \in TreasuryChoices
        /\ script.stage \in {"look", "initialize", "read", "write"}

\* What a script has read back and not yet written.
ValuesRead ==
    script # None /\ script.stage = "write" =>
        /\ DOMAIN script.values = DescriptorFields
        /\ config # None /\ script.values.treasury = config.treasury

DescriptorTypeOK ==
    descriptor # None => DOMAIN descriptor = DescriptorFields

CheckTypeOK ==
    check # None =>
        check \in [stage : CheckStages, attempt : Nat, failed : BOOLEAN,
                   steady : SUBSET Problems]

\* What a check that reports no problem has looked for before it reaches a stage.
LookedFor(stage) ==
    CASE stage = "programData" -> {"program"}
      [] stage = "config" -> {"program", "hash", "authority"}
      [] stage \in {"score", "verdict"} -> Problems
      [] OTHER -> {}

\* The deviations a check has had from its start are there, and it has not passed one
\* by without reporting it.
CheckThorough ==
    check # None =>
        /\ check.steady \subseteq Deviations
        /\ ~check.failed => check.steady \cap LookedFor(check.stage) = {}

CheckInv == CheckTypeOK /\ CheckThorough

OperationsInv ==
    /\ ConfigInv
    /\ ScriptTypeOK
    /\ ValuesRead
    /\ DescriptorTypeOK
    /\ DescriptorNamesTreasury
    /\ CheckInv

-----------------------------------------------------------------------------
(* The healthcheck. *)

LEMMA DeviationsNamed ==
    ASSUME DescriptorTypeOK
    PROVE  /\ Deviations \subseteq Problems
           /\ ConfigDrift \subseteq DescriptorFields
  BY DEF DescriptorTypeOK, Deviations, ConfigDrift, Problems, DescriptorFields

LEMMA StagesInOrder ==
    /\ FollowingStage("version") = "program"
    /\ FollowingStage("program") = "programData"
    /\ FollowingStage("programData") = "config"
    /\ FollowingStage("config") = "score"
    /\ FollowingStage("score") = "verdict"
  <1>1. /\ DOMAIN Stages = 1 .. 6
        /\ Stages[1] = "version" /\ Stages[2] = "program" /\ Stages[3] = "programData"
        /\ Stages[4] = "config" /\ Stages[5] = "score" /\ Stages[6] = "verdict"
    BY DEF Stages
  <1>2. \A i \in DOMAIN Stages : i \in {1, 2, 3, 4, 5, 6}
    BY <1>1
  <1>3. (CHOOSE i \in DOMAIN Stages : Stages[i] = "version") = 1
    BY <1>1, <1>2
  <1>4. (CHOOSE i \in DOMAIN Stages : Stages[i] = "program") = 2
    BY <1>1, <1>2
  <1>5. (CHOOSE i \in DOMAIN Stages : Stages[i] = "programData") = 3
    BY <1>1, <1>2
  <1>6. (CHOOSE i \in DOMAIN Stages : Stages[i] = "config") = 4
    BY <1>1, <1>2
  <1>7. (CHOOSE i \in DOMAIN Stages : Stages[i] = "score") = 5
    BY <1>1, <1>2
  <1> QED
    BY <1>1, <1>3, <1>4, <1>5, <1>6, <1>7 DEF FollowingStage

\* An answer either reports a problem or shows that there is none of its kind.
LEMMA AnswersAreThorough ==
    ASSUME DescriptorTypeOK, CheckInv, Reading, Proceed(Found(check.stage)),
           Deviations' = Deviations
    PROVE  CheckInv'
  <1> DEFINE problems == Found(check.stage)
  <1>1. /\ check \in [stage : CheckStages, attempt : Nat, failed : BOOLEAN,
                      steady : SUBSET Problems]
        /\ check.stage \in CheckStages \ {"verdict"}
    BY DEF CheckInv, CheckTypeOK, Reading
  <1>2. StageAfter(check.stage, problems) \in CheckStages
    BY <1>1, StagesInOrder DEF StageAfter, CheckStages
  <1>3. /\ check' = [stage |-> StageAfter(check.stage, problems), attempt |-> 1,
                     failed |-> check.failed \/ problems # {},
                     steady |-> IF problems = {} THEN check.steady ELSE {}]
        /\ check'.stage = StageAfter(check.stage, problems)
        /\ check'.failed <=> (check.failed \/ problems # {})
        /\ check'.steady = (IF problems = {} THEN check.steady ELSE {})
    BY <1>1 DEF Proceed
  <1>4. CheckTypeOK'
    BY <1>1, <1>2, <1>3 DEF CheckTypeOK
  <1>5. CASE problems # {}
    BY <1>3, <1>4, <1>5 DEF CheckInv, CheckThorough
  <1>6. CASE problems = {}
    <2>1. /\ check.steady \subseteq Deviations
          /\ ~check.failed => check.steady \cap LookedFor(check.stage) = {}
      BY DEF CheckInv, CheckThorough, Reading
    <2>2. StageAfter(check.stage, problems) = FollowingStage(check.stage)
      BY <1>6 DEF StageAfter
    <2>3. Deviations \cap LookedFor(FollowingStage(check.stage))
              \subseteq LookedFor(check.stage)
      <3>1. CASE check.stage = "version"
        BY <3>1, StagesInOrder DEF LookedFor
      <3>2. CASE check.stage = "program"
        <4>1. bytecode # None
          BY <1>6, <3>2 DEF Found, WithoutProgramData
        <4>2. "program" \notin Deviations
          BY <4>1, DeviationsNamed DEF Deviations, DescriptorFields
        <4> QED
          BY <3>2, <4>2, StagesInOrder DEF LookedFor
      <3>3. CASE check.stage = "programData"
        BY <1>6, <3>3, StagesInOrder DEF Found, LookedFor
      <3>4. CASE check.stage = "config"
        <4>1. Deviations \cap {"config"} = {} /\ ConfigDrift = {}
          BY <1>6, <3>4 DEF Found, ReportedDrift
        <4>2. Deviations \subseteq {"program", "hash", "authority"}
          BY <4>1 DEF Deviations
        <4> QED
          BY <3>4, <4>2, StagesInOrder DEF LookedFor
      <3>5. CASE check.stage = "score"
        BY <3>5, StagesInOrder DEF LookedFor
      <3> QED
        BY <1>1, <3>1, <3>2, <3>3, <3>4, <3>5 DEF CheckStages
    <2> QED
      BY <1>3, <1>4, <1>6, <2>1, <2>2, <2>3 DEF CheckInv, CheckThorough
  <1> QED
    BY <1>5, <1>6

\* A request that keeps failing is a problem itself.
LEMMA FailuresAreReported ==
    ASSUME CheckInv, Reading, Proceed(ProblemsOfFailure(check.stage))
    PROVE  CheckInv'
  <1> DEFINE problems == ProblemsOfFailure(check.stage)
  <1>1. /\ check \in [stage : CheckStages, attempt : Nat, failed : BOOLEAN,
                      steady : SUBSET Problems]
        /\ check.stage \in CheckStages \ {"verdict"}
    BY DEF CheckInv, CheckTypeOK, Reading
  <1>2. StageAfter(check.stage, problems) \in CheckStages
    BY <1>1, StagesInOrder DEF StageAfter, CheckStages
  <1>3. problems # {}
    BY DEF ProblemsOfFailure, WithoutProgramData
  <1>4. check' = [stage |-> StageAfter(check.stage, problems), attempt |-> 1,
                  failed |-> TRUE, steady |-> {}]
    BY <1>1, <1>3 DEF Proceed
  <1> QED
    BY <1>2, <1>4 DEF CheckInv, CheckTypeOK, CheckThorough

LEMMA CheckStepsAreThorough ==
    ASSUME DescriptorTypeOK, CheckInv, CheckStep
    PROVE  CheckInv'
  <1>1. Deviations' = Deviations
    BY DEF CheckStep, BeginCheck, RequestAnswered, RetryRequest, RequestFails,
           ExitWithVerdict, Deviations, ConfigDrift, DescriptorOfConfig, configVars
  <1>2. CASE BeginCheck
    BY <1>1, <1>2, DeviationsNamed
    DEF BeginCheck, CheckInv, CheckTypeOK, CheckThorough, CheckStages, LookedFor
  <1>3. CASE RequestAnswered
    BY <1>1, <1>3, AnswersAreThorough DEF RequestAnswered
  <1>4. CASE RetryRequest
    <2>1. check # None /\ check' = [check EXCEPT !.attempt = @ + 1]
      BY <1>4 DEF RetryRequest, Reading
    <2> QED
      BY <1>1, <2>1 DEF CheckInv, CheckTypeOK, CheckThorough
  <1>5. CASE RequestFails
    BY <1>5, FailuresAreReported DEF RequestFails
  <1>6. CASE ExitWithVerdict
    BY <1>6 DEF ExitWithVerdict, CheckInv, CheckTypeOK, CheckThorough
  <1> QED
    BY <1>2, <1>3, <1>4, <1>5, <1>6 DEF CheckStep

\* What others mend meanwhile is not steady any more; nothing else changes.
LEMMA WatchedStaysThorough ==
    ASSUME CheckInv, Watched
    PROVE  CheckInv'
  <1>1. CASE check = None
    BY <1>1 DEF Watched, CheckInv, CheckTypeOK, CheckThorough
  <1>2. CASE check # None
    <2>1. check' = [check EXCEPT !.steady = @ \cap Deviations']
      BY <1>2 DEF Watched
    <2>2. /\ check' \in [stage : CheckStages, attempt : Nat, failed : BOOLEAN,
                         steady : SUBSET Problems]
          /\ check'.steady = check.steady \cap Deviations'
          /\ check'.stage = check.stage /\ check'.failed = check.failed
      BY <1>2, <2>1 DEF CheckInv, CheckTypeOK
    <2> QED
      BY <1>2, <2>2 DEF CheckInv, CheckTypeOK, CheckThorough, LookedFor
  <1> QED
    BY <1>1, <1>2

-----------------------------------------------------------------------------
(* The configuration and the descriptor. *)

\* The configuration calls of the SDK are configuration steps.
LEMMA SdkStepsAreConfigSteps ==
    ASSUME SdkConfigStep
    PROVE  ConfigStep
  BY DEF SdkConfigStep, ConfigStep, SdkInitializeConfig, SdkUpdateConfig,
         SdkSetCertifier, SdkTransferAdmin, SdkAcceptAdmin

\* However it changes, the configuration stays within range, is never closed and
\* goes on paying the same treasury.
ConfigContinues ==
    /\ ConfigInv'
    /\ config # None => config' # None /\ config'.treasury = config.treasury
    /\ [HandoverStep]_configVars

LEMMA ConfigStepsContinue ==
    ASSUME ConfigInv, ConfigStep
    PROVE  ConfigContinues
  BY StepsOfConfig, ConfigStepsHandOver DEF ConfigStepKeeps, CountersKept, ConfigContinues

LEMMA UnchangedConfigContinues ==
    ASSUME ConfigInv, UNCHANGED <<configVars, runtimeVars>>
    PROVE  ConfigContinues
  BY DEF ConfigContinues, ConfigInv, ConfigTypeOK, ConfigInRange, RuntimeTypeOK,
         configVars, runtimeVars

LEMMA NextContinues ==
    ASSUME OperationsInv, [OperationsSystemNext]_<<runtimeVars, configVars, operationsVars>>
    PROVE  ConfigContinues
  <1>1. ConfigInv /\ (script # None => script.treasury \in TreasuryChoices)
    BY DEF OperationsInv, ScriptTypeOK
  <1>2. CASE RuntimeStep /\ UNCHANGED configVars
    <2>1. RuntimeTypeOK'
      BY <1>1, <1>2, StepsOfRuntime DEF ConfigInv
    <2> QED
      BY <1>1, <1>2, <2>1
      DEF ConfigContinues, ConfigInv, ConfigTypeOK, ConfigInRange, configVars
  <1>3. ASSUME NEW authority \in (AdminChoices \ {ZeroKey}) \cup {None},
               SetUpgradeAuthority(authority)
        PROVE  ConfigContinues
    BY <1>1, <1>3, ConfigStepsContinue DEF ConfigStep
  <1>4. CASE SdkConfigStep
    BY <1>1, <1>4, SdkStepsAreConfigSteps, ConfigStepsContinue
  <1>5. ASSUME NEW authority \in (AdminChoices \ {ZeroKey}) \cup {None},
               RotateAuthority(authority)
        PROVE  ConfigContinues
    <2>1. authority \in Keys \cup {None} /\ (config # None => config \in Config)
      BY <1>1, ConfigAssumption DEF ConfigInv, ConfigTypeOK
    <2>2. /\ config # None /\ config' = config /\ pendingAdmin' = pendingAdmin
          /\ upgradeAuthority' = authority /\ UNCHANGED runtimeVars
      BY <1>5 DEF RotateAuthority
    <2>3. ConfigInv'
      BY <1>1, <2>1, <2>2
      DEF ConfigInv, ConfigTypeOK, ConfigInRange, RuntimeTypeOK, runtimeVars
    <2>4. HandoverStep
      BY <2>1, <2>2, RuntimeAssumption DEF HandoverStep, Config
    <2> QED
      BY <2>2, <2>3, <2>4 DEF ConfigContinues
  <1>6. CASE InitializeFromScript
    <2>1. SdkConfigStep
      <3>1. script.treasury \in TreasuryChoices
        BY <1>1, <1>6 DEF InitializeFromScript, At
      <3> QED
        BY <1>6, <3>1 DEF InitializeFromScript, SdkConfigStep
    <2> QED
      BY <1>1, <2>1, SdkStepsAreConfigSteps, ConfigStepsContinue
  <1>7. CASE UNCHANGED <<configVars, runtimeVars>>
    BY <1>1, <1>7, UnchangedConfigContinues
  <1> QED
    BY <1>2, <1>3, <1>4, <1>5, <1>6, <1>7
    DEF OperationsSystemNext, Deploy, ScriptStep, BeginScript, LookForConfig,
        ReadBack, WriteDescriptor, ScriptFails, CheckStep, BeginCheck, RequestAnswered,
        RetryRequest, RequestFails, ExitWithVerdict

\* A descriptor is written from what was read of the configuration itself, which keeps
\* its treasury between the read and the write.
LEMMA ScriptsKeepDescriptor ==
    ASSUME OperationsInv, ConfigContinues,
           UNCHANGED <<script, descriptor>> \/ ScriptStep
    PROVE  ScriptTypeOK' /\ ValuesRead' /\ DescriptorTypeOK' /\ DescriptorNamesTreasury'
  <1>1. /\ ScriptTypeOK /\ ValuesRead /\ DescriptorTypeOK /\ DescriptorNamesTreasury
        /\ config # None => config' # None /\ config'.treasury = config.treasury
    BY DEF OperationsInv, ConfigContinues
  <1>2. CASE WriteDescriptor
    <2>1. /\ script # None /\ script.stage = "write"
          /\ descriptor' = script.values /\ script' = None
      BY <1>2 DEF WriteDescriptor, At
    <2>2. /\ DOMAIN descriptor' = DescriptorFields
          /\ config' # None /\ descriptor'.treasury = config'.treasury
      BY <1>1, <2>1 DEF ValuesRead
    <2> QED
      BY <2>1, <2>2 DEF ScriptTypeOK, ValuesRead, DescriptorTypeOK, DescriptorNamesTreasury
  <1>3. CASE UNCHANGED descriptor
    <2>1. DescriptorTypeOK' /\ DescriptorNamesTreasury'
      BY <1>1, <1>3 DEF DescriptorTypeOK, DescriptorNamesTreasury
    <2>2. CASE script' = script \/ script' = None
      BY <1>1, <2>1, <2>2 DEF ScriptTypeOK, ValuesRead
    <2>3. ASSUME NEW treasury \in TreasuryChoices, BeginScript(treasury)
          PROVE  ScriptTypeOK' /\ ValuesRead'
      <3>1. script' = [treasury |-> treasury, stage |-> "look", values |-> None]
        BY <2>3 DEF BeginScript
      <3> QED
        BY <3>1 DEF ScriptTypeOK, ValuesRead
    <2>4. CASE LookForConfig \/ InitializeFromScript
      <3>1. PICK stage \in {"initialize", "read"} : script' = [script EXCEPT !.stage = stage]
        BY <2>4 DEF LookForConfig, InitializeFromScript
      <3>2. script # None
        BY <2>4 DEF LookForConfig, InitializeFromScript, At
      <3>3. script' = [treasury |-> script.treasury, stage |-> stage,
                       values |-> script.values]
        BY <1>1, <3>1, <3>2 DEF ScriptTypeOK
      <3> QED
        BY <1>1, <2>1, <3>1, <3>2, <3>3 DEF ScriptTypeOK, ValuesRead
    <2>5. CASE ReadBack
      <3>1. /\ script # None /\ config # None /\ config' = config
            /\ script' = [script EXCEPT !.stage = "write", !.values = DescriptorOfConfig]
        BY <2>5 DEF ReadBack, At, configVars
      <3>2. script' = [treasury |-> script.treasury, stage |-> "write",
                       values |-> DescriptorOfConfig]
        BY <1>1, <3>1 DEF ScriptTypeOK
      <3>3. /\ DOMAIN DescriptorOfConfig = DescriptorFields
            /\ DescriptorOfConfig.treasury = config.treasury
        BY DEF DescriptorOfConfig, DescriptorFields
      <3>4. /\ script'.treasury = script.treasury /\ script'.stage = "write"
            /\ script'.values = DescriptorOfConfig
        BY <3>2
      <3>5. ScriptTypeOK'
        BY <1>1, <3>1, <3>2, <3>4 DEF ScriptTypeOK
      <3>6. ValuesRead'
        BY <3>1, <3>3, <3>4 DEF ValuesRead
      <3> QED
        BY <2>1, <3>5, <3>6
    <2> QED
      <3>1. \/ script' = script \/ script' = None
            \/ \E treasury \in TreasuryChoices : BeginScript(treasury)
            \/ LookForConfig \/ InitializeFromScript \/ ReadBack
        BY DEF ScriptStep, ScriptFails, WriteDescriptor
      <3> QED
        BY <2>1, <2>2, <2>3, <2>4, <2>5, <3>1
  <1> QED
    BY <1>2, <1>3 DEF ScriptStep, BeginScript, LookForConfig, InitializeFromScript,
                      ReadBack, ScriptFails

-----------------------------------------------------------------------------
LEMMA OperationsInitEstablishes ==
    ASSUME OperationsSystemInit
    PROVE  OperationsInv
  <1>1. RuntimeTypeOK
    BY RuntimeAssumption DEF OperationsSystemInit, ConfigSystemInit, RuntimeInit, RuntimeTypeOK
  <1>2. ConfigTypeOK /\ ConfigInRange
    BY ConfigAssumption
    DEF OperationsSystemInit, ConfigSystemInit, ConfigInit, ConfigTypeOK, ConfigInRange
  <1> QED
    BY <1>1, <1>2
    DEF OperationsSystemInit, OperationsInit, OperationsInv, ConfigInv, ScriptTypeOK,
        ValuesRead, DescriptorTypeOK, DescriptorNamesTreasury, CheckInv, CheckTypeOK, CheckThorough

LEMMA OperationsStepsKeep ==
    ASSUME OperationsInv, [OperationsSystemNext]_<<runtimeVars, configVars, operationsVars>>
    PROVE  OperationsInv'
  <1>1. ConfigContinues
    BY NextContinues
  <1>2. ScriptTypeOK' /\ ValuesRead' /\ DescriptorTypeOK' /\ DescriptorNamesTreasury'
    <2>1. UNCHANGED <<script, descriptor>> \/ ScriptStep
      BY DEF OperationsSystemNext, Deploy, RotateAuthority, CheckStep, BeginCheck,
             RequestAnswered, RetryRequest, RequestFails, ExitWithVerdict, operationsVars
    <2> QED
      BY <1>1, <2>1, ScriptsKeepDescriptor
  <1>3. CheckInv'
    <2>1. DescriptorTypeOK /\ CheckInv
      BY DEF OperationsInv
    <2>2. CASE Watched
      BY <2>1, <2>2, WatchedStaysThorough
    <2>3. CASE CheckStep
      BY <2>1, <2>3, CheckStepsAreThorough
    <2>4. CASE UNCHANGED <<runtimeVars, configVars, operationsVars>>
      BY <2>1, <2>4
      DEF CheckInv, CheckTypeOK, CheckThorough, Deviations, ConfigDrift,
          DescriptorOfConfig, configVars, operationsVars
    <2> QED
      BY <2>2, <2>3, <2>4 DEF OperationsSystemNext
  <1> QED
    BY <1>1, <1>2, <1>3 DEF OperationsInv, ConfigContinues

\* The scripts' bookkeeping and the configuration's, together: what each property
\* below follows from.
THEOREM OperationsInvariant == OperationsSystem => []OperationsInv
  <1>1. OperationsSystemInit => OperationsInv
    BY OperationsInitEstablishes
  <1>2. OperationsInv /\ [OperationsSystemNext]_<<runtimeVars, configVars, operationsVars>>
            => OperationsInv'
    BY OperationsStepsKeep
  <1> QED
    BY <1>1, <1>2, PTL DEF OperationsSystem

\* A deviation that lasts from a healthcheck's first request to its verdict makes it
\* fail, whatever is retried, fails or changes in between.
THEOREM ChecksReportWhatLasts == OperationsSystem => []SteadyDeviationFailsCheck
  <1>1. ASSUME OperationsInv PROVE SteadyDeviationFailsCheck
    <2>1. CASE check # None /\ check.stage = "verdict" /\ ~check.failed
      <3>1. check.steady \in SUBSET Problems /\ check.steady \cap Problems = {}
        BY <1>1, <2>1
        DEF OperationsInv, CheckInv, CheckTypeOK, CheckThorough, LookedFor
      <3> QED
        BY <3>1 DEF SteadyDeviationFailsCheck
    <2> QED
      BY <2>1 DEF SteadyDeviationFailsCheck
  <1> QED
    BY <1>1, OperationsInvariant, PTL

\* Whichever of several scripts initializes the configuration, the descriptor names
\* the treasury that is paid.
THEOREM DescriptorIsTrue == OperationsSystem => []DescriptorNamesTreasury
  <1>1. OperationsInv => DescriptorNamesTreasury
    BY DEF OperationsInv
  <1> QED
    BY <1>1, OperationsInvariant, PTL

\* Rotating the upgrade authority and initializing by script leave the admin role to
\* its two-step handover.
THEOREM OperatorsHandOver == OperationsSystem => AdminHandover
  <1>1. OperationsInv /\ [OperationsSystemNext]_<<runtimeVars, configVars, operationsVars>>
            => [HandoverStep]_configVars
    BY NextContinues DEF ConfigContinues
  <1>2. OperationsSystem => [][HandoverStep]_configVars
    BY <1>1, OperationsInvariant, PTL DEF OperationsSystem
  <1> QED
    BY <1>2 DEF AdminHandover
=============================================================================
