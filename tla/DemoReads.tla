------------------------------ MODULE DemoReads ------------------------------
(***************************************************************************)
(* apps/web: a section of the demo page and the reads that fill it.        *)
(* lib/taop.ts answers a read from the session's cache or by requests that  *)
(* time out; shared/useDemoController.ts runs one read at a time for what   *)
(* is submitted, and drops the answers of the reads it has replaced, which  *)
(* go on and still fill the cache; shared/panels.tsx shows the outcome.     *)
(*                                                                         *)
(* Data are told apart by the key they belong to and the time they were    *)
(* sampled at on chain.  A promise that is settled at once and its handlers *)
(* are one step: nothing else runs in between.  Timers fire on time.       *)
(***************************************************************************)
EXTENDS Integers, FiniteSets

CONSTANTS
    ReadKeys,       \* what can be submitted: addresses, or capability types
    FirstKey,       \* what is submitted when the page is opened
    TTL,            \* how long a cached value is fresh
    Timeout,        \* withTimeout's bound
    Absent,           \* null, or an entry that is not there
    MaxTime,        \* bound on the clock
    MaxReads,       \* bound on the reads in progress
    MaxInputs       \* bound on what the user does

ASSUME ReadsAssumption ==
    /\ FirstKey \in ReadKeys
    /\ TTL \in Nat /\ Timeout \in Nat \ {0}
    /\ MaxTime \in Nat /\ Timeout <= MaxTime /\ MaxReads \in Nat \ {0} /\ MaxInputs \in Nat
    /\ Absent \notin Nat

VARIABLES
    now,        \* Date.now()
    client,     \* clientPromise: "none", "loading" or "ready"
    cache,      \* key -> the entry in the session's storage
    reads,      \* the reads in progress
    submitted,  \* the key the section's effect depends on
    section,    \* what useAsyncRead returns to the panel
    inputs      \* what the user has done so far

readVars == <<now, client, cache, reads, submitted, section, inputs>>

ReadIds == 1 .. MaxReads
Times == 0 .. MaxTime
Entry == [at : Times, sampled : Times]
Read == [key : ReadKeys, started : Times, sampled : Times \cup {Absent}, cancelled : BOOLEAN]
ASSUME ReadMarkerAssumption == Absent \notin Read

Section ==
    [status : {"loading", "ready", "error"}, key : ReadKeys \cup {Absent},
     sampled : Times \cup {Absent}, at : Times \cup {Absent}, failed : BOOLEAN,
     stale : BOOLEAN, since : Times]

ReadsTypeOK ==
    /\ now \in Times
    /\ client \in {"none", "loading", "ready"}
    /\ cache \in [ReadKeys -> Entry \cup {Absent}]
    /\ reads \in [ReadIds -> Read \cup {Absent}]
    /\ submitted \in ReadKeys
    /\ section \in Section
    /\ inputs \in 0 .. MaxInputs

Running(r) == reads[r] # Absent
Current(r) == Running(r) /\ ~reads[r].cancelled

-----------------------------------------------------------------------------
(* The cache *)

EntryThere(key) == cache[key] # Absent    \* mutant: an entry never expires
FreshEntry(key) == cache[key] # Absent /\ now - cache[key].at <= TTL

StoredExpiry(key, sampled) ==   \* mutant: the time it expires is stored as its time
    {cache, [cache EXCEPT ![key] = [at |-> now + TTL, sampled |-> sampled]]}
\* sessionStorage may refuse to store.
Stored(key, sampled) ==
    {cache, [cache EXCEPT ![key] = [at |-> now, sampled |-> sampled]]}

-----------------------------------------------------------------------------
(* What the section shows.  since, which the code does not have, is when it was set. *)

StillLoading(status) == IF status = "ready" THEN "ready" ELSE "loading"

Showing(key, sampled, at, stale) ==
    [status |-> "ready", key |-> key, sampled |-> sampled, at |-> at,
     failed |-> stale, stale |-> stale, since |-> now]

ShowingError ==
    [status |-> "error", key |-> Absent, sampled |-> Absent, at |-> Absent,
     failed |-> TRUE, stale |-> FALSE, since |-> now]

AlwaysStale(key) ==     \* mutant: a failure counts as stale with nothing in the cache
    IF cache[key] = Absent THEN [ShowingError EXCEPT !.stale = TRUE]
    ELSE Showing(key, cache[key].sampled, cache[key].at, TRUE)
\* A failed read serves whatever is cached, however old.
AfterFailure(key) ==
    IF cache[key] = Absent THEN ShowingError
    ELSE Showing(key, cache[key].sampled, cache[key].at, TRUE)

NoData ==
    [status |-> "loading", key |-> Absent, sampled |-> Absent, at |-> Absent,
     failed |-> FALSE, stale |-> FALSE, since |-> 0]

-----------------------------------------------------------------------------
(* The effect: the read it replaces is cancelled; a forced one removes the cached
   value; a fresh value answers at once, else the loader runs. *)

CancelNone == reads     \* mutant: the effect has no clean-up
CancelCurrent ==
    [r \in ReadIds |->
        IF Current(r) THEN [reads[r] EXCEPT !.cancelled = TRUE] ELSE reads[r]]

StartedRead(key) == [key |-> key, started |-> now, sampled |-> Absent, cancelled |-> FALSE]

FreeId == {r \in ReadIds : ~Running(r)}

RunEffect(key, force) ==
    \/ /\ ~force /\ FreshEntry(key)
       /\ reads' = CancelCurrent
       /\ section' = Showing(key, cache[key].sampled, cache[key].at, FALSE)
       /\ UNCHANGED <<cache, client>>
    \/ /\ force \/ ~FreshEntry(key)
       /\ FreeId # {}
       /\ reads' = [CancelCurrent EXCEPT ![CHOOSE r \in FreeId : TRUE] = StartedRead(key)]
       /\ cache' = IF force THEN [cache EXCEPT ![key] = Absent] ELSE cache
       /\ client' = IF client = "none" THEN "loading" ELSE client
       /\ section' = [section EXCEPT !.status = StillLoading(@)]

\* The first effect is forced, too.
ReadsInit ==
    /\ now = 0
    /\ client = "loading"
    /\ cache \in [ReadKeys -> [at : {0}, sampled : {0}] \cup {Absent}]
    /\ cache[FirstKey] = Absent
    /\ reads = [r \in ReadIds |-> IF r = 1 THEN StartedRead(FirstKey) ELSE Absent]
    /\ submitted = FirstKey
    /\ section = NoData
    /\ inputs = 0

\* What is submitted late would not see its timers fire within MaxTime.
Input ==
    /\ inputs < MaxInputs /\ now + Timeout <= MaxTime
    /\ inputs' = inputs + 1

\* lookup, search: nothing happens when the key is the same.
Submit(key) ==
    /\ Input
    /\ key # submitted
    /\ submitted' = key
    /\ RunEffect(key, FALSE)
    /\ UNCHANGED now

Refresh ==
    /\ Input
    /\ RunEffect(submitted, TRUE)
    /\ UNCHANGED <<submitted, now>>

-----------------------------------------------------------------------------
(* getClient: one shared promise, dropped when it is rejected. *)

ClientLoads ==
    /\ client = "loading"
    /\ client' = "ready"
    /\ UNCHANGED <<now, cache, reads, submitted, section, inputs>>

Without(ids) == [r \in ReadIds |-> IF r \in ids THEN Absent ELSE reads[r]]

\* Every read that waits for it fails.
ClientFails ==
    /\ client = "loading"
    /\ client' = "none"
    /\ reads' = Without({r \in ReadIds : Running(r)})
    /\ section' = IF \E r \in ReadIds : Current(r) THEN AfterFailure(submitted) ELSE section
    /\ UNCHANGED <<now, cache, submitted, inputs>>

-----------------------------------------------------------------------------
(* A read's requests: the chain is sampled, then the answer arrives, a request
   fails, or the time is up and an answer no longer matters. *)

SampleChain(r) ==
    /\ Running(r) /\ reads[r].sampled = Absent
    /\ client = "ready"
    /\ reads' = [reads EXCEPT ![r].sampled = now]
    /\ UNCHANGED <<now, client, cache, submitted, section, inputs>>

Arrive(r) ==
    /\ Running(r) /\ reads[r].sampled # Absent
    /\ cache' \in Stored(reads[r].key, reads[r].sampled)
    /\ section' = IF reads[r].cancelled THEN section
                  ELSE Showing(reads[r].key, reads[r].sampled, now, FALSE)
    /\ reads' = Without({r})
    /\ UNCHANGED <<now, client, submitted, inputs>>

Abandon(r) ==
    /\ section' = IF reads[r].cancelled THEN section ELSE AfterFailure(reads[r].key)
    /\ reads' = Without({r})
    /\ UNCHANGED <<now, client, cache, submitted, inputs>>

ReadFails(r) ==
    /\ Running(r) /\ client = "ready"
    /\ Abandon(r)

NeverDue(r) == FALSE    \* mutant: no timer is set
TimerDue(r) == Running(r) /\ now - reads[r].started >= Timeout

TimeOut(r) ==
    /\ TimerDue(r)
    /\ Abandon(r)

\* MaxTime bounds the clock.
TimePasses ==
    /\ now < MaxTime
    /\ \A r \in ReadIds : ~TimerDue(r)
    /\ now' = now + 1
    /\ UNCHANGED <<client, cache, reads, submitted, section, inputs>>

-----------------------------------------------------------------------------
ReadsNext ==
    \/ \E key \in ReadKeys : Submit(key)
    \/ Refresh
    \/ ClientLoads \/ ClientFails
    \/ \E r \in ReadIds : SampleChain(r) \/ Arrive(r) \/ ReadFails(r) \/ TimeOut(r)
    \/ TimePasses

ReadsSpec == ReadsInit /\ [][ReadsNext]_readVars

\* Time passes and timers fire; nothing is assumed of the network or of the user.
FairReadsSpec ==
    /\ ReadsSpec
    /\ WF_readVars(TimePasses)
    /\ \A r \in ReadIds : WF_readVars(TimeOut(r))

-----------------------------------------------------------------------------
(* The panels: which of their parts are on the page. *)

Loading == section.status = "loading"
HasData == section.sampled # Absent

Parts(conditions) == {part \in DOMAIN conditions : conditions[part]}

ProgramPanel ==
    Parts([skeleton |-> Loading /\ ~HasData, error |-> section.failed /\ ~HasData,
           data |-> HasData, cached |-> HasData /\ section.stale])

ScoreLab ==
    Parts([skeleton |-> Loading /\ ~HasData, error |-> section.failed /\ ~HasData,
           data |-> HasData, cached |-> section.stale])

\* The discovery panel does not say that what it lists is cached.
DiscoveryPanel ==
    Parts([skeleton |-> Loading /\ ~HasData, error |-> section.failed /\ ~HasData,
           data |-> HasData])

-----------------------------------------------------------------------------
(* Properties *)

Settled == ~ \E r \in ReadIds : Current(r)

\* Answers come in any order, and some long after another key was submitted: once the
\* read of what is submitted is settled, the data shown are that key's.
ShownBelongsToSubmitted ==
    Settled /\ HasData => section.key = submitted

\* What is shown as fresh was on chain at most TTL and one timeout before it was put on
\* the page, although a replaced read that answers late may have put an older value in
\* the cache than the one it overwrote.
FreshWithinBounds ==
    HasData /\ ~section.stale => section.since - section.sampled <= TTL + Timeout

\* No panel is ever blank, and one says "showing cached" only of data that it shows
\* after a read that failed.
PanelTellsTheState ==
    /\ \A panel \in {ProgramPanel, ScoreLab, DiscoveryPanel} :
           panel \cap {"skeleton", "error", "data"} # {}
    /\ "cached" \in ScoreLab \cup ProgramPanel =>
           HasData /\ section.failed /\ section.sampled <= section.at

\* A page does not load for ever: requests that are never answered are given up, and
\* what the panel then shows is data or an error.
LoadingEnds == Loading ~> ~Loading
=============================================================================
