-------------------------- MODULE DemoReadsProofs ---------------------------
(***************************************************************************)
(* What a section of the demo may show, whatever the user submits and      *)
(* however late, failed or out of order its reads are answered.            *)
(***************************************************************************)
EXTENDS DemoReads, TLAPS

\* A read has been going on for one timeout at most, and has sampled the chain since
\* it was started.
ReadsOnTime ==
    \A r \in ReadIds :
        Running(r) =>
            /\ reads[r].started <= now /\ now - reads[r].started <= Timeout
            /\ reads[r].sampled # Absent =>
                   reads[r].started <= reads[r].sampled /\ reads[r].sampled <= now

\* A read for anything else has been cancelled.
CurrentReadsWanted ==
    \A r \in ReadIds : Current(r) => reads[r].key = submitted

\* A cached value was sampled at most one timeout before it was stored.
CacheOnTime ==
    \A key \in ReadKeys :
        cache[key] # Absent =>
            /\ cache[key].sampled <= cache[key].at /\ cache[key].at <= now
            /\ cache[key].at - cache[key].sampled <= Timeout

\* A section with neither data nor a failure is loading, and what it calls stale are
\* data that a failed read left.
SectionTells ==
    /\ section.status = "ready" => HasData
    /\ section.status = "error" => section.failed
    /\ section.stale => HasData /\ section.failed
    /\ HasData => section.at # Absent /\ section.sampled <= section.at
    /\ FreshWithinBounds

ReadsInv ==
    /\ ReadsTypeOK
    /\ ReadsOnTime
    /\ CurrentReadsWanted
    /\ CacheOnTime
    /\ SectionTells
    /\ ShownBelongsToSubmitted

-----------------------------------------------------------------------------
(* What is put on the page. *)

LEMMA ShowingTells ==
    ASSUME now \in Times, NEW key \in ReadKeys, NEW sampled \in Times, NEW at \in Times,
           NEW stale \in BOOLEAN, sampled <= at, stale \/ now - sampled <= TTL + Timeout,
           section' = Showing(key, sampled, at, stale)
    PROVE  /\ section' \in Section
           /\ SectionTells'
           /\ section'.key = key
  <1>1. Times \subseteq Nat /\ Absent \notin Times
    BY ReadsAssumption DEF Times
  <1>2. /\ section' = [status |-> "ready", key |-> key, sampled |-> sampled, at |-> at,
                       failed |-> stale, stale |-> stale, since |-> now]
        /\ section' \in Section
    BY DEF Showing, Section
  <1> QED
    BY <1>1, <1>2 DEF SectionTells, HasData, FreshWithinBounds

LEMMA ErrorTells ==
    ASSUME now \in Times, section' = ShowingError
    PROVE  /\ section' \in Section
           /\ SectionTells'
           /\ ~HasData'
  BY DEF ShowingError, Section, SectionTells, HasData, FreshWithinBounds

LEMMA FailureTells ==
    ASSUME ReadsTypeOK, CacheOnTime, NEW key \in ReadKeys, section' = AfterFailure(key)
    PROVE  /\ section' \in Section
           /\ SectionTells'
           /\ HasData' => section'.key = key
  <1>1. now \in Times
    BY DEF ReadsTypeOK
  <1>2. CASE cache[key] = Absent
    BY <1>1, <1>2, ErrorTells DEF AfterFailure
  <1>3. CASE cache[key] # Absent
    <2>1. /\ cache[key] \in Entry
          /\ cache[key].sampled <= cache[key].at
      BY <1>3 DEF ReadsTypeOK, CacheOnTime
    <2>2. section' = Showing(key, cache[key].sampled, cache[key].at, TRUE)
      BY <1>3 DEF AfterFailure
    <2>3. cache[key].sampled \in Times /\ cache[key].at \in Times
      BY <2>1 DEF Entry
    <2> QED
      BY <1>1, <2>1, <2>2, <2>3, ShowingTells
  <1> QED
    BY <1>2, <1>3

-----------------------------------------------------------------------------
(* The effect. *)

LEMMA CancelKeepsReads ==
    ASSUME ReadsTypeOK
    PROVE  /\ CancelCurrent \in [ReadIds -> Read \cup {Absent}]
           /\ \A r \in ReadIds :
                  /\ CancelCurrent[r] # Absent =>
                         /\ Running(r) /\ CancelCurrent[r].cancelled
                         /\ CancelCurrent[r].started = reads[r].started
                         /\ CancelCurrent[r].sampled = reads[r].sampled
  <1>1. ASSUME NEW r \in ReadIds
        PROVE  /\ CancelCurrent[r] \in Read \cup {Absent}
               /\ CancelCurrent[r] # Absent =>
                         /\ Running(r) /\ CancelCurrent[r].cancelled
                         /\ CancelCurrent[r].started = reads[r].started
                         /\ CancelCurrent[r].sampled = reads[r].sampled
    <2>1. reads[r] \in Read \cup {Absent}
      BY DEF ReadsTypeOK
    <2>2. CASE Current(r)
      <3>1. reads[r] \in Read /\ Running(r)
        BY <2>1, <2>2 DEF Current, Running
      <3>2. CancelCurrent[r] = [reads[r] EXCEPT !.cancelled = TRUE]
        BY <2>2 DEF CancelCurrent
      <3> QED
        BY <3>1, <3>2 DEF Read
    <2>3. CASE ~Current(r)
      <3>1. CancelCurrent[r] = reads[r]
        BY <2>3 DEF CancelCurrent
      <3> QED
        BY <2>1, <2>3, <3>1 DEF Current, Running, Read
    <2> QED
      BY <2>2, <2>3
  <1> QED
    BY <1>1 DEF CancelCurrent

\* A cancelled read goes on as it was, and wants nothing any more.
LEMMA CancelledReadsOnTime ==
    ASSUME ReadsTypeOK, ReadsOnTime, reads' = CancelCurrent, UNCHANGED now
    PROVE  /\ reads' \in [ReadIds -> Read \cup {Absent}]
           /\ ReadsOnTime' /\ CurrentReadsWanted'
  <1>1. /\ reads' \in [ReadIds -> Read \cup {Absent}]
        /\ \A r \in ReadIds :
               reads'[r] # Absent =>
                   /\ Running(r) /\ reads'[r].cancelled
                   /\ reads'[r].started = reads[r].started
                   /\ reads'[r].sampled = reads[r].sampled
    BY CancelKeepsReads
  <1>2. ASSUME NEW r \in ReadIds, reads'[r] # Absent
        PROVE  /\ reads'[r].started <= now' /\ now' - reads'[r].started <= Timeout
               /\ reads'[r].sampled # Absent =>
                      reads'[r].started <= reads'[r].sampled /\ reads'[r].sampled <= now'
    BY <1>1, <1>2 DEF ReadsOnTime
  <1>3. ReadsOnTime'
    BY <1>2 DEF ReadsOnTime, Running
  <1>4. CurrentReadsWanted'
    BY <1>1 DEF CurrentReadsWanted, Current, Running
  <1> QED
    BY <1>1, <1>3, <1>4

\* Whatever the effect replaces or starts, the section goes on to show something, and
\* what has no read of its own any more is shown at once.
LEMMA EffectKeepsReads ==
    ASSUME ReadsInv, NEW key \in ReadKeys, NEW force \in BOOLEAN, RunEffect(key, force),
           submitted' = key, inputs' \in 0 .. MaxInputs, UNCHANGED now
    PROVE  ReadsInv'
  <1>1. /\ ReadsTypeOK /\ ReadsOnTime /\ CacheOnTime /\ SectionTells
        /\ now \in Times /\ Times \subseteq Nat /\ Absent \notin Times
        /\ TTL \in Nat /\ Timeout \in Nat
    BY ReadsAssumption DEF ReadsInv, ReadsTypeOK, Times
  <1>2. CASE ~force /\ FreshEntry(key) /\ reads' = CancelCurrent
             /\ section' = Showing(key, cache[key].sampled, cache[key].at, FALSE)
             /\ UNCHANGED <<cache, client>>
    <2>1. /\ cache[key] \in Entry /\ now - cache[key].at <= TTL
          /\ cache[key].sampled <= cache[key].at
          /\ cache[key].at - cache[key].sampled <= Timeout
      BY <1>1, <1>2 DEF FreshEntry, ReadsTypeOK, CacheOnTime
    <2>2. cache[key].sampled \in Times /\ cache[key].at \in Times
      BY <2>1 DEF Entry
    <2>3. now - cache[key].sampled <= TTL + Timeout
      <3>1. now \in Nat /\ cache[key].sampled \in Nat /\ cache[key].at \in Nat
        BY <1>1, <2>2
      <3> QED
        BY <1>1, <2>1, <3>1
    <2>4. section' \in Section /\ SectionTells' /\ section'.key = key
      BY <1>1, <1>2, <2>1, <2>2, <2>3, ShowingTells
    <2>5. reads' \in [ReadIds -> Read \cup {Absent}] /\ ReadsOnTime' /\ CurrentReadsWanted'
      BY <1>1, <1>2, CancelledReadsOnTime
    <2>6. CacheOnTime'
      BY <1>1, <1>2 DEF CacheOnTime
    <2> QED
      BY <1>1, <1>2, <2>4, <2>5, <2>6
      DEF ReadsInv, ReadsTypeOK, ShownBelongsToSubmitted
  <1>3. CASE /\ FreeId # {}
             /\ reads' = [CancelCurrent EXCEPT ![CHOOSE r \in FreeId : TRUE] = StartedRead(key)]
             /\ cache' = IF force THEN [cache EXCEPT ![key] = Absent] ELSE cache
             /\ client' = IF client = "none" THEN "loading" ELSE client
             /\ section' = [section EXCEPT !.status = StillLoading(@)]
    <2> DEFINE id == CHOOSE r \in FreeId : TRUE
    <2>1. id \in ReadIds
      BY <1>3 DEF FreeId
    <2>2. /\ StartedRead(key) \in Read /\ StartedRead(key) # Absent
          /\ StartedRead(key).key = key /\ ~StartedRead(key).cancelled
          /\ StartedRead(key).started = now /\ StartedRead(key).sampled = Absent
      <3>1. StartedRead(key) \in Read
        BY <1>1 DEF StartedRead, Read
      <3> QED
        BY <3>1, ReadMarkerAssumption DEF StartedRead
    <2>3. /\ reads' \in [ReadIds -> Read \cup {Absent}]
          /\ reads'[id] = StartedRead(key)
          /\ \A r \in ReadIds \ {id} : reads'[r] = CancelCurrent[r]
      <3>1. CancelCurrent \in [ReadIds -> Read \cup {Absent}]
        BY <1>1, CancelKeepsReads
      <3>2. reads' = [CancelCurrent EXCEPT ![id] = StartedRead(key)]
        BY <1>3
      <3> HIDE DEF id
      <3> QED
        BY <2>1, <2>2, <3>1, <3>2
    <2> HIDE DEF id
    <2>4. ReadsOnTime'
      <3>1. ASSUME NEW r \in ReadIds, reads'[r] # Absent
            PROVE  /\ reads'[r].started <= now' /\ now' - reads'[r].started <= Timeout
                   /\ reads'[r].sampled # Absent =>
                          reads'[r].started <= reads'[r].sampled /\ reads'[r].sampled <= now'
        <4>1. CASE r = id
          <5>1. now <= now /\ now - now <= Timeout
            BY <1>1
          <5> QED
            BY <2>2, <2>3, <4>1, <5>1
        <4>2. CASE r # id
          <5>1. reads'[r] = CancelCurrent[r]
            BY <2>3, <4>2
          <5>2. /\ Running(r) /\ reads'[r].started = reads[r].started
                /\ reads'[r].sampled = reads[r].sampled
            BY <1>1, <3>1, <5>1, CancelKeepsReads
          <5> QED
            BY <1>1, <5>2 DEF ReadsOnTime
        <4> QED
          BY <4>1, <4>2
      <3> QED
        BY <3>1 DEF ReadsOnTime, Running
    <2>5. CurrentReadsWanted'
      <3>1. ASSUME NEW r \in ReadIds, reads'[r] # Absent, ~reads'[r].cancelled
            PROVE  reads'[r].key = key
        <4>1. r = id
          BY <1>1, <2>3, <3>1, CancelKeepsReads
        <4> QED
          BY <2>2, <2>3, <4>1
      <3> QED
        BY <3>1 DEF CurrentReadsWanted, Current, Running
    <2>6. ~Settled'
      BY <2>1, <2>2, <2>3 DEF Settled, Current, Running
    <2>7. cache' \in [ReadKeys -> Entry \cup {Absent}] /\ CacheOnTime'
      BY <1>1, <1>3 DEF ReadsTypeOK, CacheOnTime
    <2>8. section' \in Section /\ SectionTells'
      <3>1. section \in Section
        BY <1>1 DEF ReadsTypeOK
      <3>2. /\ section' \in Section
            /\ section'.status = (IF section.status = "ready" THEN "ready" ELSE "loading")
            /\ section'.failed = section.failed /\ section'.stale = section.stale
            /\ section'.sampled = section.sampled /\ section'.at = section.at
            /\ section'.since = section.since
        BY <1>3, <3>1 DEF Section, StillLoading
      <3> QED
        BY <1>1, <3>2 DEF SectionTells, HasData, FreshWithinBounds
    <2> QED
      BY <1>1, <1>3, <2>3, <2>4, <2>5, <2>6, <2>7, <2>8
      DEF ReadsInv, ReadsTypeOK, ShownBelongsToSubmitted
  <1> QED
    BY <1>2, <1>3 DEF RunEffect

-----------------------------------------------------------------------------
(* The reads. *)

\* Reads that end leave the others as they are.
LEMMA EndedReads ==
    ASSUME ReadsInv, NEW ids \in SUBSET ReadIds, reads' = Without(ids),
           UNCHANGED <<now, submitted>>
    PROVE  /\ reads' \in [ReadIds -> Read \cup {Absent}]
           /\ ReadsOnTime' /\ CurrentReadsWanted'
           /\ \A r \in ReadIds \ ids : Current(r)' <=> Current(r)
  <1>1. /\ reads \in [ReadIds -> Read \cup {Absent}]
        /\ ReadsOnTime /\ CurrentReadsWanted
    BY DEF ReadsInv, ReadsTypeOK
  <1>2. /\ reads' \in [ReadIds -> Read \cup {Absent}]
        /\ \A r \in ReadIds : reads'[r] = IF r \in ids THEN Absent ELSE reads[r]
    BY <1>1 DEF Without
  <1> QED
    BY <1>1, <1>2 DEF ReadsOnTime, CurrentReadsWanted, Current, Running

\* A section that is set by its own read is set to what is submitted; another read
\* leaves it alone, and settles nothing.
LEMMA EndedReadKeepsShown ==
    ASSUME ReadsInv, NEW r \in ReadIds, Running(r), reads' = Without({r}),
           UNCHANGED <<now, submitted, inputs>>,
           client' \in {"none", "loading", "ready"},
           cache' \in [ReadKeys -> Entry \cup {Absent}], CacheOnTime',
           \/ reads[r].cancelled /\ UNCHANGED section
           \/ /\ ~reads[r].cancelled
              /\ section' \in Section /\ SectionTells'
              /\ HasData' => section'.key = reads[r].key
    PROVE  ReadsInv'
  <1>1. /\ reads' \in [ReadIds -> Read \cup {Absent}]
        /\ ReadsOnTime' /\ CurrentReadsWanted'
        /\ \A s \in ReadIds \ {r} : Current(s)' <=> Current(s)
    BY EndedReads
  <1>2. section' \in Section /\ SectionTells'
    BY DEF ReadsInv, ReadsTypeOK, SectionTells, HasData, FreshWithinBounds
  <1>3. ShownBelongsToSubmitted'
    <2>1. CASE reads[r].cancelled
      <3>1. Settled' => Settled
        BY <1>1, <2>1 DEF Settled, Current
      <3> QED
        BY <2>1, <3>1 DEF ReadsInv, ShownBelongsToSubmitted, HasData
    <2>2. CASE ~reads[r].cancelled
      <3>1. reads[r].key = submitted
        BY <2>2 DEF ReadsInv, CurrentReadsWanted, Current
      <3> QED
        BY <2>2, <3>1 DEF ShownBelongsToSubmitted
    <2> QED
      BY <2>1, <2>2
  <1> QED
    BY <1>1, <1>2, <1>3 DEF ReadsInv, ReadsTypeOK

LEMMA SampleKeepsReads ==
    ASSUME ReadsInv, NEW r \in ReadIds, SampleChain(r)
    PROVE  ReadsInv'
  <1>1. /\ reads \in [ReadIds -> Read \cup {Absent}] /\ reads[r] \in Read
        /\ now \in Times /\ Absent \notin Times
        /\ Running(r) /\ reads' = [reads EXCEPT ![r].sampled = now]
        /\ UNCHANGED <<now, client, cache, submitted, section, inputs>>
    BY ReadsAssumption DEF ReadsInv, ReadsTypeOK, SampleChain, Running, Times
  <1>2. /\ reads' \in [ReadIds -> Read \cup {Absent}]
        /\ reads'[r] \in Read /\ reads'[r].sampled = now
        /\ reads'[r].key = reads[r].key /\ reads'[r].started = reads[r].started
        /\ reads'[r].cancelled = reads[r].cancelled
        /\ \A s \in ReadIds \ {r} : reads'[s] = reads[s]
    BY <1>1 DEF Read
  <1>3. \A s \in ReadIds : Current(s)' <=> Current(s)
    BY <1>1, <1>2, ReadMarkerAssumption DEF Current, Running, Read
  <1>4. ReadsOnTime'
    <2>1. ReadsOnTime /\ Times \subseteq Nat
      BY ReadsAssumption DEF ReadsInv, Times
    <2> QED
      BY <1>1, <1>2, <2>1 DEF ReadsOnTime, Running
  <1>5. CurrentReadsWanted'
    BY <1>1, <1>2, <1>3 DEF ReadsInv, CurrentReadsWanted
  <1>6. ShownBelongsToSubmitted'
    BY <1>1, <1>3 DEF ReadsInv, ShownBelongsToSubmitted, Settled, HasData
  <1> QED
    BY <1>1, <1>2, <1>4, <1>5, <1>6
    DEF ReadsInv, ReadsTypeOK, CacheOnTime, SectionTells, HasData, FreshWithinBounds

LEMMA ArriveKeepsReads ==
    ASSUME ReadsInv, NEW r \in ReadIds, Arrive(r)
    PROVE  ReadsInv'
  <1>1. /\ reads[r] \in Read /\ Running(r) /\ reads[r].sampled # Absent
        /\ reads' = Without({r}) /\ UNCHANGED <<now, client, submitted, inputs>>
        /\ cache' \in Stored(reads[r].key, reads[r].sampled)
        /\ section' = IF reads[r].cancelled THEN section
                      ELSE Showing(reads[r].key, reads[r].sampled, now, FALSE)
    BY DEF ReadsInv, ReadsTypeOK, Arrive, Running
  <1>2. /\ reads[r].key \in ReadKeys /\ reads[r].sampled \in Times
        /\ reads[r].started \in Times /\ reads[r].cancelled \in BOOLEAN
    BY <1>1 DEF Read
  <1>3. /\ now \in Times /\ Times \subseteq Nat /\ Absent \notin Times
        /\ TTL \in Nat /\ Timeout \in Nat
    BY ReadsAssumption DEF ReadsInv, ReadsTypeOK, Times
  <1>4. reads[r].sampled <= now /\ now - reads[r].sampled <= Timeout
    <2>1. /\ now - reads[r].started <= Timeout
          /\ reads[r].started <= reads[r].sampled /\ reads[r].sampled <= now
      BY <1>1 DEF ReadsInv, ReadsOnTime
    <2>2. now \in Nat /\ reads[r].started \in Nat /\ reads[r].sampled \in Nat
      BY <1>2, <1>3
    <2> QED
      BY <1>3, <2>1, <2>2
  <1>5. cache' \in [ReadKeys -> Entry \cup {Absent}] /\ CacheOnTime'
    <2>1. CASE cache' = cache
      BY <1>1, <2>1 DEF ReadsInv, ReadsTypeOK, CacheOnTime
    <2>2. CASE cache' = [cache EXCEPT ![reads[r].key] =
                            [at |-> now, sampled |-> reads[r].sampled]]
      <3>1. [at |-> now, sampled |-> reads[r].sampled] \in Entry
        BY <1>2, <1>3 DEF Entry
      <3> QED
        BY <1>1, <1>2, <1>3, <1>4, <2>2, <3>1 DEF ReadsInv, ReadsTypeOK, CacheOnTime
    <2> QED
      BY <1>1, <2>1, <2>2 DEF Stored
  <1>6. ~reads[r].cancelled =>
            section' \in Section /\ SectionTells' /\ section'.key = reads[r].key
    <2>1. now - reads[r].sampled <= TTL + Timeout
      BY <1>2, <1>3, <1>4
    <2> QED
      BY <1>1, <1>2, <1>3, <1>4, <2>1, ShowingTells
  <1> QED
    BY <1>1, <1>5, <1>6, EndedReadKeepsShown DEF ReadsInv, ReadsTypeOK

LEMMA AbandonKeepsReads ==
    ASSUME ReadsInv, NEW r \in ReadIds, Running(r), Abandon(r)
    PROVE  ReadsInv'
  <1>1. /\ reads[r] \in Read /\ reads[r].key \in ReadKeys
        /\ ReadsTypeOK /\ CacheOnTime
    BY DEF ReadsInv, ReadsTypeOK, Running, Read
  <1>2. ~reads[r].cancelled =>
            /\ section' \in Section /\ SectionTells'
            /\ HasData' => section'.key = reads[r].key
    BY <1>1, FailureTells DEF Abandon
  <1>3. cache' \in [ReadKeys -> Entry \cup {Absent}] /\ CacheOnTime'
    BY <1>1 DEF Abandon, ReadsTypeOK, CacheOnTime
  <1> QED
    BY <1>1, <1>2, <1>3, EndedReadKeepsShown DEF Abandon, ReadsTypeOK

LEMMA ClientFailureKeepsReads ==
    ASSUME ReadsInv, ClientFails
    PROVE  ReadsInv'
  <1> DEFINE ids == {r \in ReadIds : Running(r)}
  <1>1. /\ ReadsTypeOK /\ CacheOnTime /\ submitted \in ReadKeys
        /\ UNCHANGED <<now, cache, submitted, inputs>> /\ client' = "none"
        /\ reads' = Without(ids)
    BY DEF ReadsInv, ReadsTypeOK, ClientFails
  <1>2. /\ reads' \in [ReadIds -> Read \cup {Absent}]
        /\ ReadsOnTime' /\ CurrentReadsWanted'
    BY <1>1, EndedReads
  <1>3. section' \in Section /\ SectionTells' /\ ShownBelongsToSubmitted'
    <2>1. CASE \E r \in ReadIds : Current(r)
      <3>1. section' = AfterFailure(submitted)
        BY <2>1 DEF ClientFails
      <3> QED
        BY <1>1, <3>1, FailureTells DEF ShownBelongsToSubmitted
    <2>2. CASE ~ \E r \in ReadIds : Current(r)
      <3>1. section' = section /\ Settled
        BY <2>2 DEF ClientFails, Settled
      <3> QED
        BY <1>1, <3>1
        DEF ReadsInv, ReadsTypeOK, SectionTells, ShownBelongsToSubmitted, HasData,
            FreshWithinBounds
    <2> QED
      BY <2>1, <2>2
  <1> QED
    BY <1>1, <1>2, <1>3 DEF ReadsInv, ReadsTypeOK, CacheOnTime

\* Time does not pass a timer that is due.
LEMMA TickKeepsReads ==
    ASSUME ReadsInv, TimePasses
    PROVE  ReadsInv'
  <1>1. /\ now' = now + 1 /\ now' \in Times /\ now \in Times /\ Times \subseteq Nat
        /\ UNCHANGED <<client, cache, reads, submitted, section, inputs>>
        /\ Timeout \in Nat
    BY ReadsAssumption DEF ReadsInv, ReadsTypeOK, TimePasses, Times
  <1>2. ReadsOnTime'
    <2>1. ASSUME NEW r \in ReadIds, Running(r)
          PROVE  /\ reads[r].started <= now' /\ now' - reads[r].started <= Timeout
                 /\ reads[r].sampled # Absent =>
                        reads[r].started <= reads[r].sampled /\ reads[r].sampled <= now'
      <3>1. reads[r] \in Read
        BY <2>1 DEF ReadsInv, ReadsTypeOK, Running
      <3>2. reads[r].started \in Nat /\ reads[r].sampled \in Nat \cup {Absent}
        BY <1>1, <3>1 DEF Read
      <3>3. ~(now - reads[r].started >= Timeout)
        BY <2>1 DEF TimePasses, TimerDue
      <3>4. /\ reads[r].started <= now
            /\ reads[r].sampled # Absent =>
                   reads[r].started <= reads[r].sampled /\ reads[r].sampled <= now
        BY <2>1 DEF ReadsInv, ReadsOnTime
      <3> QED
        BY <1>1, <3>2, <3>3, <3>4
    <2> QED
      BY <1>1, <2>1 DEF ReadsOnTime, Running
  <1>3. CacheOnTime'
    <2>1. ASSUME NEW key \in ReadKeys, cache[key] # Absent
          PROVE  /\ cache[key].sampled <= cache[key].at /\ cache[key].at <= now'
                 /\ cache[key].at - cache[key].sampled <= Timeout
      <3>1. cache[key] \in Entry
        BY <2>1 DEF ReadsInv, ReadsTypeOK
      <3>2. cache[key].at \in Nat
        BY <1>1, <3>1 DEF Entry
      <3>3. /\ cache[key].sampled <= cache[key].at /\ cache[key].at <= now
            /\ cache[key].at - cache[key].sampled <= Timeout
        BY <2>1 DEF ReadsInv, CacheOnTime
      <3>4. cache[key].at <= now'
        BY <1>1, <3>2, <3>3
      <3> QED
        BY <3>3, <3>4
    <2> QED
      BY <1>1, <2>1 DEF CacheOnTime
  <1> QED
    BY <1>1, <1>2, <1>3
    DEF ReadsInv, ReadsTypeOK, CurrentReadsWanted, Current, Running, SectionTells,
        HasData, FreshWithinBounds, ShownBelongsToSubmitted, Settled

-----------------------------------------------------------------------------
LEMMA ReadsInitEstablishes ==
    ASSUME ReadsInit
    PROVE  ReadsInv
  <1>1. /\ 0 \in Times /\ 1 \in ReadIds /\ FirstKey \in ReadKeys
        /\ Timeout \in Nat /\ 0 \in 0 .. MaxInputs
    BY ReadsAssumption DEF Times, ReadIds
  <1>2. /\ now = 0 /\ client = "loading" /\ submitted = FirstKey /\ section = NoData
        /\ inputs = 0
        /\ reads = [r \in ReadIds |-> IF r = 1 THEN StartedRead(FirstKey) ELSE Absent]
        /\ cache \in [ReadKeys -> [at : {0}, sampled : {0}] \cup {Absent}]
    BY DEF ReadsInit
  <1>3. /\ StartedRead(FirstKey) \in Read /\ StartedRead(FirstKey).started = 0
        /\ StartedRead(FirstKey).key = FirstKey /\ StartedRead(FirstKey).sampled = Absent
    BY <1>1, <1>2 DEF StartedRead, Read
  <1>4. section \in Section /\ section.status = "loading" /\ ~HasData /\ ~section.stale
    BY <1>1, <1>2 DEF NoData, Section, HasData
  <1>5. reads \in [ReadIds -> Read \cup {Absent}] /\ ReadsOnTime /\ CurrentReadsWanted
    BY <1>1, <1>2, <1>3 DEF ReadsOnTime, CurrentReadsWanted, Current, Running
  <1>6. cache \in [ReadKeys -> Entry \cup {Absent}] /\ CacheOnTime
    <2>1. \A key \in ReadKeys : cache[key] \in [at : {0}, sampled : {0}] \cup {Absent}
      BY <1>2
    <2> QED
      BY <1>1, <1>2, <2>1 DEF Entry, CacheOnTime
  <1> QED
    BY <1>1, <1>2, <1>4, <1>5, <1>6
    DEF ReadsInv, ReadsTypeOK, SectionTells, FreshWithinBounds, ShownBelongsToSubmitted

LEMMA InputsCounted ==
    ASSUME ReadsTypeOK, Input
    PROVE  inputs' \in 0 .. MaxInputs
  BY ReadsAssumption DEF ReadsTypeOK, Input

LEMMA ReadsStepsKeep ==
    ASSUME ReadsInv, [ReadsNext]_readVars
    PROVE  ReadsInv'
  <1>1. CASE \E key \in ReadKeys : Submit(key)
    <2>1. PICK key \in ReadKeys : Submit(key)
      BY <1>1
    <2>2. RunEffect(key, FALSE) /\ submitted' = key /\ UNCHANGED now
      BY <2>1 DEF Submit
    <2>3. inputs' \in 0 .. MaxInputs
      BY <2>1, InputsCounted DEF Submit, ReadsInv
    <2> QED
      BY <2>2, <2>3, EffectKeepsReads
  <1>2. CASE Refresh
    <2>1. RunEffect(submitted, TRUE) /\ submitted' = submitted /\ UNCHANGED now
      BY <1>2 DEF Refresh
    <2>2. inputs' \in 0 .. MaxInputs /\ submitted \in ReadKeys
      BY <1>2, InputsCounted DEF Refresh, ReadsInv, ReadsTypeOK
    <2> QED
      BY <2>1, <2>2, EffectKeepsReads
  <1>3. CASE ClientLoads
    BY <1>3
    DEF ClientLoads, ReadsInv, ReadsTypeOK, ReadsOnTime, CurrentReadsWanted, Current,
        Running, CacheOnTime, SectionTells, HasData, FreshWithinBounds,
        ShownBelongsToSubmitted, Settled
  <1>4. CASE ClientFails
    BY <1>4, ClientFailureKeepsReads
  <1>5. ASSUME NEW r \in ReadIds, SampleChain(r) \/ Arrive(r) \/ ReadFails(r) \/ TimeOut(r)
        PROVE  ReadsInv'
    BY <1>5, SampleKeepsReads, ArriveKeepsReads, AbandonKeepsReads
    DEF ReadFails, TimeOut, TimerDue
  <1>6. CASE TimePasses
    BY <1>6, TickKeepsReads
  <1>7. CASE UNCHANGED readVars
    BY <1>7
    DEF readVars, ReadsInv, ReadsTypeOK, ReadsOnTime, CurrentReadsWanted, Current,
        Running, CacheOnTime, SectionTells, HasData, FreshWithinBounds,
        ShownBelongsToSubmitted, Settled
  <1> QED
    BY <1>1, <1>2, <1>3, <1>4, <1>5, <1>6, <1>7 DEF ReadsNext

\* The reads, the cache and the section, together: what each property below follows
\* from.
THEOREM ReadsInvariant == ReadsSpec => []ReadsInv
  <1>1. ReadsInit => ReadsInv
    BY ReadsInitEstablishes
  <1>2. ReadsInv /\ [ReadsNext]_readVars => ReadsInv'
    BY ReadsStepsKeep
  <1> QED
    BY <1>1, <1>2, PTL DEF ReadsSpec

\* The cache, the reads and the section keep their shape.
THEOREM ReadsTypes == ReadsSpec => []ReadsTypeOK
  <1>1. ReadsInv => ReadsTypeOK
    BY DEF ReadsInv
  <1> QED
    BY <1>1, ReadsInvariant, PTL

\* Once the read of what is submitted has settled, the data shown are that key's.
THEOREM ShownIsSubmitted == ReadsSpec => []ShownBelongsToSubmitted
  <1>1. ReadsInv => ShownBelongsToSubmitted
    BY DEF ReadsInv
  <1> QED
    BY <1>1, ReadsInvariant, PTL

\* What is shown as fresh is at most TTL and one timeout old when it is put on the
\* page.
THEOREM FreshIsRecent == ReadsSpec => []FreshWithinBounds
  <1>1. ReadsInv => FreshWithinBounds
    BY DEF ReadsInv, SectionTells
  <1> QED
    BY <1>1, ReadsInvariant, PTL

\* No panel is blank, and only data that a failed read left are called cached.
THEOREM PanelsTell == ReadsSpec => []PanelTellsTheState
  <1>1. ASSUME ReadsInv PROVE PanelTellsTheState
    <2>1. section \in Section /\ SectionTells
      BY <1>1 DEF ReadsInv, ReadsTypeOK
    <2>2. HasData \/ section.failed \/ Loading
      BY <2>1 DEF SectionTells, Section, Loading
    <2>3. ProgramPanel \cap {"skeleton", "error", "data"} # {}
      BY <2>2 DEF ProgramPanel, Parts
    <2>4. ScoreLab \cap {"skeleton", "error", "data"} # {}
      BY <2>2 DEF ScoreLab, Parts
    <2>5. DiscoveryPanel \cap {"skeleton", "error", "data"} # {}
      BY <2>2 DEF DiscoveryPanel, Parts
    <2>6. "cached" \in ScoreLab \cup ProgramPanel => section.stale
      BY <2>1 DEF ScoreLab, ProgramPanel, Parts, Section
    <2> QED
      BY <2>1, <2>3, <2>4, <2>5, <2>6 DEF PanelTellsTheState, SectionTells
  <1> QED
    BY <1>1, ReadsInvariant, PTL
=============================================================================
