----------------------- MODULE WebhookDispatcherProofs -----------------------
(* Nothing is skipped, for any number of processes, crashes and retries, as    *)
(* long as the history fits the MaxPages * Limit signatures a pass can see.    *)
EXTENDS WebhookDispatcher, TLAPS

WindowCoversHistory == MaxPages * Limit >= MaxTx

TypesOK ==
  /\ chain \in Seq(0..MaxEvents)
  /\ Len(chain) <= MaxTx
  /\ pc \in [Dispatchers -> PCs]
  /\ cursor \in [Dispatchers -> Nat]
  /\ pass \in [Dispatchers -> [next : Nat \ {0}, last : Nat, event : Nat \ {0}, tries : Nat]]
  /\ file \in Int
  /\ temp \in Int

(* Wherever a process may resume from, everything before it is settled. *)
CursorsCovered ==
  /\ Covered(chain, settled, Loaded(file))
  /\ Covered(chain, settled, Loaded(temp))
  /\ \A d \in Dispatchers : Covered(chain, settled, cursor[d])

InPass(d) == pc[d] \in {"fetch", "deliver", "write", "rename"}

(* A pass has settled all that precedes the transaction it is about to handle,
   and the events of it that it has been through. *)
PassCovered ==
  \A d \in Dispatchers : InPass(d) =>
    /\ pass[d].last <= Len(chain)
    /\ Covered(chain, settled, pass[d].next - 1)
    /\ pc[d] # "deliver" => pass[d].event = 1
    /\ pc[d] = "deliver" =>
         /\ pass[d].next <= pass[d].last
         /\ \A i \in 1..(pass[d].event - 1) : <<pass[d].next, i>> \in settled

WebhookInv == TypesOK /\ CursorsCovered /\ PassCovered

-----------------------------------------------------------------------------
LEMMA CoveredNone ==
  ASSUME NEW ch \in Seq(0..MaxEvents), NEW s
  PROVE  Covered(ch, s, 0)
BY DEF Covered

(* Settling more events uncovers nothing. *)
LEMMA CoveredMore ==
  ASSUME NEW ch \in Seq(0..MaxEvents), NEW s, NEW s2, s \subseteq s2,
         NEW c, Covered(ch, s, c)
  PROVE  Covered(ch, s2, c)
BY DEF Covered

(* Landing a transaction uncovers nothing. *)
LEMMA CoveredLonger ==
  ASSUME NEW ch \in Seq(0..MaxEvents), NEW s, NEW n \in 0..MaxEvents,
         NEW c, Covered(ch, s, c)
  PROVE  Covered(Append(ch, n), s, c)
<1>1. Len(Append(ch, n)) = Len(ch) + 1
  OBVIOUS
<1>2. \A t \in 1..c : t \in 1..Len(ch)
  BY DEF Covered
<1>3. \A t \in 1..Len(ch) : Append(ch, n)[t] = ch[t]
  OBVIOUS
<1> QED
  BY <1>1, <1>2, <1>3 DEF Covered

(* The transaction after a covered prefix extends it once its events are settled. *)
LEMMA CoveredNext ==
  ASSUME NEW ch \in Seq(0..MaxEvents), NEW s, NEW c \in 1..Len(ch),
         Covered(ch, s, c - 1), \A i \in 1..ch[c] : <<c, i>> \in s
  PROVE  Covered(ch, s, c)
BY DEF Covered

(* A pass starts no later than just after its cursor, or at the beginning. *)
LEMMA FreshFollowsCovered ==
  ASSUME WindowCoversHistory, NEW ch \in Seq(0..MaxEvents), Len(ch) <= MaxTx,
         NEW s, NEW c \in Nat, Covered(ch, s, c), NEW seen \in 0..Len(ch)
  PROVE  /\ FirstFresh(seen, c) \in Nat \ {0}
         /\ Covered(ch, s, FirstFresh(seen, c) - 1)
<1> DEFINE W == MaxPages * Limit
<1>1. W \in Nat /\ MaxTx \in Nat /\ W >= MaxTx
  BY WebhookAssumption DEF WindowCoversHistory
<1> HIDE DEF W
<1>2. CASE c \in 1..seen
  <2>1. FirstFresh(seen, c) = c + 1
    BY <1>1, <1>2 DEF FirstFresh, W
  <2> QED
    BY <2>1
<1>3. CASE c \notin 1..seen
  <2>1. FirstFresh(seen, c) = 1
    BY <1>1, <1>3 DEF FirstFresh, W
  <2> QED
    BY <2>1, CoveredNone
<1> QED
  BY <1>2, <1>3

LEMMA LoadedNat ==
  ASSUME NEW content \in Int
  PROVE  Loaded(content) \in Nat
BY DEF Loaded, None

-----------------------------------------------------------------------------
LEMMA WebhookInvInit == WebhookInit => WebhookInv
<1> SUFFICES ASSUME WebhookInit PROVE WebhookInv
  OBVIOUS
<1>1. TypesOK
  <2>1. NoPass \in [next : Nat \ {0}, last : Nat, event : Nat \ {0}, tries : Nat]
    BY DEF NoPass
  <2> QED
    BY <2>1, WebhookAssumption DEF WebhookInit, TypesOK, PCs, Absent, None
<1>2. CursorsCovered
  BY DEF WebhookInit, CursorsCovered, Covered, Loaded, None, Absent
<1>3. PassCovered
  BY DEF WebhookInit, PassCovered, InPass
<1> QED
  BY <1>1, <1>2, <1>3 DEF WebhookInv
-----------------------------------------------------------------------------
Passes == [next : Nat \ {0}, last : Nat, event : Nat \ {0}, tries : Nat]

LEMMA PassFields ==
  ASSUME NEW p, p \in Passes
  PROVE  /\ p.next \in Nat \ {0} /\ p.last \in Nat
         /\ p.event \in Nat \ {0} /\ p.tries \in Nat
BY DEF Passes

(* The updates of a pass, field by field. *)
LEMMA OneUpdate ==
  ASSUME NEW p, p \in Passes, NEW v
  PROVE  /\ [p EXCEPT !.next = v] = [next |-> v, last |-> p.last, event |-> p.event, tries |-> p.tries]
         /\ [p EXCEPT !.event = v] = [next |-> p.next, last |-> p.last, event |-> v, tries |-> p.tries]
         /\ [p EXCEPT !.tries = v] = [next |-> p.next, last |-> p.last, event |-> p.event, tries |-> v]
<1>1. [p EXCEPT !.next = v] = [next |-> v, last |-> p.last, event |-> p.event, tries |-> p.tries]
  BY DEF Passes
<1>2. [p EXCEPT !.event = v] = [next |-> p.next, last |-> p.last, event |-> v, tries |-> p.tries]
  BY DEF Passes
<1>3. [p EXCEPT !.tries = v] = [next |-> p.next, last |-> p.last, event |-> p.event, tries |-> v]
  BY DEF Passes
<1> QED
  BY <1>1, <1>2, <1>3

LEMMA PassUpdates ==
  ASSUME NEW p, p \in Passes
  PROVE  /\ [p EXCEPT !.event = @ + 1, !.tries = 0] =
              [next |-> p.next, last |-> p.last, event |-> p.event + 1, tries |-> 0]
         /\ [p EXCEPT !.tries = @ + 1] =
              [next |-> p.next, last |-> p.last, event |-> p.event, tries |-> p.tries + 1]
         /\ [p EXCEPT !.next = @ + 1, !.event = 1] =
              [next |-> p.next + 1, last |-> p.last, event |-> 1, tries |-> p.tries]
<1>0. p.next \in Nat \ {0} /\ p.last \in Nat /\ p.event \in Nat \ {0} /\ p.tries \in Nat
  BY PassFields
<1>1. [p EXCEPT !.event = @ + 1, !.tries = 0] =
        [next |-> p.next, last |-> p.last, event |-> p.event + 1, tries |-> 0]
  <2> DEFINE r == [p EXCEPT !.event = @ + 1]
  <2>1. r = [next |-> p.next, last |-> p.last, event |-> p.event + 1, tries |-> p.tries]
    BY OneUpdate
  <2>2. [p EXCEPT !.event = @ + 1, !.tries = 0] = [r EXCEPT !.tries = 0]
    BY DEF Passes
  <2> HIDE DEF r
  <2>3. r \in Passes
    BY <1>0, <2>1 DEF Passes
  <2>4. [r EXCEPT !.tries = 0] = [next |-> r.next, last |-> r.last, event |-> r.event, tries |-> 0]
    BY <2>3, OneUpdate
  <2>5. r.next = p.next /\ r.last = p.last /\ r.event = p.event + 1
    BY <2>1
  <2> QED
    BY <2>2, <2>4, <2>5
<1>2. [p EXCEPT !.tries = @ + 1] =
        [next |-> p.next, last |-> p.last, event |-> p.event, tries |-> p.tries + 1]
  BY OneUpdate
<1>3. [p EXCEPT !.next = @ + 1, !.event = 1] =
        [next |-> p.next + 1, last |-> p.last, event |-> 1, tries |-> p.tries]
  <2> DEFINE r == [p EXCEPT !.next = @ + 1]
  <2>1. r = [next |-> p.next + 1, last |-> p.last, event |-> p.event, tries |-> p.tries]
    BY OneUpdate
  <2>2. [p EXCEPT !.next = @ + 1, !.event = 1] = [r EXCEPT !.event = 1]
    BY DEF Passes
  <2> HIDE DEF r
  <2>3. r \in Passes
    BY <1>0, <2>1 DEF Passes
  <2>4. [r EXCEPT !.event = 1] = [next |-> r.next, last |-> r.last, event |-> 1, tries |-> r.tries]
    BY <2>3, OneUpdate
  <2>5. r.next = p.next + 1 /\ r.last = p.last /\ r.tries = p.tries
    BY <2>1
  <2> QED
    BY <2>2, <2>4, <2>5
<1> QED
  BY <1>1, <1>2, <1>3

LEMMA NoPassTyped == NoPass \in Passes
BY DEF NoPass, Passes

LEMMA LandKeeps ==
  ASSUME WebhookInv, NEW n \in 0..MaxEvents, Land(n)
  PROVE  WebhookInv'
<1> USE DEF Land, Disk
<1>1. chain \in Seq(0..MaxEvents)
  BY DEF WebhookInv, TypesOK
<1>2. chain' \in Seq(0..MaxEvents) /\ Len(chain') = Len(chain) + 1 /\ Len(chain') <= MaxTx
  BY <1>1, WebhookAssumption
<1>3. TypesOK'
  BY <1>2 DEF WebhookInv, TypesOK
<1>4. CursorsCovered'
  <2>1. \A c : Covered(chain, settled, c) => Covered(chain', settled', c)
    BY <1>1, CoveredLonger
  <2> QED
    BY <2>1 DEF WebhookInv, CursorsCovered
<1>5. PassCovered'
  <2>1. \A c : Covered(chain, settled, c) => Covered(chain', settled', c)
    BY <1>1, CoveredLonger
  <2>2. pc' = pc /\ pass' = pass /\ settled' = settled /\ Len(chain) <= Len(chain')
    BY <1>1, <1>2
  <2>3. \A d \in Dispatchers : pass[d].last \in Nat
    BY DEF WebhookInv, TypesOK
  <2>4. Len(chain) \in Nat /\ Len(chain') \in Nat
    BY <1>1, <1>2
  <2>5. \A d \in Dispatchers : pass[d].last <= Len(chain) => pass[d].last <= Len(chain')
    BY <2>2, <2>3, <2>4
  <2> QED
    BY <2>1, <2>2, <2>5 DEF WebhookInv, PassCovered, InPass
<1> QED
  BY <1>3, <1>4, <1>5 DEF WebhookInv

LEMMA StartKeeps ==
  ASSUME WebhookInv, NEW d \in Dispatchers, Start(d)
  PROVE  WebhookInv'
<1> USE DEF Start, Disk
<1>1. Loaded(file) \in Nat
  BY LoadedNat DEF WebhookInv, TypesOK
<1>2. TypesOK'
  BY <1>1 DEF WebhookInv, TypesOK, PCs
<1>3. CursorsCovered'
  BY DEF WebhookInv, CursorsCovered, TypesOK
<1>4. PassCovered'
  BY DEF WebhookInv, PassCovered, InPass, TypesOK
<1> QED
  BY <1>2, <1>3, <1>4 DEF WebhookInv

LEMMA CollectKeeps ==
  ASSUME WindowCoversHistory, WebhookInv, NEW d \in Dispatchers, Collect(d)
  PROVE  WebhookInv'
<1> USE DEF Disk
<1>1. PICK seen \in {s \in (Len(chain) - MaxLag)..Len(chain) : s >= 0} :
        pass' = [pass EXCEPT ![d] = [next |-> FirstFresh(seen, cursor[d]),
                                     last |-> seen, event |-> 1, tries |-> 0]]
  BY DEF Collect
<1>2. chain \in Seq(0..MaxEvents) /\ Len(chain) <= MaxTx /\ Len(chain) \in Nat
  BY DEF WebhookInv, TypesOK
<1>3. seen \in 0..Len(chain)
  BY <1>2, WebhookAssumption
<1>4. cursor[d] \in Nat /\ Covered(chain, settled, cursor[d])
  BY DEF WebhookInv, TypesOK, CursorsCovered
<1> DEFINE first == FirstFresh(seen, cursor[d])
<1>5. first \in Nat \ {0} /\ Covered(chain, settled, first - 1)
  BY <1>2, <1>3, <1>4, FreshFollowsCovered
<1> HIDE DEF first
<1> DEFINE p == [next |-> first, last |-> seen, event |-> 1, tries |-> 0]
<1>6. p \in Passes
  BY <1>3, <1>5 DEF Passes
<1>7. pass' = [pass EXCEPT ![d] = p]
  BY <1>1 DEF first
<1>8. p.next = first /\ p.last = seen /\ p.event = 1
  OBVIOUS
<1> HIDE DEF p
<1>9. UNCHANGED <<chain, settled, cursor, file, temp>> /\ pc' = [pc EXCEPT ![d] = "fetch"]
  BY DEF Collect
<1>10. pass' \in [Dispatchers -> Passes]
  BY <1>6, <1>7 DEF WebhookInv, TypesOK, Passes
<1>11. TypesOK'
  BY <1>9, <1>10 DEF WebhookInv, TypesOK, PCs, Passes
<1>12. CursorsCovered'
  BY <1>9 DEF WebhookInv, CursorsCovered
<1>13. PassCovered'
  <2> SUFFICES ASSUME NEW e \in Dispatchers, InPass(e)'
               PROVE  /\ pass'[e].last <= Len(chain)
                      /\ Covered(chain, settled, pass'[e].next - 1)
                      /\ pc'[e] # "deliver" => pass'[e].event = 1
                      /\ pc'[e] = "deliver" =>
                           /\ pass'[e].next <= pass'[e].last
                           /\ \A i \in 1..(pass'[e].event - 1) : <<pass'[e].next, i>> \in settled
    BY <1>9 DEF PassCovered
  <2>1. CASE e = d
    <3>1. pass'[e] = p /\ pc'[e] = "fetch"
      BY <1>7, <1>9, <2>1 DEF WebhookInv, TypesOK
    <3> QED
      BY <3>1, <1>3, <1>5, <1>8
  <2>2. CASE e # d
    <3>1. pass'[e] = pass[e] /\ pc'[e] = pc[e]
      BY <1>7, <1>9, <2>2 DEF WebhookInv, TypesOK
    <3> QED
      BY <3>1 DEF WebhookInv, PassCovered, InPass
  <2> QED
    BY <2>1, <2>2
<1> QED
  BY <1>11, <1>12, <1>13 DEF WebhookInv

(* What a pass that ends leaves behind, whichever way it ends. *)
LEMMA EndKeeps ==
  ASSUME WebhookInv, NEW d \in Dispatchers, NEW where \in {"down", "idle"},
         pc' = [pc EXCEPT ![d] = where], pass' = [pass EXCEPT ![d] = NoPass],
         UNCHANGED <<chain, settled, cursor, file, temp>>
  PROVE  WebhookInv'
<1>1. TypesOK'
  BY NoPassTyped DEF WebhookInv, TypesOK, PCs, Passes
<1>2. CursorsCovered'
  BY DEF WebhookInv, CursorsCovered
<1>3. PassCovered'
  <2>1. \A e \in Dispatchers : InPass(e)' => e # d /\ InPass(e) /\ pc'[e] = pc[e] /\ pass'[e] = pass[e]
    BY DEF InPass, WebhookInv, TypesOK
  <2> QED
    BY <2>1 DEF WebhookInv, PassCovered
<1> QED
  BY <1>1, <1>2, <1>3 DEF WebhookInv

LEMMA FetchKeeps ==
  ASSUME WebhookInv, NEW d \in Dispatchers, Fetch(d)
  PROVE  WebhookInv'
<1> USE DEF Fetch, Disk
<1>1. TypesOK'
  BY DEF WebhookInv, TypesOK, PCs
<1>2. CursorsCovered'
  BY DEF WebhookInv, CursorsCovered
<1>3. PassCovered'
  BY DEF WebhookInv, PassCovered, InPass, TypesOK
<1> QED
  BY <1>1, <1>2, <1>3 DEF WebhookInv

LEMMA DeliverKeeps ==
  ASSUME WebhookInv, NEW d \in Dispatchers, NEW answered \in BOOLEAN, Deliver(d, answered)
  PROVE  WebhookInv'
<1> DEFINE p == pass[d]
           done == answered \/ p.tries + 1 = MaxAttempts
           q == IF done THEN [p EXCEPT !.event = @ + 1, !.tries = 0]
                        ELSE [p EXCEPT !.tries = @ + 1]
<1>1. p \in Passes
  BY DEF WebhookInv, TypesOK, Passes
<1>2. /\ q \in Passes /\ q.next = p.next /\ q.last = p.last
      /\ q.event = IF done THEN p.event + 1 ELSE p.event
  <2>1. p.next \in Nat \ {0} /\ p.last \in Nat /\ p.event \in Nat \ {0} /\ p.tries \in Nat
    BY <1>1, PassFields
  <2>3. [p EXCEPT !.event = @ + 1, !.tries = 0] =
          [next |-> p.next, last |-> p.last, event |-> p.event + 1, tries |-> 0]
    BY <1>1, PassUpdates
  <2>4. [p EXCEPT !.tries = @ + 1] =
          [next |-> p.next, last |-> p.last, event |-> p.event, tries |-> p.tries + 1]
    BY <1>1, PassUpdates
  <2> HIDE DEF p, done
  <2>5. CASE done
    <3>1. q = [next |-> p.next, last |-> p.last, event |-> p.event + 1, tries |-> 0]
      BY <2>3, <2>5
    <3> HIDE DEF q
    <3> QED
      BY <2>1, <2>5, <3>1 DEF Passes
  <2>6. CASE ~done
    <3>1. q = [next |-> p.next, last |-> p.last, event |-> p.event, tries |-> p.tries + 1]
      BY <2>4, <2>6
    <3> HIDE DEF q
    <3> QED
      BY <2>1, <2>6, <3>1 DEF Passes
  <2> QED
    BY <2>5, <2>6
<1>3. /\ UNCHANGED <<chain, pc, cursor, file, temp>>
      /\ pass' = [pass EXCEPT ![d] = q]
      /\ settled' = IF done THEN settled \cup {<<p.next, p.event>>} ELSE settled
      /\ pc[d] = "deliver"
  BY DEF Deliver, Disk
<1>4. settled \subseteq settled'
  BY <1>3
<1>5. chain \in Seq(0..MaxEvents)
  BY DEF WebhookInv, TypesOK
<1>6. \A c : Covered(chain, settled, c) => Covered(chain, settled', c)
  BY <1>4, <1>5, CoveredMore
<1>7. p.event \in Nat \ {0}
  BY <1>1, PassFields
<1>8. TypesOK'
  BY <1>2, <1>3 DEF WebhookInv, TypesOK, Passes
<1>9. CursorsCovered'
  BY <1>3, <1>6 DEF WebhookInv, CursorsCovered
<1>10. PassCovered'
  <2> SUFFICES ASSUME NEW e \in Dispatchers, InPass(e)'
               PROVE  /\ pass'[e].last <= Len(chain)
                      /\ Covered(chain, settled', pass'[e].next - 1)
                      /\ pc[e] # "deliver" => pass'[e].event = 1
                      /\ pc[e] = "deliver" =>
                           /\ pass'[e].next <= pass'[e].last
                           /\ \A i \in 1..(pass'[e].event - 1) : <<pass'[e].next, i>> \in settled'
    BY <1>3 DEF PassCovered
  <2>1. InPass(e) /\ (/\ pass[e].last <= Len(chain)
                      /\ Covered(chain, settled', pass[e].next - 1)
                      /\ pc[e] # "deliver" => pass[e].event = 1
                      /\ pc[e] = "deliver" =>
                           /\ pass[e].next <= pass[e].last
                           /\ \A i \in 1..(pass[e].event - 1) : <<pass[e].next, i>> \in settled')
    BY <1>3, <1>4, <1>6 DEF WebhookInv, PassCovered, InPass
  <2>2. CASE e # d
    <3>1. pass'[e] = pass[e]
      BY <1>3, <2>2 DEF WebhookInv, TypesOK
    <3> QED
      BY <2>1, <3>1
  <2>3. CASE e = d
    <3>1. pass'[e] = q
      BY <1>3, <2>3 DEF WebhookInv, TypesOK
    <3>2. \A i \in 1..(q.event - 1) : <<p.next, i>> \in settled'
      <4>1. CASE done
        <5>1. \A i \in 1..(q.event - 1) : i = p.event \/ i \in 1..(p.event - 1)
          BY <1>2, <1>7, <4>1
        <5> QED
          BY <1>3, <2>1, <2>3, <4>1, <5>1
      <4>2. CASE ~done
        BY <1>2, <1>3, <2>1, <2>3, <4>2
      <4> QED
        BY <4>1, <4>2
    <3> HIDE DEF q
    <3> QED
      BY <1>2, <1>3, <2>1, <2>3, <3>1, <3>2
  <2> QED
    BY <2>2, <2>3
<1> QED
  BY <1>8, <1>9, <1>10 DEF WebhookInv

LEMMA AdvanceKeeps ==
  ASSUME WebhookInv, NEW d \in Dispatchers, Advance(d)
  PROVE  WebhookInv'
<1> DEFINE p == pass[d]
           q == [p EXCEPT !.next = @ + 1, !.event = 1]
<1>1. p \in Passes /\ p.next \in Nat \ {0} /\ p.event \in Nat \ {0} /\ p.last \in Nat
  <2>1. p \in Passes
    BY DEF WebhookInv, TypesOK, Passes
  <2> QED
    BY <2>1, PassFields
<1>2. chain \in Seq(0..MaxEvents) /\ Len(chain) \in Nat
  BY DEF WebhookInv, TypesOK
<1>3. /\ UNCHANGED <<chain, settled, file>>
      /\ pass' = [pass EXCEPT ![d] = q]
      /\ cursor' = [cursor EXCEPT ![d] = p.next]
      /\ pc' = [pc EXCEPT ![d] = "write"]
      /\ temp' = Truncated
      /\ pc[d] = "deliver" /\ p.event > chain[p.next]
  BY DEF Advance
<1>4. q = [next |-> p.next + 1, last |-> p.last, event |-> 1, tries |-> p.tries]
  BY <1>1, PassUpdates
<1>5. p.tries \in Nat
  BY <1>1, PassFields
<1>6. Covered(chain, settled, p.next)
  <2>1. /\ p.last <= Len(chain) /\ Covered(chain, settled, p.next - 1) /\ p.next <= p.last
        /\ \A i \in 1..(p.event - 1) : <<p.next, i>> \in settled
    BY <1>3 DEF WebhookInv, PassCovered, InPass
  <2>2. p.next \in 1..Len(chain)
    BY <1>1, <1>2, <2>1
  <2>3. chain[p.next] \in Nat
    BY <1>2, <2>2, WebhookAssumption
  <2>4. \A i \in 1..chain[p.next] : i \in 1..(p.event - 1)
    BY <1>1, <1>3, <2>3
  <2> HIDE DEF p
  <2> QED
    BY <1>2, <2>1, <2>2, <2>4, CoveredNext
<1>7. p.last <= Len(chain)
  BY <1>3 DEF WebhookInv, PassCovered, InPass
<1> HIDE DEF q
<1>8. q \in Passes
  BY <1>1, <1>4, <1>5 DEF Passes
<1>9. TypesOK'
  <2>1. pass' \in [Dispatchers -> Passes]
    BY <1>3, <1>8 DEF WebhookInv, TypesOK, Passes
  <2>2. temp' \in Int
    BY <1>3 DEF Truncated
  <2> QED
    BY <1>1, <1>3, <2>1, <2>2 DEF WebhookInv, TypesOK, PCs, Passes
<1>10. CursorsCovered'
  <2>1. Covered(chain, settled, Loaded(temp'))
    BY <1>2, <1>3, CoveredNone DEF Loaded, Truncated, None
  <2>2. \A e \in Dispatchers : Covered(chain, settled, cursor'[e])
    BY <1>3, <1>6 DEF WebhookInv, TypesOK, CursorsCovered
  <2> QED
    BY <1>3, <2>1, <2>2 DEF WebhookInv, CursorsCovered
<1>11. PassCovered'
  <2> SUFFICES ASSUME NEW e \in Dispatchers, InPass(e)'
               PROVE  /\ pass'[e].last <= Len(chain)
                      /\ Covered(chain, settled, pass'[e].next - 1)
                      /\ pc'[e] # "deliver" => pass'[e].event = 1
                      /\ pc'[e] = "deliver" =>
                           /\ pass'[e].next <= pass'[e].last
                           /\ \A i \in 1..(pass'[e].event - 1) : <<pass'[e].next, i>> \in settled
    BY <1>3 DEF PassCovered
  <2>1. CASE e = d
    <3>1. pass'[e] = q /\ pc'[e] = "write"
      BY <1>3, <2>1 DEF WebhookInv, TypesOK
    <3>2. q.last = p.last /\ q.next - 1 = p.next /\ q.event = 1
      BY <1>1, <1>4
    <3> QED
      BY <1>6, <1>7, <3>1, <3>2
  <2>2. CASE e # d
    <3>1. pass'[e] = pass[e] /\ pc'[e] = pc[e]
      BY <1>3, <2>2 DEF WebhookInv, TypesOK
    <3> QED
      BY <3>1 DEF WebhookInv, PassCovered, InPass
  <2> QED
    BY <2>1, <2>2
<1> QED
  BY <1>9, <1>10, <1>11 DEF WebhookInv

LEMMA WriteKeeps ==
  ASSUME WebhookInv, NEW d \in Dispatchers, Write(d)
  PROVE  WebhookInv'
<1> USE DEF Write
<1>1. chain \in Seq(0..MaxEvents) /\ cursor[d] \in Nat /\ Covered(chain, settled, cursor[d])
  BY DEF WebhookInv, TypesOK, CursorsCovered
<1>2. Covered(chain, settled, Loaded(cursor[d]))
  BY <1>1, CoveredNone DEF Loaded, None
<1>3. TypesOK'
  BY <1>1 DEF WebhookInv, TypesOK, PCs
<1>4. CursorsCovered'
  BY <1>2 DEF WebhookInv, CursorsCovered
<1>5. PassCovered'
  BY DEF WebhookInv, TypesOK, PassCovered, InPass
<1> QED
  BY <1>3, <1>4, <1>5 DEF WebhookInv

LEMMA RenameKeeps ==
  ASSUME WebhookInv, NEW d \in Dispatchers, Rename(d)
  PROVE  WebhookInv'
<1>1. /\ UNCHANGED <<chain, settled, cursor, pass>>
      /\ pc' = [pc EXCEPT ![d] = "fetch"]
      /\ file' = temp /\ temp' = Absent /\ pc[d] = "rename"
  BY DEF Rename
<1>2. chain \in Seq(0..MaxEvents)
  BY DEF WebhookInv, TypesOK
<1>3. TypesOK'
  BY <1>1 DEF WebhookInv, TypesOK, PCs, Absent
<1>4. CursorsCovered'
  <2>1. Loaded(temp') = 0
    BY <1>1 DEF Loaded, Absent, None
  <2> QED
    BY <1>1, <1>2, <2>1, CoveredNone DEF WebhookInv, CursorsCovered
<1>5. PassCovered'
  BY <1>1 DEF WebhookInv, TypesOK, PassCovered, InPass
<1> QED
  BY <1>3, <1>4, <1>5 DEF WebhookInv

LEMMA StutterKeeps ==
  ASSUME WebhookInv, UNCHANGED webhookVars
  PROVE  WebhookInv'
<1> USE DEF webhookVars
<1>1. TypesOK'
  BY DEF WebhookInv, TypesOK
<1>2. CursorsCovered'
  BY DEF WebhookInv, CursorsCovered
<1>3. PassCovered'
  BY DEF WebhookInv, PassCovered, InPass
<1> QED
  BY <1>1, <1>2, <1>3 DEF WebhookInv

LEMMA WebhookInvNext ==
  ASSUME WindowCoversHistory, WebhookInv, [WebhookNext]_webhookVars
  PROVE  WebhookInv'
<1>1. ASSUME NEW n \in 0..MaxEvents, Land(n) PROVE WebhookInv'
  BY <1>1, LandKeeps
<1>2. ASSUME NEW d \in Dispatchers, Step(d) PROVE WebhookInv'
  <2>1. CASE Start(d)
    BY <2>1, StartKeeps
  <2>2. CASE Collect(d)
    BY <2>2, CollectKeeps
  <2>3. CASE Fetch(d)
    BY <2>3, FetchKeeps
  <2>4. CASE EndPass(d)
    BY <2>4, EndKeeps DEF EndPass, Ended, Disk
  <2>5. ASSUME NEW answered \in BOOLEAN, Deliver(d, answered) PROVE WebhookInv'
    BY <2>5, DeliverKeeps
  <2>6. CASE Advance(d)
    BY <2>6, AdvanceKeeps
  <2>7. CASE Write(d)
    BY <2>7, WriteKeeps
  <2>8. CASE Rename(d)
    BY <2>8, RenameKeeps
  <2>9. CASE RenameFails(d)
    BY <2>9, EndKeeps DEF RenameFails, Ended, Disk
  <2> QED
    BY <1>2, <2>1, <2>2, <2>3, <2>4, <2>5, <2>6, <2>7, <2>8, <2>9 DEF Step
<1>3. ASSUME NEW d \in Dispatchers, Unavailable(d) PROVE WebhookInv'
  BY <1>3, EndKeeps DEF Unavailable, Ended, Disk
<1>4. ASSUME NEW d \in Dispatchers, Crash(d) PROVE WebhookInv'
  BY <1>4, EndKeeps DEF Crash
<1>5. ASSUME NEW d \in Dispatchers, WriteFails(d) PROVE WebhookInv'
  BY <1>5, EndKeeps DEF WriteFails, Ended
<1>6. CASE UNCHANGED webhookVars
  BY <1>6, StutterKeeps
<1> QED
  BY <1>1, <1>2, <1>3, <1>4, <1>5, <1>6 DEF WebhookNext

-----------------------------------------------------------------------------
(* The relay settles events in the order of the chain. *)

(* What the chain holds at one of its indices. *)
LEMMA ElementInSet ==
  ASSUME NEW S, NEW s \in Seq(S), NEW i \in 1..Len(s)
  PROVE  s[i] \in S
OBVIOUS

(* Every earlier event is settled when one is delivered. *)
LEMMA DeliverSettlesNext ==
  ASSUME WebhookInv, NEW d \in Dispatchers, NEW answered \in BOOLEAN, Deliver(d, answered)
  PROVE  [Relay!Next]_Relay!relayVars
<1> DEFINE p == pass[d]
           e == <<p.next, p.event>>
<1>1. /\ pc[d] = "deliver" /\ p.event <= chain[p.next]
      /\ settled' = settled \/ settled' = settled \cup {e}
      /\ chain' = chain
  BY DEF Deliver
<1>2. /\ chain \in Seq(0..MaxEvents)
      /\ p.next \in Nat \ {0} /\ p.last \in Nat /\ p.event \in Nat \ {0}
  <2>1. p \in Passes
    BY DEF WebhookInv, TypesOK, Passes
  <2> QED
    BY <2>1, PassFields DEF WebhookInv, TypesOK
<1>3. /\ p.next <= p.last /\ p.last <= Len(chain)
      /\ Covered(chain, settled, p.next - 1)
      /\ \A i \in 1..(p.event - 1) : <<p.next, i>> \in settled
  BY <1>1 DEF WebhookInv, PassCovered, InPass
<1> HIDE DEF p
<1>4. p.next \in 1..Len(chain) /\ p.event \in 1..MaxEvents
  <2>1. p.next \in 1..Len(chain)
    BY <1>2, <1>3
  <2>2. chain[p.next] \in 0..MaxEvents
    BY <1>2, <2>1, ElementInSet
  <2>3. MaxEvents \in Nat
    BY WebhookAssumption
  <2> QED
    BY <1>1, <1>2, <2>1, <2>2, <2>3
<1>5. e \in Relay!Events
  BY <1>1, <1>4 DEF Relay!Events
<1>6. ASSUME NEW f \in Relay!Events, Relay!Earlier(f, e)
      PROVE  f \in settled
  <2>1. /\ f = <<f[1], f[2]>>
        /\ f[1] \in 1..Len(chain) /\ f[2] \in 1..MaxEvents /\ f[2] <= chain[f[1]]
    BY DEF Relay!Events
  <2>2. CASE f[1] < p.next
    <3>1. f[1] \in 1..(p.next - 1)
      BY <1>2, <2>1, <2>2
    <3>2. f[2] \in 1..chain[f[1]]
      <4>1. chain[f[1]] \in 0..MaxEvents
        BY <1>2, <2>1, ElementInSet
      <4>2. MaxEvents \in Nat
        BY WebhookAssumption
      <4> QED
        BY <2>1, <4>1, <4>2
    <3>3. <<f[1], f[2]>> \in settled
      BY <1>3, <3>1, <3>2 DEF Covered
    <3> QED
      BY <2>1, <3>3
  <2>3. CASE f[1] = p.next /\ f[2] < p.event
    <3>1. f[2] \in 1..(p.event - 1)
      BY <1>2, <2>1, <2>3
    <3>2. <<p.next, f[2]>> \in settled
      BY <1>3, <3>1
    <3> QED
      BY <2>1, <2>3, <3>2
  <2>4. f[1] < p.next \/ (f[1] = p.next /\ f[2] < p.event)
    BY <1>6 DEF Relay!Earlier
  <2> QED
    BY <2>2, <2>3, <2>4
<1> HIDE DEF e
<1>7. CASE settled' = settled
  BY <1>1, <1>7 DEF Relay!relayVars
<1>8. CASE settled' = settled \cup {e} /\ e \notin settled
  BY <1>1, <1>5, <1>6, <1>8 DEF Relay!Next, Relay!Settle
<1>9. CASE settled' = settled \cup {e} /\ e \in settled
  BY <1>1, <1>9 DEF Relay!relayVars
<1> QED
  BY <1>1, <1>7, <1>8, <1>9

LEMMA RelayStep ==
  ASSUME WebhookInv, [WebhookNext]_webhookVars
  PROVE  [Relay!Next]_Relay!relayVars
<1>1. ASSUME NEW n \in 0..MaxEvents, Land(n) PROVE Relay!Next
  BY <1>1 DEF Land, Relay!Next, Relay!Publish
<1>2. ASSUME NEW d \in Dispatchers,
             NEW answered \in BOOLEAN, Deliver(d, answered)
      PROVE  [Relay!Next]_Relay!relayVars
  BY <1>2, DeliverSettlesNext
<1>3. ASSUME NEW d \in Dispatchers,
             \/ Start(d) \/ Collect(d) \/ Fetch(d) \/ EndPass(d) \/ Advance(d)
             \/ Write(d) \/ WriteFails(d) \/ Rename(d) \/ RenameFails(d)
             \/ Unavailable(d) \/ Crash(d)
      PROVE  UNCHANGED Relay!relayVars
  BY <1>3
  DEF Start, Collect, Fetch, EndPass, Advance, Write, WriteFails, Rename, RenameFails,
      Unavailable, Crash, Relay!relayVars
<1>4. CASE UNCHANGED webhookVars
  BY <1>4 DEF webhookVars, Relay!relayVars
<1> QED
  BY <1>1, <1>2, <1>3, <1>4 DEF WebhookNext, Step

-----------------------------------------------------------------------------
LEMMA WebhookInvariant ==
  WindowCoversHistory => (WebhookSpec => []WebhookInv)
<1> SUFFICES ASSUME WindowCoversHistory PROVE WebhookSpec => []WebhookInv
  OBVIOUS
<1>1. WebhookInit => WebhookInv
  BY WebhookInvInit
<1>2. WebhookInv /\ [WebhookNext]_webhookVars => WebhookInv'
  BY WebhookInvNext
<1> QED
  BY <1>1, <1>2, PTL DEF WebhookSpec

(* At-least-once delivery, for any number of pollers and one-shot processes
   sharing a state file, any retries, crashes and lag: if a pass can see the
   whole history, no cursor a process resumes from is past an unsettled event. *)
THEOREM NothingIsSkipped ==
  WindowCoversHistory => (WebhookSpec => []NothingSkipped)
<1>1. WebhookInv => NothingSkipped
  BY DEF WebhookInv, CursorsCovered, NothingSkipped
<1> QED
  BY <1>1, WebhookInvariant, PTL

(* The safety part of the refinement: the processes together settle the events of
   the chain one after the other, in its order, whatever they do twice. *)
THEOREM RelayKeepsOrder ==
  WindowCoversHistory => (WebhookSpec => Relay!Init /\ [][Relay!Next]_Relay!relayVars)
<1>1. WebhookInit => Relay!Init
  BY DEF WebhookInit, Relay!Init
<1>2. WebhookInv /\ [WebhookNext]_webhookVars => [Relay!Next]_Relay!relayVars
  BY RelayStep
<1> QED
  BY <1>1, <1>2, WebhookInvariant, PTL DEF WebhookSpec

-----------------------------------------------------------------------------
(* As long as nothing disturbs it, one process at most is up, and the cursors in
   its memory, in its pass and on disk are one step apart at most. *)
AtMostOneUp ==
  \A d, e \in Dispatchers : pc[d] # "down" /\ pc[e] # "down" => d = e

InStep(d) ==
  /\ pc[d] \in {"idle", "fetch", "deliver"} => cursor[d] = Loaded(file)
  /\ pc[d] \in {"write", "rename"} => cursor[d] = Loaded(file) + 1
  /\ InPass(d) => pass[d].next = cursor[d] + 1
  /\ pc[d] = "write" => handle[d] = "temp"
  /\ pc[d] = "rename" => temp = cursor[d]

SettledNear == \A e \in settled : e[1] \in Nat /\ e[1] <= Loaded(file) + 1

NearInv ==
  ~disturbed =>
    /\ AtMostOneUp
    /\ \A d \in Dispatchers : InStep(d)
    /\ SettledNear
    /\ DOMAIN handle = Dispatchers

NearTypes ==
  /\ pc \in [Dispatchers -> PCs]
  /\ cursor \in [Dispatchers -> Nat]
  /\ pass \in [Dispatchers -> Passes]
  /\ file \in Int
  /\ temp \in Int

LEMMA NearInvInit == WebhookInit => NearInv
BY DEF WebhookInit, NearInv, AtMostOneUp, InStep, InPass, SettledNear

(* Where a pass starts when the answer is not behind the cursor. *)
LEMMA FreshIsNext ==
  ASSUME WindowCoversHistory, NEW c \in Nat, NEW seen \in Nat, seen <= MaxTx, c <= seen
  PROVE  FirstFresh(seen, c) = c + 1
<1> DEFINE W == MaxPages * Limit
<1>1. W \in Nat /\ MaxTx \in Nat /\ W >= MaxTx
  BY WebhookAssumption DEF WindowCoversHistory
<1> HIDE DEF W
<1> QED
  BY <1>1 DEF FirstFresh, W

(* A step of one process leaves the others as they are: down. *)
LEMMA OthersDown ==
  ASSUME AtMostOneUp, NEW d \in Dispatchers, pc[d] # "down", NearTypes,
         NEW to, pc' = [pc EXCEPT ![d] = to]
  PROVE  /\ AtMostOneUp'
         /\ pc'[d] = to
         /\ \A e \in Dispatchers : e # d => pc'[e] = "down" /\ ~InPass(e)'
BY DEF AtMostOneUp, NearTypes, InPass

LEMMA NearStart ==
  ASSUME NearInv, NearTypes, NEW d \in Dispatchers, Start(d)
  PROVE  NearInv'
<1> SUFFICES ASSUME ~disturbed'
             PROVE  /\ AtMostOneUp'
                    /\ \A e \in Dispatchers : InStep(e)'
                    /\ SettledNear'
                    /\ DOMAIN handle' = Dispatchers
  BY DEF NearInv
<1>1. /\ ~disturbed
      /\ \A e \in Dispatchers : pc[e] = "down"
      /\ SettledNear /\ DOMAIN handle = Dispatchers
      /\ pc' = [pc EXCEPT ![d] = "idle"]
      /\ cursor' = [cursor EXCEPT ![d] = Loaded(file)]
      /\ UNCHANGED <<settled, pass, file, temp, handle>>
  BY DEF Start, NearInv, Disk
<1>2. \A e \in Dispatchers : e # d => pc'[e] = "down"
  BY <1>1 DEF NearTypes
<1>3. pc'[d] = "idle" /\ cursor'[d] = Loaded(file)
  BY <1>1 DEF NearTypes
<1>4. AtMostOneUp'
  BY <1>2 DEF AtMostOneUp
<1>5. \A e \in Dispatchers : InStep(e)'
  BY <1>1, <1>2, <1>3 DEF InStep, InPass
<1>6. SettledNear'
  BY <1>1 DEF SettledNear
<1> QED
  BY <1>1, <1>4, <1>5, <1>6

(* What every step of a running process has to keep. *)
LEMMA NearStep ==
  ASSUME NearInv, NearTypes, NEW d \in Dispatchers, pc[d] # "down", ~disturbed,
         NEW to, pc' = [pc EXCEPT ![d] = to], InStep(d)', SettledNear',
         DOMAIN handle' = Dispatchers
  PROVE  NearInv'
<1>1. AtMostOneUp
  BY DEF NearInv
<1>2. AtMostOneUp' /\ \A e \in Dispatchers : e # d => pc'[e] = "down" /\ ~InPass(e)'
  BY <1>1, OthersDown
<1>3. \A e \in Dispatchers : InStep(e)'
  BY <1>2 DEF InStep
<1> QED
  BY <1>2, <1>3 DEF NearInv

LEMMA NearCollect ==
  ASSUME WindowCoversHistory, NearInv, NearTypes, NEW d \in Dispatchers, Collect(d),
         chain \in Seq(0..MaxEvents), Len(chain) <= MaxTx
  PROVE  NearInv'
<1> SUFFICES ASSUME ~disturbed' PROVE NearInv'
  BY DEF NearInv
<1>1. PICK seen \in {s \in (Len(chain) - MaxLag)..Len(chain) : s >= 0} :
        /\ disturbed' = (disturbed \/ seen < cursor[d])
        /\ pass' = [pass EXCEPT ![d] = [next |-> FirstFresh(seen, cursor[d]),
                                       last |-> seen, event |-> 1, tries |-> 0]]
  BY DEF Collect
<1>2. /\ pc[d] = "idle"
      /\ pc' = [pc EXCEPT ![d] = "fetch"]
      /\ UNCHANGED <<settled, cursor, file, handle>>
  BY DEF Collect, Disk
<1>3. ~disturbed /\ ~(seen < cursor[d])
  BY <1>1
<1>4. MaxLag \in Nat /\ MaxTx \in Nat
  BY WebhookAssumption
<1>5. seen \in Nat /\ seen <= MaxTx
  BY <1>1, <1>4
<1>6. cursor[d] \in Nat /\ cursor[d] <= seen
  BY <1>3, <1>5 DEF NearTypes
<1>7. FirstFresh(seen, cursor[d]) = cursor[d] + 1
  BY <1>5, <1>6, FreshIsNext
<1>8. pass'[d].next = cursor[d] + 1
  BY <1>1, <1>7 DEF NearTypes
<1>9. InStep(d) /\ SettledNear /\ DOMAIN handle = Dispatchers
  BY <1>3 DEF NearInv
<1>10. pc'[d] = "fetch"
  BY <1>2 DEF NearTypes
<1>11. InStep(d)'
  BY <1>2, <1>8, <1>9, <1>10 DEF InStep, InPass
<1>12. SettledNear'
  BY <1>2, <1>9 DEF SettledNear
<1> QED
  BY <1>2, <1>3, <1>9, <1>11, <1>12, NearStep

LEMMA NearDeliver ==
  ASSUME NearInv, NearTypes, NEW d \in Dispatchers, NEW answered \in BOOLEAN,
         Deliver(d, answered)
  PROVE  NearInv'
<1> DEFINE p == pass[d]
<1> SUFFICES ASSUME ~disturbed' PROVE NearInv'
  BY DEF NearInv
<1>1. /\ pc[d] = "deliver"
      /\ settled' = settled \/ settled' = settled \cup {<<p.next, p.event>>}
      /\ \/ pass' = [pass EXCEPT ![d] = [p EXCEPT !.event = @ + 1, !.tries = 0]]
         \/ pass' = [pass EXCEPT ![d] = [p EXCEPT !.tries = @ + 1]]
      /\ UNCHANGED <<pc, cursor, file, temp, handle, disturbed>>
  BY DEF Deliver, Disk
<1>2. AtMostOneUp /\ InStep(d) /\ SettledNear /\ DOMAIN handle = Dispatchers
  BY <1>1 DEF NearInv
<1>3. pass'[d].next = p.next
  <2>1. p \in Passes
    BY DEF NearTypes
  <2>2. \/ pass'[d] = [p EXCEPT !.event = @ + 1, !.tries = 0]
        \/ pass'[d] = [p EXCEPT !.tries = @ + 1]
    BY <1>1 DEF NearTypes
  <2> HIDE DEF p
  <2> QED
    BY <2>1, <2>2 DEF Passes
<1>4. p.next = Loaded(file) + 1
  BY <1>1, <1>2 DEF InStep, InPass
<1>5. InStep(d)'
  BY <1>1, <1>2, <1>3 DEF InStep, InPass
<1>6. SettledNear'
  <2>1. Loaded(file)' = Loaded(file) /\ Loaded(file) \in Nat
    BY <1>1, LoadedNat DEF NearTypes
  <2>2. \A e \in settled' : e \in settled \/ e[1] = p.next
    BY <1>1
  <2>3. p.next \in Nat /\ p.next <= Loaded(file) + 1
    BY <1>4, <2>1
  <2> HIDE DEF p
  <2> QED
    BY <1>2, <2>1, <2>2, <2>3 DEF SettledNear
<1>7. pc' = [pc EXCEPT ![d] = "deliver"]
  BY <1>1 DEF NearTypes
<1> QED
  BY <1>1, <1>2, <1>5, <1>6, <1>7, NearStep

LEMMA NearAdvance ==
  ASSUME NearInv, NearTypes, NEW d \in Dispatchers, Advance(d)
  PROVE  NearInv'
<1> DEFINE p == pass[d]
<1> SUFFICES ASSUME ~disturbed' PROVE NearInv'
  BY DEF NearInv
<1>1. /\ pc[d] = "deliver"
      /\ cursor' = [cursor EXCEPT ![d] = p.next]
      /\ pass' = [pass EXCEPT ![d] = [p EXCEPT !.next = @ + 1, !.event = 1]]
      /\ handle' = [handle EXCEPT ![d] = "temp"]
      /\ pc' = [pc EXCEPT ![d] = "write"]
      /\ UNCHANGED <<settled, file, disturbed>>
  BY DEF Advance
<1>2. InStep(d) /\ SettledNear /\ DOMAIN handle = Dispatchers
  BY <1>1 DEF NearInv
<1>3. cursor'[d] = p.next /\ pc'[d] = "write"
  BY <1>1 DEF NearTypes
<1>4. pass'[d].next = p.next + 1
  <2>1. p \in Passes
    BY DEF NearTypes
  <2>2. pass'[d] = [p EXCEPT !.next = @ + 1, !.event = 1]
    BY <1>1 DEF NearTypes
  <2> HIDE DEF p
  <2> QED
    BY <2>1, <2>2 DEF Passes
<1>5. p.next = Loaded(file) + 1
  BY <1>1, <1>2 DEF InStep, InPass
<1>6. handle'[d] = "temp"
  BY <1>1, <1>2
<1>7. InStep(d)'
  BY <1>1, <1>3, <1>4, <1>5, <1>6 DEF InStep, InPass
<1>8. SettledNear'
  BY <1>1, <1>2 DEF SettledNear
<1> QED
  BY <1>1, <1>2, <1>7, <1>8, NearStep

LEMMA NearWrite ==
  ASSUME NearInv, NearTypes, NEW d \in Dispatchers, Write(d)
  PROVE  NearInv'
<1> SUFFICES ASSUME ~disturbed' PROVE NearInv'
  BY DEF NearInv
<1>1. /\ pc[d] = "write"
      /\ temp' = IF handle[d] = "temp" THEN cursor[d] ELSE temp
      /\ file' = IF handle[d] = "file" THEN cursor[d] ELSE file
      /\ handle' = [handle EXCEPT ![d] = "closed"]
      /\ pc' = [pc EXCEPT ![d] = "rename"]
      /\ UNCHANGED <<settled, cursor, pass, disturbed>>
  BY DEF Write
<1>2. InStep(d) /\ SettledNear /\ DOMAIN handle = Dispatchers
  BY <1>1 DEF NearInv
<1>3. temp' = cursor[d] /\ file' = file
  BY <1>1, <1>2 DEF InStep
<1>4. pc'[d] = "rename"
  BY <1>1 DEF NearTypes
<1>5. InStep(d)'
  BY <1>1, <1>2, <1>3, <1>4 DEF InStep, InPass
<1>6. SettledNear'
  BY <1>1, <1>2, <1>3 DEF SettledNear
<1> QED
  BY <1>1, <1>2, <1>5, <1>6, NearStep

LEMMA NearRename ==
  ASSUME NearInv, NearTypes, NEW d \in Dispatchers, Rename(d)
  PROVE  NearInv'
<1> SUFFICES ASSUME ~disturbed' PROVE NearInv'
  BY DEF NearInv
<1>1. /\ pc[d] = "rename"
      /\ file' = temp
      /\ DOMAIN handle' = Dispatchers
      /\ pc' = [pc EXCEPT ![d] = "fetch"]
      /\ UNCHANGED <<settled, cursor, pass, disturbed>>
  BY DEF Rename
<1>2. InStep(d) /\ SettledNear /\ DOMAIN handle = Dispatchers
  BY <1>1 DEF NearInv
<1>3. Loaded(file) \in Nat
  BY LoadedNat DEF NearTypes
<1>4. file' = Loaded(file) + 1 /\ cursor[d] = Loaded(file) + 1 /\ pass[d].next = cursor[d] + 1
  BY <1>1, <1>2 DEF InStep, InPass
<1>5. Loaded(file)' = Loaded(file) + 1
  BY <1>3, <1>4 DEF Loaded
<1>6. pc'[d] = "fetch"
  BY <1>1 DEF NearTypes
<1>7. InStep(d)'
  BY <1>1, <1>4, <1>5, <1>6 DEF InStep, InPass
<1>8. SettledNear'
  <2>1. \A e \in settled : e[1] \in Nat /\ e[1] <= Loaded(file) + 1
    BY <1>2 DEF SettledNear
  <2> QED
    BY <1>1, <1>3, <1>5, <2>1 DEF SettledNear
<1> QED
  BY <1>1, <1>2, <1>7, <1>8, NearStep

(* A process that stops, or ends its pass, anywhere but between writing and renaming
   with the file gone, which one process alone does not meet. *)
LEMMA NearStop ==
  ASSUME NearInv, NearTypes, NEW d \in Dispatchers, pc[d] # "down",
         NEW to \in {"down", "idle"}, pc' = [pc EXCEPT ![d] = to],
         to = "idle" => pc[d] = "fetch",
         DOMAIN handle' = DOMAIN handle,
         UNCHANGED <<settled, cursor, file, temp>>, disturbed => disturbed'
  PROVE  NearInv'
<1> SUFFICES ASSUME ~disturbed' PROVE NearInv'
  BY DEF NearInv
<1>1. InStep(d) /\ SettledNear /\ DOMAIN handle = Dispatchers
  BY DEF NearInv
<1>2. pc'[d] = to
  BY DEF NearTypes
<1>3. InStep(d)'
  BY <1>1, <1>2 DEF InStep, InPass
<1>4. SettledNear'
  BY <1>1 DEF SettledNear
<1> QED
  BY <1>1, <1>3, <1>4, NearStep

LEMMA NearFetch ==
  ASSUME NearInv, NearTypes, NEW d \in Dispatchers, Fetch(d)
  PROVE  NearInv'
<1> SUFFICES ASSUME ~disturbed' PROVE NearInv'
  BY DEF NearInv
<1>1. /\ pc[d] = "fetch" /\ ~disturbed
      /\ pc' = [pc EXCEPT ![d] = "deliver"]
      /\ UNCHANGED <<settled, cursor, pass, file, temp, handle>>
  BY DEF Fetch, Disk
<1>2. InStep(d) /\ SettledNear /\ DOMAIN handle = Dispatchers
  BY <1>1 DEF NearInv
<1>3. pc'[d] = "deliver"
  BY <1>1 DEF NearTypes
<1>4. InStep(d)'
  BY <1>1, <1>2, <1>3 DEF InStep, InPass
<1>5. SettledNear'
  BY <1>1, <1>2 DEF SettledNear
<1> QED
  BY <1>1, <1>2, <1>4, <1>5, NearStep

(* Alone, a process always finds the file it wrote. *)
LEMMA NearRenameFails ==
  ASSUME NearInv, NearTypes, NEW d \in Dispatchers, RenameFails(d)
  PROVE  NearInv'
<1> SUFFICES ASSUME ~disturbed' PROVE FALSE
  BY DEF NearInv
<1>1. /\ pc[d] = "rename" /\ temp = Absent /\ ~disturbed
  BY DEF RenameFails
<1>2. InStep(d)
  BY <1>1 DEF NearInv
<1>3. temp \in Nat
  BY <1>1, <1>2 DEF InStep, NearTypes
<1> QED
  BY <1>1, <1>3 DEF Absent

(* A failed write leaves a --once process down, and the loop disturbed. *)
LEMMA NearWriteFails ==
  ASSUME NearInv, NearTypes, NEW d \in Dispatchers, WriteFails(d)
  PROVE  NearInv'
<1> SUFFICES ASSUME ~disturbed' PROVE NearInv'
  BY DEF NearInv
<1>1. /\ pc[d] = "write"
      /\ d \in OneShots
      /\ ~disturbed
      /\ handle' = [handle EXCEPT ![d] = "closed"]
      /\ pc' = [pc EXCEPT ![d] = Ended(d)]
      /\ UNCHANGED <<settled, cursor, file, temp>>
  BY DEF WriteFails, Dispatchers
<1>2. pc' = [pc EXCEPT ![d] = "down"]
  BY <1>1 DEF Ended
<1> QED
  BY <1>1, <1>2, NearStop

LEMMA NearInvNext ==
  ASSUME WindowCoversHistory, WebhookInv, NearInv, [WebhookNext]_webhookVars
  PROVE  NearInv'
<1>0. /\ NearTypes
      /\ chain \in Seq(0..MaxEvents) /\ Len(chain) <= MaxTx
  BY DEF WebhookInv, TypesOK, NearTypes, Passes
<1>1. ASSUME NEW n \in 0..MaxEvents, Land(n) PROVE NearInv'
  BY <1>1 DEF Land, Disk, NearInv, AtMostOneUp, InStep, InPass, SettledNear
<1>2. ASSUME NEW d \in Dispatchers, Step(d) PROVE NearInv'
  <2>1. CASE Start(d)
    BY <1>0, <2>1, NearStart
  <2>2. CASE Collect(d)
    BY <1>0, <2>2, NearCollect
  <2>3. CASE Fetch(d)
    BY <1>0, <2>3, NearFetch
  <2>4. CASE EndPass(d)
    BY <1>0, <2>4, NearStop DEF EndPass, Ended, Disk
  <2>5. ASSUME NEW answered \in BOOLEAN, Deliver(d, answered) PROVE NearInv'
    BY <1>0, <2>5, NearDeliver
  <2>6. CASE Advance(d)
    BY <1>0, <2>6, NearAdvance
  <2>7. CASE Write(d)
    BY <1>0, <2>7, NearWrite
  <2>8. CASE Rename(d)
    BY <1>0, <2>8, NearRename
  <2>9. CASE RenameFails(d)
    BY <1>0, <2>9, NearRenameFails
  <2> QED
    BY <1>2, <2>1, <2>2, <2>3, <2>4, <2>5, <2>6, <2>7, <2>8, <2>9 DEF Step
<1>3. ASSUME NEW d \in Dispatchers, Unavailable(d) PROVE NearInv'
  BY <1>0, <1>3, NearStop DEF Unavailable, Ended, Disk
<1>4. ASSUME NEW d \in Dispatchers, Crash(d) PROVE NearInv'
  BY <1>0, <1>4, NearStop DEF Crash
<1>5. ASSUME NEW d \in Dispatchers, WriteFails(d) PROVE NearInv'
  BY <1>0, <1>5, NearWriteFails
<1>6. CASE UNCHANGED webhookVars
  BY <1>6 DEF webhookVars, NearInv, AtMostOneUp, InStep, InPass, SettledNear
<1> QED
  BY <1>1, <1>2, <1>3, <1>4, <1>5, <1>6 DEF WebhookNext

(* A restart repeats one transaction's events at most, wherever the process was
   killed, as long as processes do not overlap, no answer is behind the cursor and
   the loop can save its cursor. *)
THEOREM RestartResumesNear ==
  WindowCoversHistory => (WebhookSpec => []ResumesNear)
<1> SUFFICES ASSUME WindowCoversHistory PROVE WebhookSpec => []ResumesNear
  OBVIOUS
<1>1. WebhookInit => NearInv
  BY NearInvInit
<1>2. WebhookInv /\ NearInv /\ [WebhookNext]_webhookVars => NearInv'
  BY NearInvNext
<1>3. NearInv => ResumesNear
  BY DEF NearInv, SettledNear, ResumesNear
<1> QED
  BY <1>1, <1>2, <1>3, WebhookInvariant, PTL DEF WebhookSpec

-----------------------------------------------------------------------------
(* Types: a pass stays within the chain, and never runs out of attempts. *)
TightPasses ==
  [next : 1..(MaxTx + 1), last : 0..MaxTx, event : 1..(MaxEvents + 1),
   tries : 0..(MaxAttempts - 1)]

TightInv == WebhookTypeOK /\ pass \in [Dispatchers -> TightPasses]

LEMMA ParametersNat ==
  /\ MaxTx \in Nat /\ MaxEvents \in Nat /\ MaxLag \in Nat /\ MaxFaults \in Nat
  /\ MaxAttempts \in Nat \ {0}
BY WebhookAssumption

LEMMA TightPassFields ==
  ASSUME NEW next \in 1..(MaxTx + 1), NEW last \in 0..MaxTx,
         NEW event \in 1..(MaxEvents + 1), NEW tries \in 0..(MaxAttempts - 1)
  PROVE  [next |-> next, last |-> last, event |-> event, tries |-> tries] \in TightPasses
BY DEF TightPasses

LEMMA TightPassIs ==
  ASSUME NEW p \in TightPasses
  PROVE  /\ p.next \in 1..(MaxTx + 1) /\ p.last \in 0..MaxTx
         /\ p.event \in 1..(MaxEvents + 1) /\ p.tries \in 0..(MaxAttempts - 1)
         /\ p = [next |-> p.next, last |-> p.last, event |-> p.event, tries |-> p.tries]
BY DEF TightPasses

(* How a delivery and the step to the next transaction change a pass. *)
LEMMA TightUpdates ==
  ASSUME NEW p \in TightPasses
  PROVE  /\ [p EXCEPT !.event = @ + 1, !.tries = 0]
              = [next |-> p.next, last |-> p.last, event |-> p.event + 1, tries |-> 0]
         /\ [p EXCEPT !.tries = @ + 1]
              = [next |-> p.next, last |-> p.last, event |-> p.event, tries |-> p.tries + 1]
         /\ [p EXCEPT !.next = @ + 1, !.event = 1]
              = [next |-> p.next + 1, last |-> p.last, event |-> 1, tries |-> p.tries]
<1>1. p \in Passes
  BY ParametersNat DEF TightPasses, Passes
<1> QED
  BY <1>1, PassUpdates

(* The wide type of passes follows from the tight one. *)
LEMMA TightImpliesType ==
  ASSUME NEW ps \in [Dispatchers -> TightPasses]
  PROVE  ps \in [Dispatchers -> [next : 1..(MaxTx + 1), last : 0..MaxTx,
                                 event : 1..(MaxEvents + 1), tries : 0..MaxAttempts]]
<1>1. \A t \in 0..(MaxAttempts - 1) : t \in 0..MaxAttempts
  BY ParametersNat
<1>2. \A p \in TightPasses :
        p \in [next : 1..(MaxTx + 1), last : 0..MaxTx,
               event : 1..(MaxEvents + 1), tries : 0..MaxAttempts]
  BY <1>1 DEF TightPasses
<1> QED
  BY <1>2

(* What a process holds between passes. *)
LEMMA NoPassTight == NoPass \in TightPasses
<1>1. /\ 1 \in 1..(MaxTx + 1) /\ 0 \in 0..MaxTx
      /\ 1 \in 1..(MaxEvents + 1) /\ 0 \in 0..(MaxAttempts - 1)
  BY ParametersNat
<1> QED
  BY <1>1, TightPassFields DEF NoPass

LEMMA TightInvInit == WebhookInit => TightInv
<1> SUFFICES ASSUME WebhookInit PROVE TightInv
  OBVIOUS
<1>1. pass \in [Dispatchers -> TightPasses]
  BY NoPassTight DEF WebhookInit
<1>2. /\ chain \in Seq(0..MaxEvents) /\ Len(chain) <= MaxTx
      /\ cursor \in [Dispatchers -> 0..MaxTx] /\ faults \in 0..MaxFaults
  BY ParametersNat DEF WebhookInit, None
<1> QED
  BY <1>1, <1>2, TightImpliesType DEF WebhookInit, TightInv, WebhookTypeOK, PCs

(* The cursors that can be read from disk. *)
LEMMA LoadedInRange ==
  ASSUME NEW content \in Contents \cup {Absent}
  PROVE  Loaded(content) \in 0..MaxTx
BY ParametersNat DEF Contents, Loaded, Truncated, None, Absent

(* A pass starts within the chain, or just after it. *)
LEMMA FreshInRange ==
  ASSUME NEW c \in 0..MaxTx, NEW seen \in 0..MaxTx
  PROVE  FirstFresh(seen, c) \in 1..(MaxTx + 1)
<1> DEFINE W == MaxPages * Limit
<1>1. W \in Nat \ {0} /\ MaxTx \in Nat
  <2>1. MaxPages \in Nat \ {0} /\ Limit \in Nat \ {0} /\ MaxTx \in Nat
    BY WebhookAssumption
  <2> QED
    BY <2>1
<1> HIDE DEF W
<1> QED
  BY <1>1 DEF FirstFresh, W

LEMMA TightCollect ==
  ASSUME TightInv, NEW d \in Dispatchers, Collect(d)
  PROVE  TightInv'
<1>1. PICK seen \in {s \in (Len(chain) - MaxLag)..Len(chain) : s >= 0} :
        /\ IF seen = Len(chain) THEN UNCHANGED faults ELSE Fault
        /\ pass' = [pass EXCEPT ![d] = [next |-> FirstFresh(seen, cursor[d]),
                                       last |-> seen, event |-> 1, tries |-> 0]]
        /\ disturbed' = (disturbed \/ seen < cursor[d])
  BY DEF Collect
<1>2. /\ pc' = [pc EXCEPT ![d] = "fetch"]
      /\ UNCHANGED <<chain, settled, cursor, file, temp, handle>>
  BY DEF Collect, Disk
<1>3. /\ chain \in Seq(0..MaxEvents) /\ Len(chain) <= MaxTx
      /\ cursor[d] \in 0..MaxTx /\ faults \in 0..MaxFaults
  BY DEF TightInv, WebhookTypeOK
<1>4. seen \in 0..MaxTx
  BY <1>1, <1>3, ParametersNat
<1>5. FirstFresh(seen, cursor[d]) \in 1..(MaxTx + 1)
  BY <1>3, <1>4, FreshInRange
<1>6. 1 \in 1..(MaxEvents + 1) /\ 0 \in 0..(MaxAttempts - 1)
  BY ParametersNat
<1>7. pass' \in [Dispatchers -> TightPasses]
  BY <1>1, <1>4, <1>5, <1>6, TightPassFields DEF TightInv
<1>8. faults' \in 0..MaxFaults
  BY <1>1, <1>3, ParametersNat DEF Fault
<1>9. pc' \in [Dispatchers -> PCs] /\ disturbed' \in BOOLEAN
  BY <1>1, <1>2 DEF TightInv, WebhookTypeOK, PCs
<1> QED
  BY <1>2, <1>7, <1>8, <1>9, TightImpliesType DEF TightInv, WebhookTypeOK

LEMMA TightDeliver ==
  ASSUME WebhookInv, TightInv, NEW d \in Dispatchers, NEW answered \in BOOLEAN,
         Deliver(d, answered)
  PROVE  TightInv'
<1> DEFINE p == pass[d]
<1>1. /\ pc[d] = "deliver" /\ p.event <= chain[p.next]
      /\ settled' = settled \/ settled' = settled \cup {<<p.next, p.event>>}
      /\ \/ pass' = [pass EXCEPT ![d] = [p EXCEPT !.event = @ + 1, !.tries = 0]]
         \/ /\ p.tries + 1 # MaxAttempts
            /\ pass' = [pass EXCEPT ![d] = [p EXCEPT !.tries = @ + 1]]
      /\ UNCHANGED <<chain, pc, cursor, file, temp, handle, faults, disturbed>>
  BY DEF Deliver, Disk
<1>2. p \in TightPasses
  BY DEF TightInv
<1>3. /\ p.next \in 1..(MaxTx + 1) /\ p.last \in 0..MaxTx
      /\ p.event \in 1..(MaxEvents + 1) /\ p.tries \in 0..(MaxAttempts - 1)
      /\ p = [next |-> p.next, last |-> p.last, event |-> p.event, tries |-> p.tries]
  BY <1>2, TightPassIs
<1>4. /\ p.next <= p.last /\ p.last <= Len(chain)
      /\ chain \in Seq(0..MaxEvents) /\ Len(chain) <= MaxTx
  BY <1>1 DEF WebhookInv, PassCovered, InPass, TypesOK
<1> DEFINE forth == [p EXCEPT !.event = @ + 1, !.tries = 0]
           again == [p EXCEPT !.tries = @ + 1]
<1>5. /\ forth = [next |-> p.next, last |-> p.last, event |-> p.event + 1, tries |-> 0]
      /\ again = [next |-> p.next, last |-> p.last, event |-> p.event,
                  tries |-> p.tries + 1]
  BY <1>2, TightUpdates
<1>6. /\ \/ pass' = [pass EXCEPT ![d] = forth]
         \/ p.tries + 1 # MaxAttempts /\ pass' = [pass EXCEPT ![d] = again]
      /\ pass \in [Dispatchers -> TightPasses]
  BY <1>1 DEF TightInv
<1> HIDE DEF p, forth, again
<1>7. p.next \in 1..MaxTx /\ p.event \in 1..MaxEvents
  <2>1. p.next \in 1..Len(chain)
    BY <1>3, <1>4, ParametersNat
  <2>2. chain[p.next] \in 0..MaxEvents
    BY <1>4, <2>1, ElementInSet
  <2>3. chain[p.next] \in Nat /\ p.event <= chain[p.next]
    <3>1. p.event <= chain[p.next]
      BY <1>1 DEF p
    <3> QED
      BY <2>2, <3>1, ParametersNat
  <2>4. p.next \in 1..MaxTx
    BY <1>4, <2>1, ParametersNat
  <2> DEFINE events == chain[p.next]
  <2>5. events \in 0..MaxEvents /\ p.event <= events
    BY <2>2, <2>3
  <2> HIDE DEF events
  <2>6. p.event \in 1..MaxEvents
    BY <1>3, <2>5, ParametersNat
  <2> QED
    BY <2>4, <2>6
<1>8. settled' \subseteq (1..MaxTx) \X (1..MaxEvents)
  <2>1. settled \subseteq (1..MaxTx) \X (1..MaxEvents)
    BY DEF TightInv, WebhookTypeOK
  <2>2. settled' = settled \/ settled' = settled \cup {<<p.next, p.event>>}
    BY <1>1 DEF p
  <2> QED
    BY <1>7, <2>1, <2>2
<1>9. pass' \in [Dispatchers -> TightPasses]
  <2>1. forth \in TightPasses
    <3>1. p.event + 1 \in 1..(MaxEvents + 1) /\ 0 \in 0..(MaxAttempts - 1)
      BY <1>7, ParametersNat
    <3> QED
      BY <1>3, <1>5, <3>1, TightPassFields
  <2>2. CASE pass' = [pass EXCEPT ![d] = forth]
    BY <1>6, <2>1, <2>2
  <2>3. CASE p.tries + 1 # MaxAttempts /\ pass' = [pass EXCEPT ![d] = again]
    <3>1. p.tries + 1 \in 0..(MaxAttempts - 1)
      BY <1>3, <2>3, ParametersNat
    <3>2. again \in TightPasses
      BY <1>3, <1>5, <3>1, TightPassFields
    <3> QED
      BY <1>6, <2>3, <3>2
  <2> QED
    BY <1>6, <2>2, <2>3
<1> QED
  BY <1>1, <1>8, <1>9, TightImpliesType DEF TightInv, WebhookTypeOK

LEMMA TightAdvance ==
  ASSUME WebhookInv, TightInv, NEW d \in Dispatchers, Advance(d)
  PROVE  TightInv'
<1> DEFINE p == pass[d]
           q == [p EXCEPT !.next = @ + 1, !.event = 1]
<1>1. /\ pc[d] = "deliver"
      /\ cursor' = [cursor EXCEPT ![d] = p.next]
      /\ pass' = [pass EXCEPT ![d] = q]
      /\ temp' = Truncated
      /\ handle' = [handle EXCEPT ![d] = "temp"]
      /\ pc' = [pc EXCEPT ![d] = "write"]
      /\ UNCHANGED <<chain, settled, file, faults, disturbed>>
  BY DEF Advance
<1>2. p \in TightPasses /\ pass \in [Dispatchers -> TightPasses]
  BY DEF TightInv
<1>3. /\ p.next \in 1..(MaxTx + 1) /\ p.last \in 0..MaxTx /\ p.tries \in 0..(MaxAttempts - 1)
      /\ q = [next |-> p.next + 1, last |-> p.last, event |-> 1, tries |-> p.tries]
  BY <1>2, TightPassIs, TightUpdates
<1>4. p.next <= p.last
  BY <1>1 DEF WebhookInv, PassCovered, InPass
<1> HIDE DEF p, q
<1>5. /\ p.next \in 0..MaxTx /\ p.next + 1 \in 1..(MaxTx + 1)
      /\ 1 \in 1..(MaxEvents + 1)
  BY <1>3, <1>4, ParametersNat
<1>6. q \in TightPasses
  BY <1>3, <1>5, TightPassFields
<1>7. pass' \in [Dispatchers -> TightPasses]
  BY <1>1, <1>2, <1>6
<1>8. cursor' \in [Dispatchers -> 0..MaxTx] /\ pc' \in [Dispatchers -> PCs]
  BY <1>1, <1>5 DEF TightInv, WebhookTypeOK, PCs
<1>9. temp' \in Contents \cup {Absent}
  BY <1>1 DEF Contents
<1>10. handle' \in [Dispatchers -> {"closed", "temp", "file", "unlinked"}]
  BY <1>1 DEF TightInv, WebhookTypeOK
<1> QED
  BY <1>1, <1>7, <1>8, <1>9, <1>10, TightImpliesType DEF TightInv, WebhookTypeOK

LEMMA TightDisk ==
  ASSUME TightInv, NEW d \in Dispatchers, Write(d) \/ Rename(d)
  PROVE  TightInv'
<1>1. /\ file \in Contents \cup {Absent} /\ temp \in Contents \cup {Absent}
      /\ cursor[d] \in Contents
      /\ handle \in [Dispatchers -> {"closed", "temp", "file", "unlinked"}]
      /\ pc \in [Dispatchers -> PCs]
  BY DEF TightInv, WebhookTypeOK, Contents, None
<1>2. CASE Write(d)
  BY <1>1, <1>2 DEF Write, TightInv, WebhookTypeOK, PCs
<1>3. CASE Rename(d)
  BY <1>1, <1>3 DEF Rename, TightInv, WebhookTypeOK, PCs
<1> QED
  BY <1>2, <1>3

(* What ends a pass. *)
LEMMA TightEnds ==
  ASSUME TightInv, NEW d \in Dispatchers,
         EndPass(d) \/ RenameFails(d) \/ Unavailable(d) \/ WriteFails(d) \/ Crash(d)
  PROVE  TightInv'
<1>1. /\ pass' = [pass EXCEPT ![d] = NoPass]
      /\ pc' = [pc EXCEPT ![d] = Ended(d)] \/ pc' = [pc EXCEPT ![d] = "down"]
      /\ handle' = handle \/ handle' = [handle EXCEPT ![d] = "closed"]
      /\ faults' = faults \/ Fault
      /\ disturbed' = disturbed \/ disturbed' = (disturbed \/ d \in Pollers)
      /\ UNCHANGED <<chain, settled, cursor, file, temp>>
  BY DEF EndPass, RenameFails, Unavailable, WriteFails, Crash, Disk
<1>2. pass' \in [Dispatchers -> TightPasses]
  BY <1>1, NoPassTight DEF TightInv
<1>3. faults' \in 0..MaxFaults
  BY <1>1, ParametersNat DEF Fault, TightInv, WebhookTypeOK
<1>4. /\ pc' \in [Dispatchers -> PCs]
      /\ handle' \in [Dispatchers -> {"closed", "temp", "file", "unlinked"}]
  BY <1>1 DEF TightInv, WebhookTypeOK, Ended, PCs
<1> QED
  BY <1>1, <1>2, <1>3, <1>4, TightImpliesType DEF TightInv, WebhookTypeOK

LEMMA TightInvNext ==
  ASSUME WebhookInv, TightInv, [WebhookNext]_webhookVars
  PROVE  TightInv'
<1>1. ASSUME NEW n \in 0..MaxEvents, Land(n) PROVE TightInv'
  <2>1. chain' \in Seq(0..MaxEvents) /\ Len(chain') <= MaxTx
    BY <1>1, ParametersNat DEF Land, TightInv, WebhookTypeOK
  <2> QED
    BY <1>1, <2>1 DEF Land, Disk, TightInv, WebhookTypeOK
<1>2. ASSUME NEW d \in Dispatchers, Start(d) PROVE TightInv'
  <2>1. Loaded(file) \in 0..MaxTx
    BY LoadedInRange DEF TightInv, WebhookTypeOK
  <2>2. cursor' \in [Dispatchers -> 0..MaxTx] /\ pc' \in [Dispatchers -> PCs]
    BY <1>2, <2>1 DEF Start, TightInv, WebhookTypeOK, PCs
  <2>3. disturbed' \in BOOLEAN
    BY <1>2 DEF Start, TightInv, WebhookTypeOK
  <2> QED
    BY <1>2, <2>2, <2>3 DEF Start, Disk, TightInv, WebhookTypeOK
<1>3. ASSUME NEW d \in Dispatchers, Fetch(d) PROVE TightInv'
  BY <1>3 DEF Fetch, Disk, TightInv, WebhookTypeOK, PCs
<1>4. ASSUME NEW d \in Dispatchers,
             EndPass(d) \/ RenameFails(d) \/ Unavailable(d) \/ WriteFails(d) \/ Crash(d)
      PROVE  TightInv'
  BY <1>4, TightEnds
<1>5. CASE UNCHANGED webhookVars
  BY <1>5 DEF webhookVars, TightInv, WebhookTypeOK
<1> QED
  BY <1>1, <1>2, <1>3, <1>4, <1>5, TightCollect, TightDeliver, TightAdvance, TightDisk
  DEF WebhookNext, Step

(* The relay's state keeps its types: a pass stays within the transactions there
   are, an event within its transaction's, the attempts below maxAttempts. *)
THEOREM RelayTypes ==
  WindowCoversHistory => (WebhookSpec => []WebhookTypeOK)
<1> SUFFICES ASSUME WindowCoversHistory PROVE WebhookSpec => []WebhookTypeOK
  OBVIOUS
<1>1. WebhookInit => TightInv
  BY TightInvInit
<1>2. WebhookInv /\ TightInv /\ [WebhookNext]_webhookVars => TightInv'
  BY TightInvNext
<1>3. TightInv => WebhookTypeOK
  BY DEF TightInv
<1> QED
  BY <1>1, <1>2, <1>3, WebhookInvariant, PTL DEF WebhookSpec
=============================================================================
