-------------------------- MODULE WebhookDispatcher --------------------------
(* packages/webhooks/src: processes that walk the signatures of the program    *)
(* backwards to a saved cursor, deliver the events of what is newer, oldest    *)
(* transaction first, and save the cursor after each transaction. Several      *)
(* processes may share one state file: cron starts `--once` passes, and        *)
(* nothing stops one from overlapping the last, or a long-running poller.      *)
EXTENDS Integers, Sequences

CONSTANTS
  Pollers,     \* processes of the loop in runDispatcher
  OneShots,    \* processes started with --once
  MaxTx,       \* bound: transactions of the program
  MaxEvents,   \* bound: events of one transaction
  Limit,       \* maxSignaturesPerPoll
  MaxPages,    \* pollOnce's maxPages
  MaxAttempts, \* deliverWebhook's maxAttempts
  MaxLag,      \* how far an RPC node may be behind
  MaxFaults    \* bound: crashes, failed calls and writes, lagging answers

ASSUME WebhookAssumption ==
  /\ {MaxTx, MaxEvents, MaxLag, MaxFaults} \subseteq Nat
  /\ {Limit, MaxPages, MaxAttempts} \subseteq Nat \ {0}
  /\ Pollers \cap OneShots = {}

Dispatchers == Pollers \cup OneShots

None == 0       \* lastSignature: null; transactions are numbered from 1
Truncated == -1 \* a state file opened for writing and not yet written
Absent == -2    \* no such file

VARIABLES
  chain,    \* the program's transactions, each as the number of its events
  settled,  \* events delivered, or dead-lettered after MaxAttempts
  pc,       \* where each process is
  cursor,   \* state.lastSignature in its memory
  pass,     \* the pass in progress: next and last transaction, event, attempts
  file,     \* the state file
  temp,     \* the `.tmp` file beside it, one for all processes
  handle,   \* where the file each process opened for writing is by now
  faults,   \* faults so far
  disturbed \* history: two processes overlapped, an answer lagged, or the loop
            \* could not save its cursor

webhookVars ==
  <<chain, settled, pc, cursor, pass, file, temp, handle, faults, disturbed>>
Disk == <<file, temp, handle>>

NoPass == [next |-> 1, last |-> 0, event |-> 1, tries |-> 0]
PCs == {"down", "idle", "fetch", "deliver", "write", "rename"}
Contents == {Truncated, None} \cup 1..MaxTx

WebhookInit ==
  /\ chain = <<>>
  /\ settled = {}
  /\ pc = [d \in Dispatchers |-> "down"]
  /\ cursor = [d \in Dispatchers |-> None]
  /\ pass = [d \in Dispatchers |-> NoPass]
  /\ file = Absent
  /\ temp = Absent
  /\ handle = [d \in Dispatchers |-> "closed"]
  /\ faults = 0
  /\ disturbed = FALSE

(* Type invariant. *)
WebhookTypeOK ==
  /\ chain \in Seq(0..MaxEvents) /\ Len(chain) <= MaxTx
  /\ settled \subseteq (1..MaxTx) \X (1..MaxEvents)
  /\ pc \in [Dispatchers -> PCs]
  /\ cursor \in [Dispatchers -> 0..MaxTx]
  /\ pass \in [Dispatchers -> [next : 1..(MaxTx + 1), last : 0..MaxTx,
                               event : 1..(MaxEvents + 1), tries : 0..MaxAttempts]]
  /\ file \in Contents \cup {Absent}
  /\ temp \in Contents \cup {Absent}
  /\ handle \in [Dispatchers -> {"closed", "temp", "file", "unlinked"}]
  /\ faults \in 0..MaxFaults
  /\ disturbed \in BOOLEAN

-----------------------------------------------------------------------------
(* Mutant: whatever is in the file counts. *)
Mut_TruncatedParsed(content) == content

(* loadState: an absent file and one that does not parse are no cursor. *)
Loaded(content) == IF content >= 1 THEN content ELSE None

(* Mutant: without a cursor in reach, nothing counts as new. *)
Mut_NothingFreshWithoutCursor(seen, c) == IF c \in 1..seen THEN c + 1 ELSE seen + 1

(* The oldest transaction a pass handles, when the node that answers has seen
   the transactions up to `seen`. The pages reach back MaxPages * Limit
   signatures at most; a cursor they do not reach is not found, and then all
   that was collected counts as new. *)
FirstFresh(seen, c) ==
  LET reach == seen - MaxPages * Limit + 1
      oldest == IF reach >= 1 THEN reach ELSE 1
  IN IF c \in oldest..seen THEN c + 1 ELSE oldest

(* Everything up to transaction c of a history ch is among the settled events. *)
Covered(ch, events, c) ==
  c \in 0..Len(ch) /\ \A t \in 1..c : \A i \in 1..ch[t] : <<t, i>> \in events

Fault == faults < MaxFaults /\ faults' = faults + 1

(* What is left of a pass that returns or throws: --once exits. *)
Ended(d) == IF d \in OneShots THEN "down" ELSE "idle"

-----------------------------------------------------------------------------
(* The program lands a transaction with n events. *)
Land(n) ==
  /\ Len(chain) < MaxTx
  /\ chain' = Append(chain, n)
  /\ UNCHANGED <<settled, pc, cursor, pass, Disk, faults, disturbed>>

Start(d) ==
  /\ pc[d] = "down"
  /\ pc' = [pc EXCEPT ![d] = "idle"]
  /\ cursor' = [cursor EXCEPT ![d] = Loaded(file)]
  /\ disturbed' = (disturbed \/ \E e \in Dispatchers : pc[e] # "down")
  /\ UNCHANGED <<chain, settled, pass, Disk, faults>>

(* getSignaturesForAddress, page by page. `before` pins the pages to the first
   answer, so what lands meanwhile is left to the next pass. *)
Collect(d) ==
  /\ pc[d] = "idle"
  /\ \E seen \in {s \in (Len(chain) - MaxLag)..Len(chain) : s >= 0} :
       /\ IF seen = Len(chain) THEN UNCHANGED faults ELSE Fault
       /\ disturbed' = (disturbed \/ seen < cursor[d])
       /\ pass' = [pass EXCEPT ![d] = [next |-> FirstFresh(seen, cursor[d]),
                                       last |-> seen, event |-> 1, tries |-> 0]]
  /\ pc' = [pc EXCEPT ![d] = "fetch"]
  /\ UNCHANGED <<chain, settled, cursor, Disk>>

(* getTransaction of the oldest one that is left. *)
Fetch(d) ==
  /\ pc[d] = "fetch"
  /\ pass[d].next <= pass[d].last
  /\ pc' = [pc EXCEPT ![d] = "deliver"]
  /\ UNCHANGED <<chain, settled, cursor, pass, Disk, faults, disturbed>>

(* Mutant: a transaction the node does not have is passed over. *)
Mut_UnavailableSkipped(d) ==
  /\ pc[d] = "fetch"
  /\ pass[d].next <= pass[d].last
  /\ Fault
  /\ pass' = [pass EXCEPT ![d].next = @ + 1]
  /\ UNCHANGED <<chain, settled, pc, cursor, Disk, disturbed>>

(* The node does not have it (or the call throws): the pass ends where it is. *)
Unavailable(d) ==
  /\ pc[d] = "fetch"
  /\ pass[d].next <= pass[d].last
  /\ Fault
  /\ pc' = [pc EXCEPT ![d] = Ended(d)]
  /\ pass' = [pass EXCEPT ![d] = NoPass]
  /\ UNCHANGED <<chain, settled, cursor, Disk, disturbed>>

EndPass(d) ==
  /\ pc[d] = "fetch"
  /\ pass[d].next > pass[d].last
  /\ pc' = [pc EXCEPT ![d] = Ended(d)]
  /\ pass' = [pass EXCEPT ![d] = NoPass]
  /\ UNCHANGED <<chain, settled, cursor, Disk, faults, disturbed>>

(* One POST of one event. An answer that is not 2xx, or none, is tried again;
   the last failure is logged as a dead letter and the pass goes on. *)
Deliver(d, answered) ==
  LET p == pass[d]
      done == answered \/ p.tries + 1 = MaxAttempts
  IN /\ pc[d] = "deliver"
     /\ p.event <= chain[p.next]
     /\ settled' = IF done THEN settled \cup {<<p.next, p.event>>} ELSE settled
     /\ pass' = [pass EXCEPT ![d] =
                   IF done THEN [p EXCEPT !.event = @ + 1, !.tries = 0]
                           ELSE [p EXCEPT !.tries = @ + 1]]
     /\ UNCHANGED <<chain, pc, cursor, Disk, faults, disturbed>>

(* Mutant: the cursor is saved once, at the end of the pass. *)
Mut_SavedAtEndOfPass(d) ==
  LET p == pass[d]
  IN /\ pc[d] = "deliver"
     /\ p.event > chain[p.next]
     /\ cursor' = [cursor EXCEPT ![d] = p.next]
     /\ pass' = [pass EXCEPT ![d] = [p EXCEPT !.next = @ + 1, !.event = 1]]
     /\ IF p.next < p.last
          THEN pc' = [pc EXCEPT ![d] = "fetch"] /\ UNCHANGED <<temp, handle>>
          ELSE /\ temp' = Truncated
               /\ handle' = [handle EXCEPT ![d] = "temp"]
               /\ pc' = [pc EXCEPT ![d] = "write"]
     /\ UNCHANGED <<chain, settled, file, faults, disturbed>>

(* All events of the transaction are settled: the cursor in memory moves, and
   saveState opens the temporary file, emptying it if it is there. *)
Advance(d) ==
  LET p == pass[d]
  IN /\ pc[d] = "deliver"
     /\ p.event > chain[p.next]
     /\ cursor' = [cursor EXCEPT ![d] = p.next]
     /\ pass' = [pass EXCEPT ![d] = [p EXCEPT !.next = @ + 1, !.event = 1]]
     /\ temp' = Truncated
     /\ handle' = [handle EXCEPT ![d] = "temp"]
     /\ pc' = [pc EXCEPT ![d] = "write"]
     /\ UNCHANGED <<chain, settled, file, faults, disturbed>>

(* The content goes to the file that was opened, under the name it has by now:
   another process may have renamed it. *)
Write(d) ==
  /\ pc[d] = "write"
  /\ temp' = IF handle[d] = "temp" THEN cursor[d] ELSE temp
  /\ file' = IF handle[d] = "file" THEN cursor[d] ELSE file
  /\ handle' = [handle EXCEPT ![d] = "closed"]
  /\ pc' = [pc EXCEPT ![d] = "rename"]
  /\ UNCHANGED <<chain, settled, cursor, pass, faults, disturbed>>

(* writeFileSync throws (a full disk) and leaves the file empty; saveState and
   the pass end before renaming. The loop goes on from the cursor in its memory,
   which the file does not have. mkdirSync or the opening of the file may throw
   as well: then an older content stays in the temporary file, where nobody
   reads it. *)
WriteFails(d) ==
  /\ pc[d] = "write"
  /\ Fault
  /\ handle' = [handle EXCEPT ![d] = "closed"]
  /\ pc' = [pc EXCEPT ![d] = Ended(d)]
  /\ pass' = [pass EXCEPT ![d] = NoPass]
  /\ disturbed' = (disturbed \/ d \in Pollers)
  /\ UNCHANGED <<chain, settled, cursor, file, temp>>

Rename(d) ==
  /\ pc[d] = "rename"
  /\ temp # Absent
  /\ file' = temp
  /\ temp' = Absent
  /\ handle' = [e \in Dispatchers |-> CASE handle[e] = "temp" -> "file"
                                        [] handle[e] = "file" -> "unlinked"
                                        [] OTHER -> handle[e]]
  /\ pc' = [pc EXCEPT ![d] = "fetch"]
  /\ UNCHANGED <<chain, settled, cursor, pass, faults, disturbed>>

(* Another process has renamed it away: renameSync throws, the pass is over.
   The loop keeps the cursor it has in memory. *)
RenameFails(d) ==
  /\ pc[d] = "rename"
  /\ temp = Absent
  /\ pc' = [pc EXCEPT ![d] = Ended(d)]
  /\ pass' = [pass EXCEPT ![d] = NoPass]
  /\ UNCHANGED <<chain, settled, cursor, Disk, faults, disturbed>>

(* The process is killed, or stops between two passes. *)
Crash(d) ==
  /\ pc[d] # "down"
  /\ Fault
  /\ pc' = [pc EXCEPT ![d] = "down"]
  /\ pass' = [pass EXCEPT ![d] = NoPass]
  /\ handle' = [handle EXCEPT ![d] = "closed"]
  /\ UNCHANGED <<chain, settled, cursor, file, temp, disturbed>>

Step(d) ==
  \/ Start(d)
  \/ Collect(d)
  \/ Fetch(d)
  \/ EndPass(d)
  \/ \E answered \in BOOLEAN : Deliver(d, answered)
  \/ Advance(d)
  \/ Write(d)
  \/ Rename(d)
  \/ RenameFails(d)

WebhookNext ==
  \/ \E n \in 0..MaxEvents : Land(n)
  \/ \E d \in Dispatchers : Step(d) \/ Unavailable(d) \/ WriteFails(d) \/ Crash(d)

WebhookSpec == WebhookInit /\ [][WebhookNext]_webhookVars

(* A process that can take a step takes one, and what is down is started again
   (by cron or a supervisor). Faults are bounded by MaxFaults, so they end. *)
FairWebhookSpec == WebhookSpec /\ \A d \in Dispatchers : WF_webhookVars(Step(d))

-----------------------------------------------------------------------------
(* At-least-once: what a process would resume from, a cursor in the file or in
   its memory, has nothing behind it that was not delivered or dead-lettered. *)
NothingSkipped ==
  \A c \in {Loaded(file)} \cup {cursor[d] : d \in Dispatchers} :
    Covered(chain, settled, c)

(* At-least-once, as the package's README states it: a cursor that moves on from
   a transaction it had already reached leaves nothing unsettled in between. It
   fails when more than MaxPages * Limit transactions landed since. *)
AtLeastOnce ==
  [][\A d \in Dispatchers : cursor[d] # None =>
       \A t \in (cursor[d] + 1)..cursor'[d] : \A i \in 1..chain[t] :
         <<t, i>> \in settled]_webhookVars

(* A restart resumes near the last transaction that was handled: as long as
   processes do not overlap, no answer lags and the loop can save its cursor, a
   crash at any point, and a `--once` pass that cannot save, cost the events of
   one transaction at most. *)
ResumesNear == ~disturbed => \A e \in settled : e[1] <= Loaded(file) + 1

Relay == INSTANCE EventRelay

(* The processes together do what EventRelay promises: events are settled in
   the order of the chain, across restarts, retries and overlaps, and every
   event is settled in the end. *)
ImplementsRelay == Relay!Spec

=============================================================================
