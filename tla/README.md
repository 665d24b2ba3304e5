# A verification model of TAOP

TAOP keeps an on-chain reputation for autonomous agents on Solana. Agents attest
their own completions, anybody may challenge one with a bond, an authority rules
on the challenge, and agents may also post slashable bonds for capabilities they
advertise. This directory holds TLA+ modules of the program and of the software
around it, the TLC configurations that check them on small instances and TLAPS
proofs that what matters most holds for every instance.

## The system

| Part | State | Operations | Hard behaviour |
|---|---|---|---|
| `programs/taop_reputation`, configuration (`instructions/config.rs`) | `Config`, `PendingAdmin` | `initialize_config`, `update_config`, `set_certifier`, `transfer_admin`, `accept_admin` | a race for the initialization; a proposal replaced or accepted late; values changed while bonds are held |
| reputation (`instructions/agent.rs`, `reputation.rs`) | `Agent`, `Completion`, `Challenge`, one vault per challenge | `register_agent`, `attest_completion`, `challenge_completion`, `resolve_challenge`, `cancel_challenge`, `get_score` | the authority and the challenger race to settle; `init_if_needed` accounts written twice; a shared id counter; lamports sent by strangers; a silent authority |
| capabilities (`instructions/capability.rs`) | `Capability`, `CapabilityIndex`, one vault per record | `register_capability`, `certify_capability`, `slash_capability`, `withdraw_capability_bond` | partial slashes against the rent rule; an index at its limit; donations |
| interface description (`packages/solana/src/idl`) | none | which accounts a transaction declares, and which of them writable | the runtime runs transactions in parallel by what they declare |
| score (`state.rs`; again in `packages/solana/src/pda.ts` and `apps/web/src/lib/format.ts`) | none | `compute_score`, `computeScore`, `scoreMath` | integer widths; three implementations that must agree |
| SDK (`packages/solana/src/client.ts`, `events.ts`) | none of its own; reads accounts, sends transactions | one method per instruction, `discover`, `getScore`, event decoding | several requests around one transaction, each of another slot; logs that others write into |
| MCP server (`packages/mcp-server/src`) | the tool call in progress | tools that call the SDK | arguments of any type; a read after a submission |
| webhook relay (`packages/webhooks/src`) | a cursor in a file | `pollOnce`, `deliverWebhook`, `saveState`, `runDispatcher` | restarts, overlapping processes, unavailable transactions, failing receivers, history longer than its window |
| scripts (`scripts/init-config.ts`, `healthcheck.ts`) | a descriptor file; the problems found | a chain of requests each | others act between the requests; retries |
| example agent (`examples/solana-agent`) | the items to reclaim | the reclaim loop | the listing ages while it is worked through |
| web demo (`apps/web/src`) | a read cache, a client promise, the state of a section | cached reads, refresh | answers that arrive late or out of order; requests that never end |
| benchmark (`benchmark/src`) | simulated histories and rating graphs | mechanisms, attacks, detectors | accounting over long histories; an incremental graph algorithm |
| tests, fuzz targets, CI | none | exercise the above | none of their own |

The handlers of the program interact through three shared things: the one
`Config` account (read by all, its two id counters written by
`attest_completion` and `register_capability`), the balances of the ledger, and the
clock. A transaction is atomic and the runtime serializes transactions that
write one account, so the concurrency is the order in which transactions of many
wallets arrive: between any two calls of one client there may be any calls of
others, transfers outside the program included. The off-chain parts are
ordinary clients; their concurrency is in the time between their requests.

## The modules

| Module | Models |
|---|---|
| `SolanaRuntime` | What the program takes from its host: balances, System transfers under the rent rule (a transaction leaves an account empty or rent-exempt), vault addresses, `checked_add`, the clock. External: modelled from the program's use of it |
| `ProtocolConfig` | `config.rs` and `programdata.rs`: one action per handler, and the loader's change of upgrade authority |
| `Reputation` | `agent.rs` and `reputation.rs`: one action per handler |
| `CapabilityRegistry` | `capability.rs`: one action per handler |
| `TaopProgram` | The components over one ledger, one clock and one `Config` account, and the refinement mapping to `BondEscrow` |
| `BondEscrow` | The abstract promise: a slot takes one bond once, covers it while it holds it, and pays it whole to its owner or to the treasury |
| `TransactionAccounts` | The accounts each instruction declares writable, from the generated interface description, over `TaopProgram` |
| `ReputationClient` | The SDK's calls about completions and challenges, as the reads and the submission each is made of, over the chain of `Reputation` |
| `ToolServer` | The MCP server's validation and its tools that submit transactions, over `ReputationClient` |
| `CapabilityClient` | The SDK's calls about capabilities and `discover`, and the example agent's reclaim loop that makes them, over `CapabilityRegistry` |
| `Operations` | The SDK's configuration calls, `init-config` and `healthcheck`, over `ProtocolConfig` and a loader that deploys |
| `WebhookDispatcher` | `packages/webhooks/src`: processes that collect, deliver and save a cursor, the state file with its temporary file, crashes and failing or lagging nodes, and the refinement mapping to `EventRelay` |
| `EventRelay` | The abstract promise: events are settled one after the other in the order of the chain, none skipped and in the end none left |
| `DemoReads` | The demo's cache, its reads with their timeouts, the hook that runs one read at a time, and which parts of a panel are on the page |
| `ScoreMath` | The three score functions, with the widths of the integers as parameters |
| `ScoreReads` | The SDK's `getScore` as three reads of different slots, while the agent and the configuration change |
| `EventDecoder` | `events.ts` line by line, beside transactions whose programs call each other, log any text and lose the lines that do not fit into the log |
| `Mechanisms` | The benchmark's six mechanisms and two of its attacks, what it draws at random being a choice |
| `CollusionRing` | The benchmark's third attack and the three detectors |
| `MC*` | Values of constants for TLC. `MCAlgorithms` runs `ScoreReads`, `EventDecoder`, `Mechanisms` and `CollusionRing` beside each other, and `MCOffChain` runs `Operations` and `DemoReads`: a behaviour is one of one of them, so that the state space is the sum of theirs, not the product |
| `*Proofs` | The theorems |

### How state and actions correspond to the code

On chain:

* An account that does not exist is `None`; one that does is a record with the
  source's field names. Agents are keyed by authority, completions and their
  challenges by (authority, sequence number), capabilities by (type, creator, id): the
  seeds their addresses are derived from. `Vault` addresses are tuples derived
  from these, so two accounts never share one.
* An action is a transaction that succeeds: Anchor's account constraints, the
  `require!`s and the checks of the transfers are its guard. A transaction that
  fails changes nothing and is a stuttering step.
* `SystemTransfer` checks what the runtime checks of a balance change. The rent
  of program-owned records, fees, URIs and task types are left out, because no
  handler branches on them.
* An index is a set: the program appends, counts and removes, and never reads the
  order.
* The treasury is some wallet. `WalletTransfer` lets its owner spend from it and
  lets anybody send lamports to any account.
* `u64::MAX` is the constant `MaxU64`; a counter that has reached it makes the
  transaction fail (`HasRoom`).
* `TransactionAccounts` says of each action which accounts its transaction may
  change (`Within`). Accounts that are not declared writable must come out of the
  step as they went in, and only who signed may pay.

Clients:

* `ReputationClient` keeps one session with one call at a time. Each read copies
  into `call` what the chain holds at that moment; whatever anybody does before
  the submission makes the copy stale, the wallet's own transactions from another
  process included. Reads the code issues in one `Promise.all` come in any order,
  others in the code's order. `Throw` is a session without a wallet, a failed read, a
  rejected transaction or a confirmation that times out; a transaction that lands after
  its timeout is one of the other steps of the chain.
* `ToolServer` turns an argument into the set of values it is accepted as, which is
  empty when validation refuses it. `serving` is the tool call, and lasts beyond the
  SDK's call for a challenge, whose bond is read back.
* `CapabilityClient` is built in the same way. The id of a registration is the caller's
  (any that the program could issue) or read from the configuration. A listing is a set
  (its ranking is left out), and the score of a creator is any (`low`), because scores
  change in the other component. `before` and `mine` are history for the properties.
* In `Operations` a script is the stage it is at, with the values it has read once it
  has; an expected build and an expected authority are optional, as in the scripts'
  environment. `SdkInitializeConfig` refuses a balance under the rent: the SDK asks for
  a little more than the program does, which is a matter of fees the model leaves out. A
  healthcheck also carries `steady`, a history variable: what has been wrong at every
  moment since it began.
* In `WebhookDispatcher` the history is a sequence of event counts, and a process is a
  program counter, the cursor in its memory and the pass in progress. The loop over
  pages is its closed form `FirstFresh`: the oldest transaction among those collected
  that is newer than the cursor, or, when the pages do not reach the cursor, the oldest
  collected. `saveState` takes three steps (open and truncate `.tmp`, write, rename),
  because two processes use the same `.tmp`; `handle` follows a file that was opened
  under a name it no longer has. A write that fails (`WriteFails`, a full disk) ends the
  pass and leaves `.tmp` truncated and the loop with a cursor that no file has. A
  delivery is settled when the receiver answers or `maxAttempts` are used up. A
  transaction's events are those decoded from its log; what a log that lost lines
  decodes to is `EventDecoder`'s subject. The dead-letter log and the signature of the
  payload are left out.
* In `DemoReads` a value is told by its key and the time it was sampled on chain. A
  promise that is settled and its handlers are one step, as nothing else runs
  in between; a replaced read goes on and still fills the cache. What is not there is
  `Absent`.

Computations:

* `ScoreMath` takes the width of a `u64`, of the `u32` that `get_score` truncates the
  elapsed periods to, and of the integers a double holds, as constants, so that TLC
  reaches all three limits.
* `EventDecoder` keeps the runtime's stack of running programs beside the decoder's
  own, which knows only the lines. Text that another program logs may read like an
  invocation, a return or event data. A line has a length in bytes, and the log a bound:
  a line that does not fit is dropped and takes no room, so a shorter one after it may
  be logged again, and a log has holes rather than an end. How the runtime collects
  its log is external to this repository and modelled to the best of what is known
  of it. `whole` says that nothing has been dropped.
* `Mechanisms` keeps for each agent, beside what the code keeps, the fees it paid and
  the capital it locked, for the balance to be stated. In `CollusionRing` one pass of
  the k-core peeling over all nodes is one step.

Operators marked `mutant` are plausible mistakes; no specification uses them. They
exist to confirm that each property notices the mistake it is meant for.

## What the runs check

| Run | Question | Bounds |
|---|---|---|
| `reputation` | `PendingBondPayable`, `DisputesMatchVerdicts`, `CompletionLogDense`, `CompletionIdsOrdered`, `HistoryKept`, `BondLeavesBySettlement` | 2 agents who are also admin, certifier, treasury and challengers; 2 completions in all (ids 1 and 2, counter at its limit 3); two bond sizes; gifts to one vault; the clock passes the timeout |
| `donation_stranded` | violated: `DonationsNeverStranded` | as `reputation`, one completion |
| `capability` | `CapabilityBondBacked`, `IndexExact`, `CapabilityLifecycle`, `DiscoveryMissesNothing`, `ListingOnlyAges`, `ReclaimLeavesOnlySlashed` | the certifier's session beside 2 keys acting freely, 1 type, 2 ids, index capacity 2, bonds 2 and 3 and penalties 1 and 2 around a rent of 2; gifts to one vault |
| `index_pinned` | violated: `FullIndexReclaimable` | 2 types, 2 ids, index capacity 2 |
| `program` | `TypeOK`, `ImplementsEscrow`, `DeclaredAccountsOnly`, `TimedOutBondReleased` | 2 keys, one completion, one capability, everything interleaved, the counters at their limit, the clock passes the timeout, the program may be paused for ever |
| `client` | `ResolveAccountsFresh`, `LocalRefusalsFinal`, `ReturnedIdNotAhead`, `ServedAsAsked` | one tool server and one SDK user with the certifier's wallet beside 2 keys acting freely on chain (that wallet too), 2 completions, one of them the target of its calls, the clock passes the timeout |
| `attest_id` | violated: `ReturnedIdIsTheCompletions` | as `client` |
| `webhook` | `WebhookTypeOK`, `NothingSkipped`, `ResumesNear`, `ImplementsRelay` | a long-running poller and a `--once` process on one state file, 3 transactions of up to 2 events, 3 pages of 1, 2 attempts, one fault, a node one transaction behind |
| `webhook_gap` | violated: `AtLeastOnce` | one poller, 3 transactions, a window of 1, no fault at all |
| `off_chain` | scripts: `ConfigInRange`, `AdminHandover`, `SteadyDeviationFailsCheck`, `DescriptorNamesTreasury`; demo: `ReadsTypeOK`, `ShownBelongsToSubmitted`, `FreshWithinBounds`, `PanelTellsTheState`, `LoadingEnds` | 2 keys for every role, an admin who may propose nobody, bonds 1 and 2 around a rent of 2, decay 0..3 around the limit 2, no pause (no property is about it), 2 attempts for each request, documented and other builds; for the demo 2 keys, 2 reads at a time, 3 things the user does, entries fresh for 1, timeouts after 2, 6 units of time |
| `algorithms` | `ScoreWasRight`, `WebMathAgrees`, `EventsExact`, `LedgerBalanced`, `TargetReachedThenLost`, `KCoreExact`, `RingCaught` | words of 3 bits, periods truncated to 2, doubles of 2; calls 4 deep, 3 events, logs of 10000 bytes and up to 9 lines of the lengths in `MCEventDecoder`; 2 sybils with 3 attestations each, a target of 5; a ring of 3 beside 4 honest agents with 2 ratings each |
| `forged_event` | violated: `NoForgedEvent` | the decoder as in `algorithms`, one other program |

The bounds are small because every case the code distinguishes is reached with them: a
bond below, at and above the rent; a counter below and at its limit; an index with room,
full and pruned; a vault with and without donations before, during and after a
challenge; a slash that leaves nothing, too little and enough; a log that loses nothing,
a long event before a short one, or the program's own last line; a state file that is
absent, truncated, stale or current; a cache entry that is absent, fresh and expired;
more halvings than a width holds. For the relay, one page of one signature is enough to
have full, partial and empty pages, and one fault at any of its steps is what
distinguishes the orders of delivering and saving; that nothing is skipped under any
number of faults is proved. For the demo, two reads are enough for one to be replaced
and to answer late. The bounded clocks (`MaxClock`, `MaxTime`), counters, inputs and
funds mean the modelled system may stop, so deadlock is not checked. The term of
`LedgerBalanced` for pending challenges is zero in the run, since both attacks resolve
what they challenge at once; that it is right for pending ones is proved.

### Fairness

Safety runs assume none. `program` assumes that the cluster's clock
advances and that a challenger who is able to cancel eventually does: getting the
bond back is the challenger's own interest, the SDK offers `cancelChallenge` for
it, and no account on chain can keep the transaction from succeeding. Nothing is assumed
of the authority: it may never resolve anything and may keep the program paused.

`webhook` assumes that each process that can take a step takes one, which is the
loop of `runDispatcher`, and that a process which is down is started again, by cron or
a supervisor. Crashes, failing calls and lagging answers are never obliged to happen
and are bounded by `MaxFaults`: a node that is down for ever delivers nothing.

`off_chain` assumes of the demo that time passes and timers fire, which is the browser's
event loop. Nothing is assumed of the network, which may never answer, of the user or of
the scripts.

### Where the documentation says otherwise

* `donation_stranded`: `docs/architecture.md` says that because a settlement sweeps
  the vault donations are never stranded. What arrives after the settlement is: no
  instruction moves it any more.
* `index_pinned`: the same document says that a full index cannot be used to block
  new registrations. A record slashed to zero cannot be withdrawn and is never
  pruned, so an index full of them stays full.
* `attest_id`: a comment in `client.ts` (586-588) says that the configuration read
  before the submission holds the id the attestation receives. All agents share the
  counter, so another attestation may take that id first; when the completion
  cannot be read back, `attest` returns the id of somebody else's.
* `webhook_gap`: the webhook package's README and `dispatcher.ts` (180-182) promise
  at-least-once delivery after a long downtime. When more than `maxPages * limit`
  transactions have landed meanwhile, those between the old cursor and the window
  are never delivered, and the cursor moves past them.
* `forged_event`: `events.ts` (18-21) says that no other program can smuggle a forged
  event into a transaction that also invokes TAOP. It cannot while the log is whole. In a
  log that has lost the line which says that TAOP has returned, TAOP stays on
  top of the decoder's stack, and a line of data that another program logs
  afterwards is decoded as an event of TAOP's, provided that it is shorter than
  the lost line (`EventsExact` says so, and is proved).
* `capability`, which passes: four places say that an index keeps the entries of
  withdrawn records. `docs/architecture.md` calls it append-only (77), says that the entry
  "remains as a stale pointer" (90-92) and that "Capacity is never reclaimed"
  (309-311), and a comment in `capability.rs` (245-246) says that indexes may retain it.
  The handler removes the entry (275-279), as the same document says elsewhere
  (149-151). `IndexExact` states what the handler does.

Smaller ones, which the modules state as the code has them:

* The example agent promises to "withdraw every active capability bond"
  (`index.ts:129`). It works through what `discover` returns, which leaves out slashed
  records, so the rest of a partly slashed bond stays (`ReclaimLeavesOnlySlashed` says
  that nothing else does).
* `taop.ts:47` speaks of stale data after a failed refresh. A forced refresh removes
  the cached value before it reads, so that a failure then shows an error.
* The demo's countdown to the next halving is one second late from the second halving
  on: only the first happens one second after its boundary (`WebMathAgrees` allows
  for that second and no more).
* `slowBurn.ts` reports that "decay prevents" a target when its loop ends without
  reaching it. Its attacker attests every day, so decay never sets in and only the
  horizon can end the loop (`TargetReachedThenLost`).
* `getScore` of the SDK answers zeros for an agent that does not exist, where the
  instruction fails; and `get_score` truncates the elapsed periods to 32 bits, which
  `computeScore` does not. With periods of a second that takes 136 years.

## What is proved

The on-chain program, in `TaopProgramProofs`, for every value of
the constants that satisfies the stated assumptions (a positive rent, a positive
`u64::MAX`, markers such as `None` that are no accounts; nothing is assumed finite):

* its invariants `TypeOK`, `ConfigInRange`, `PendingBondPayable`,
  `DisputesMatchVerdicts`, `CompletionLogDense`, `CompletionIdsOrdered`,
  `CapabilityBondBacked` and `IndexExact`;
* what its steps may never do: `AdminHandover`, `HistoryKept`,
  `BondLeavesBySettlement`, `CapabilityLifecycle` and `DeclaredAccountsOnly`;
* that it implements the abstract escrow, `ImplementsEscrow`;
* the safety part of `TimedOutBondReleased`, `BondsStayTakeable`: once a challenge has
  timed out, all that `cancel_challenge` asks for holds, and every step of anybody keeps
  it so or settles the challenge. What is left to fairness is that the clock advances
  and the challenger acts.

The argument for the invariants is one inductive invariant per component and a frame
lemma that says what the other components' steps must leave alone. They are in
`HandlerProofs`, which the proofs about the program and about its clients extend:

* Configuration: vault addresses are distinct from wallets and from each
  other, and what a transfer does to each balance; `ConfigInv`, and that the handlers of
  the configuration leave vaults and counters alone.
* Reputation: `ReputationInv`. `PendingBondPayable` is not inductive: it
  needs `BondsBacked` (a pending bond is at least the rent, and still in its vault),
  which needs `ConfigInRange`. `DisputesMatchVerdicts` needs
  `CompletionLogDense` (the disputed completions are among the first *n*).
  `CompletionIdsOrdered` needs `TimesPast` (no recorded time is in the future).
* Capabilities: `CapabilityInv`. `CapabilityBondBacked` follows from
  `RemaindersBacked` (nothing, or at least the rent, is left of a bond);
  `IndexExact` needs the indexes to be finite for their size to be counted.

The action properties follow handler by handler under these invariants. For the
refinement each handler is shown to be one step of the escrow on the slot of its
vault and a stutter on the others; the rest of the program, gifts to a vault included,
is a step or a stutter of the escrow too.

`ClientProofs` proves `ResolveAccountsFresh`, `LocalRefusalsFinal`,
`ReturnedIdNotAhead` and `ServedAsAsked` of a session among any number of keys. All four
rest on one idea: what a call keeps from a read is something the chain never takes
back (`ChainKept`: history is kept, the treasury never changes, the counter never goes
down). `IdsIssued`, that every id below the counter is that of a completion,
is what makes the id read before the submission harmless.

`CapabilityClientProofs` proves `DiscoveryMissesNothing`, `ListingOnlyAges` and
`ReclaimLeavesOnlySlashed` the same way. What the registry never takes back is
`RecordKept`: an id is issued once, so a record that is gone stays gone; marks stay; a
bond shrinks only with the slashed mark. Each answer of a discovery then has an
invariant of its own that says how it may differ from the chain by now (`BeforeAges`,
`KeysAge`, `RecordsAge`), and `ReclaimAges` carries the last one from the listing to
the end of the loop: what the wallet had is gone, slashed, or still to be withdrawn.

`WebhookDispatcherProofs` proves `NothingSkipped` for any number of processes, crashes
and retries, on the one assumption that the window covers the history (`MaxPages * Limit
>= MaxTx`): `webhook_gap` shows that it is needed. The invariant `WebhookInv` adds two
facts to the property: `CursorsCovered` says the same of the temporary file, which a
rename may make the state file at any time, and `PassCovered` says that a pass has
settled all that precedes the transaction it is at, so the cursor it is about to save is
covered. The same invariant gives `RelayKeepsOrder`, the safety part of
`ImplementsRelay`: a delivery settles the next event of the chain or one that was
settled before. `RestartResumesNear` proves `ResumesNear` from `NearInv`, which follows
one undisturbed process through its pass: the cursor in memory, the transaction at hand,
the temporary file and the state file are never more than one step apart, and the file
just written is still there when it is renamed. A loop that could not save its cursor
counts as disturbed: it goes on from its memory, so that a later restart repeats more
than one transaction. `RelayTypes` proves the type invariant; that a pass never points
past the chain needs `PassCovered` too, since the bound on `next` comes from the pass's
last transaction.

`OperationsProofs` proves `SteadyDeviationFailsCheck`, `DescriptorNamesTreasury` and,
with the loader and the scripts beside the admin, `AdminHandover` again. The invariant
behind the first is `CheckThorough`: what has been wrong since a check began is still
wrong, and a check with nothing to report has looked for everything that the requests
it has made are there to find (`LookedFor`). The second needs only that the treasury of
a `Config` account never changes (`ConfigContinues`).

`DemoReadsProofs` proves `ReadsTypeOK`, `ShownBelongsToSubmitted`, `FreshWithinBounds`
and `PanelTellsTheState` for any keys, reads in flight, timeouts and freshness, on the
one assumption that the marker `Absent` is no key and no time. `ReadsInv` bounds the age of
a value at each place it passes through: a read's sample is at most one timeout old
(`ReadsOnTime`), so a cache entry was sampled at most one timeout before it was stored
(`CacheOnTime`), so what is shown as fresh is at most the sum of both. That every read
which is not cancelled wants what is submitted now (`CurrentReadsWanted`) is what makes
late answers harmless, and `SectionTells` that no panel contradicts its section.

`AlgorithmProofs` proves what the runs check of the parts that work by themselves, for
every value of the constants. Each has an inductive invariant:

* Score: `ScoresWereRight` and `WebComputesTheSame`, for all widths of at least two bits
  and fewer completions than a double holds exactly (`MaxCompletions < 2^SafeBits`).
  `Pow2` is a recursive function and its facts need induction: `LeastNumber` says that a
  set of numbers has a least element, `SetInduction` is induction about a set instead of
  a predicate, and `Recursion` that a function defined by recursion exists. `ScoreInv`
  says that a query nobody has disturbed still agrees with the chain (`QuietReads`).
* Event decoder: `DecodedExactly`, for all lengths of lines and of the log, on the
  assumption that the System program's id is no longer than TAOP's. While the log is whole,
  the stacks of the runtime and of the decoder may differ in every program but this one:
  `StackKnowsTaop` says that both have it at the same distance from the top, and `TaopOnTop`
  that only the System program is ever called by it. Once lines have been lost the stacks
  may differ anywhere; what holds as long as TAOP's return still fits is
  `StackNotDeeper`: where the decoder has TAOP on its stack, the runtime has it too, at
  the same depth or deeper.
* Mechanisms: `LedgerAddsUp` and `TargetIsReachedThenLost`. `Sound` says of a state that
  the accounts of every agent add up with its pending and its rejected challenges, and
  each operation is shown to keep it. `BurnedSo` says what the attacker has after *n*
  attestations: as many completions, and the confirmations of the accomplices whose turn
  it was, so that after enough of them the score is reached; and `Exposed` why nothing
  is left of it once everything is disputed.
* Collusion: `PeelingIsExact`. `PeeledRight` says that a degree counts the neighbours that
  are left, and that nothing has been removed that belongs to a set which holds
  together; when a pass removes nothing, what is left holds together itself.
* `RingIsCaught` has two hypotheses. `RingSize <= 1000`: the code numbers honest agents
  from 1000, and a larger ring would share their numbers. `ReciprocityPercent > 0`: a
  threshold of zero flags everybody who rates anybody, for no cause. The
  default configuration has a threshold of 0.8 and a much smaller ring. (A ring of one,
  which has nobody to rate, is left out by `CollusionAssumption`.)

Only model-checked: `TimedOutBondReleased`, `LoadingEnds` and the eventual part of
`ImplementsRelay`, because liveness under fairness is out of the prover's reach.
The five runs that expect a violation refute what they check; there is nothing to prove.

## What is not modelled

* Of the program: fees, the rent of program-owned records, account serialization,
  URI lengths, log output.
* Of the SDK: `registerAgent`, which submits without reading, `challengeTimedOut`, a
  read for the caller's information, the ranking of a listing, retries of the
  transport. Of the event decoder: the fallback for logs without any invocation
  line, which the runtime does not produce: the first line of a log is an invocation,
  and an empty log has room for it.
* Of the MCP server: read-only tools and `register_capability`, one SDK call each; the
  adapter for another chain, whose contracts are not in this repository.
* Of the relay: the HMAC of a payload and its verification, timers and backoff.
* Of the example agent: its two demonstration loops, straight-line programs of SDK
  calls whose interleavings the client models have already.
* Of the demo: landing pages, charts, styling and content, which keep no state beyond
  a render.
* Of the benchmark: cost ratios, the rubric's grades and the reports, which are
  floating-point summaries of final states.
* Tests, fuzz targets, CI and build files.

## Plan

Every safety property that a run checks is stated by a theorem. What is left, in the order
of what it would add:

1. The safety part of `LoadingEnds`, as `BondsStayTakeable` is that of
   `TimedOutBondReleased`: a read that is waited for stays bound to a timer.
2. The hazards that have a note instead of a property, where a change of the code gives
   them something to promise.
