# A verification project for Dhurandhar

Dhurandhar is an event-sourced "software company": a Python control plane that
takes an objective, auctions it to three engineer agents, lets a coding runtime
change a worktree, gates the change on a review and on its own test evidence,
promotes it inside a sandbox, and keeps everything it did in one hash-chained
JSONL journal. A React client replays that journal.

This directory holds TLA+ modules translated from the code, the TLC
configurations that check them on small instances, and proofs that TLAPS checks
for every instance. `PROJECT.json` is the index: which definition stands for
which lines of the source, which run checks which property, and which slip in
the code each property would catch.

## 1. Inventory

| Component | State it keeps | Operations | Made correct by |
|---|---|---|---|
| Journal, `services/event_store.py` | the JSONL file; per instance a cache of the events it verified | `append`, `all`, `query`, `verify`, opening | acknowledged events survive and stay in order; no reader is shown a wrong or shortened history; a damaged file is refused, not repaired |
| Delivery pipeline, `services/orchestrator.py` 379-509, 898-1534 | nothing durable of its own: run status, ledger and escrow are folds over the journal; in memory the run lock, the background tasks and the method's locals | `create_objective`, `execute_objective`, `reconcile_interrupted_runs` | a run ends once, with its escrow settled; the runtime runs once per objective; credits leave escrow only on evidence |
| Credit ledger, `orchestrator.py` 104-214, 1707-1753 | balances, folded from `ledger.transaction` events | issue, transfer, capped debit | never overdrawn, conserved |
| Incidents and policies, `orchestrator.py` 1935-2251 | folds: run status, release, proposals, active controls | `inject_regression`, `rollback`, `decide_policy` | one open incident per run; a proposal decided once; controls active only when approved |
| Auction, `services/company.py` 350-506 and `orchestrator.py` 511-607 | none (pure) | `run_auction`, `_auction_for` | the best of the fit bids wins, and one wins if any is fit |
| Review gate and Sentinel's checks, `orchestrator.py` 609-896 | the adapter's memory of implementation threads; else pure over the runtime's results | `_parse_jsonl`, `review`, `_review_gate`, `_sentinel_checks` | an implementation cannot review itself; missing evidence never passes |
| Codex runtime, `services/runtime.py` | the Git worktree, the implementation threads | `generate`, `review`, restoration after a failed write | a change starts from a clean worktree, is reported completely, and is undone or flagged when the invocation fails |
| Company reducer, `services/company.py` 604-968 | agents, memory and wallets, folded | constructors of events, `apply_company_event`, `reconstruct_company` | a stale event is refused; a replay by number agrees with what was folded in; an engineer has one task at a time |
| Bootstrapping, `orchestrator.py` 254-377, `main.py` 30-42 | registration, memory and genesis events in the journal | `bootstrap_company`, `bootstrap_seeded_run` | the company is complete, and each of it there once, before anything is delivered or served |
| HTTP API, `api/routes.py`, `core/config.py` | none | submit, inject, rollback, decide, pulse, reads | operators only; errors map to conflicts; the pulse points to a degraded run |
| Replay client, `frontend/src` (`api.ts`, `App.tsx`, `hooks/useReplay.ts`, `lib/replay.ts`) | the snapshot shown, the cursor | refresh, drill, decide, submit | the newest snapshot is shown, a failed drill is not reported as done |

How they interact. A request handler appends `objective.created` and schedules
`execute_objective` as a background task of the same process. The task takes the
process's run lock (a reentrant thread lock) and holds it through the whole
pipeline; injections, rollbacks and decisions take the same lock, so they and
deliveries exclude each other, while `create_objective` and all reads do not
take it. Every step ends in `append`, which takes a `flock` on the file, reads it
again, verifies the chain and compares it with the cache. At a start the process
bootstraps the company, closes the runs it finds open, and serves only then.

What is hard here: the process can die, or an append raise, between any two
appends of a pipeline of some thirty; nothing but the journal survives; the lock
is local to a process while the journal is shared; a write of the journal can be
cut anywhere, and be repeated by the handle that is closed after it; results of
calls, proposals and baselines are read in one event and recorded in a later
one. `PROJECT.json` "hazards" lists these at their lines.

## 2. Modules

`Ledger` has the operators of one posting on a balance sheet. `Delivery` and
`Recovery` extend it.

`Delivery` is the delivery loop of one process. Its durable variables are
folds: `journal` (the types of the events a run has), `balance`, `issued`,
`moved` (what a run's ledger events moved, by kind) and `version`; `proc`,
`tasks` and `job` are the process, and `job` holds the locals of
`_execute_pipeline`: the step due, the winner, its price, the bidders that have
still to pay, the next payee, and the release number that was computed and not
yet recorded. One action is one durable step; each is named after the event or
call it makes. Where the code decides by something the properties do not tell
apart (an agent's bid, a review's verdict, the tests' outcome), the action
chooses; `Auction` (the module) and `Gates` derive those choices. The action
`Auction` chooses a required-capability set and one bid per engineer, and takes a
lowest bid of an engineer that is capable and not dormant.
`PipelineRaises` is an append that raises with the process alive,
`CreateObjectiveRaises` one whose record is on disk all the same, `Crash` and
`Restart` the process, `Redeliver` a second call with the same objective.
`generated` and `stranded` are for an observer: how often the runtime ran for an
objective, and which deliveries raised in the process now alive.

`RunContract` is what the customer of an objective is promised, with neither
steps nor failures: it is accepted, opened, its bounty locked once and released
only while it is open, and it ends once with an empty vault. `Delivery`
instantiates it with folds over its journal and implements it (`KeepsContract`).

`Service` extends `Delivery` back to an empty journal. `facts` counts the
bootstrapping events the journal has (an agent registered, a memory seeded, a
genesis balance issued), `todo` is the set of those the scan at the beginning of
a start found missing, taken in the order of the profiles (`Place`), and `phase`
how far a start has come. Each bootstrapping event is
an append of its own; after any of them the process can die (`BootCrash`, which
`Delivery` does not see), and the next start scans again. A process that had got
further dies by `ServiceCrash`, which is `Delivery`'s `Crash`. Over a new journal, and if so configured, the start delivers the
demonstration objective itself, with `Delivery`'s pipeline, before it reconciles
and serves. `AsDelivery` maps a service to `Delivery`: until the company is whole
the sheet is the genesis sheet, and a demonstration that was created and not
begun is a waiting task. That every service behaves like `Delivery`
(`BootsIntoDelivery`) is what justifies `Delivery`'s initial state.

`EventStore` is the journal file with its instances. The file is a sequence of
pieces, two halves of a record and its newline, so that a write can be cut
inside the JSON, before the newline or between records; `Lines`, `IsObject` and
`Verifies` read it back as the code does. An append is the chain
`BeginAppend, Lock, Build` or `Refuse`, `Write` or `WriteFails`, then
`Acknowledge`, `SyncFails` or `CloseHandle`. `WriteFails` keeps the unwritten
rest in `pending`, because Python's buffered handle does, and gives up the lock,
because `finally` runs before the handle is closed; `CloseHandle` is the second
flush of that rest, without the lock. The world can kill a process, cut the
power (anything not synced may be lost) and edit the last record with or
without recomputing its hash.

`Recovery` is what happens to promoted runs: `log` is the journal by run, in
order, with the fields of the proposals; `op` is the operation holding the run
lock. Status, release, proposals and active controls are folds over `log`, cut at
`QueryLimit` where the code queries with a limit; they are written with the
positions of the events that matter (`Marks`, and the last of them,
`LastMark`), which is also the form that can be proved about. `pulse` is the last event of
the whole journal that `/pulse` looks at, which no order within a run would tell.
Deliveries are one step that
starts and one that ends, since `Delivery` has their insides.

`CodexRuntime` is a write invocation of the Codex CLI: `pc` walks through
`_invoke` one Git command at a time (baseline, child, evidence, or the
restoration that any exception leads to), and between two commands the child,
a process that outlived it, or a human writes, stages or commits. HEAD, index
and worktree map a path to its content, which is who wrote it and during which
invocation; `StatusEntries`, `DiffNames` and `Others` say what `git status`,
`git diff <commit>` and `git ls-files --others` report of them. `GitFails` and
`GitTimesOut` differ because the code treats them differently. A step over many
paths that is cut short has done some of them (`Partly`). `happened` and the
authors are for an observer.

`Gates` is one delivery from the side of evidence. A Codex child prints stream
events in any order, any of them again and again; `stream` is what the parser
keeps of them, and `Parses` and `Accepted` decide as `_parse_jsonl` and `_invoke`
do. A final message is represented by the verdict `_parse_review` reads from it,
a changed file by what Sentinel tells apart (backend, frontend, neither, outside
the worktree). The review gate and the suites are operators on the two results.
A third adapter stands for any object with the protocol's two methods: it calls
itself "codex", requests no reviewer model, and returns any combination of
fields; one that calls itself "deterministic", whose fixtures the gate passes with fewer
questions, is not modelled. `printed` is for an observer. The last thread identifier of a stream
counts, for two different ones are not refused as two models are; a worktree may
change between the capture of the diff and the suites, which the model does not
have.

`Auction` is `run_auction`. The auction only compares its floats, which are numbered
in their order; what float arithmetic makes of the mean of several scores is the
constant operator `Mean`, so that a claim equal to the exact mean may be refused and
a tie on evidence may be one that only rounding makes. `Company` is the
event-sourced company of `company.py`: callers build events from the snapshot
they hold (`Build`), and `ApplyCompanyEvent` folds any that was built and not
applied into any later snapshot, if the reducer accepts it. The repository has no
caller besides its tests, so what callers do is an assumption: they number events
one after the other, put a task to auction once, and report the completion only
of tasks that were awarded, though possibly twice. `Reconstruct` sorts by number
and folds from the seeds.

`MC*` modules give the constants of the runs. The modules named `...Inv` hold the
inductive invariants (`DeliveryInv`, `ServiceInv`, `GatesInv`, `CodexInv`,
`EventStoreInv`, `CompanyInv`, `RecoveryInv`), those named `..._proofs` the
theorems; `Refinement_proofs` has both refinements, of `RunContract` by
`Delivery` and of `Delivery` by `Service`.

## 3. Runs

| Run | Checks | Shows |
|---|---|---|
| delivery | `TypeOK`, eight safety properties and one of steps | the pipeline keeps credits, escrow, evidence and closing consistent under two crashes, one failing append and one repeated execution |
| service | `ServesWhole`, `RunsClose`, `KeepsContract`, `BootsIntoDelivery` | from an empty journal on: the company is whole, and each of it there once, before it delivers or serves; a started run ends, or its delivery raised in a process that never died; the service implements `Delivery`, and the contract |
| delivery_restart | violation of `RestartLeavesNoOpenRun` | an accepted objective whose task is lost in a crash is neither delivered nor failed |
| event_store | `TypeOK`, four invariants, one property of steps, `AppendsEnd` | acknowledged events survive, histories agree, a reader is refused rather than misled, and no failure or death of a lock holder blocks an append for ever |
| event_store_sequences | violation of `SequencesUnique` | the handle's second flush, after the lock, repeats a sequence number |
| event_store_lines | violation of `AckedOnOwnLine` | a record cut before its newline verifies, and the acknowledged record after it makes the file unreadable |
| recovery | `TypeOK`, five invariants | status, release, incidents, the pulse, proposals and decisions stay consistent wherever an operation is cut short |
| recovery_baseline | violation of `ApprovalBeatsActive` | two proposals measured before either was approved are both approved |
| codex_runtime | `TypeOK`, two invariants, two properties of steps, `InvocationsEnd` | what a human left uncommitted is kept, evidence is complete and newer than its baseline, a commit never passes, and a failed write asks for a human only when it has to |
| codex_cleanup | violation of `RestoredOrLoud` | a Git command of the restoration that exceeds its time limit hides that the worktree is still dirty |
| gates | `TypeOK`, `ReleaseIndependent`, `ReleaseTested` | whatever two children print and whatever an adapter returns, a live change is released only on an approval of its own thread, model and provenance, and when the suite of every changed file ran and passed |
| company | `TypeOK`, `ReplayAgrees`, `AwardIsBest`, `FreeMeansFinished` | stale events are refused rather than folded in, a replay by number agrees or is refused, the auction's winner is the one its documentation describes, and an engineer that is free has finished unless dormancy or a repeated report freed it |

Bounds. Two runs are the fewest that share the escrow account, compete for the
lock and promote releases. Three engineers with 3, 2 and 0 credits, a fee of 1
and a penalty of 3 make one of them dormant from the start, one after a single
auction, and let a penalty exceed what is left; bids of 18 and 24 make the
remainder positive and small; bounty, fees and penalty are the code's own. Two
crashes let a reconciliation be cut short and repeated. In the journal two
instances, three appends and one event of each failure let a damaged tail be
followed by an append, an instance restart over it and a cached history be
compared; liveness is checked in the same run, without symmetry. `service`
has the demonstration and one customer's objective, two engineers, two crashes
after and two during bootstrapping, and one fault; seven of the eight profiles with their two memories each let a start be cut short
within an agent and between two. In `CodexRuntime` one tracked and one new
path tell apart what `git restore` and `unlink` each undo, two invocations let
the second meet what the first left, and two mishaps are the fewest in which an
invocation fails and its restoration fails too, or a stray process writes after
a timeout. In `Recovery` two incidents per run yield a
second proposal of the same run, and one crash cuts any operation short; the
runs are interchangeable. 500 is the code's query limit; no run of these bounds
reaches it, so what truncation does is not shown.
In `gates` two threads are the fewest that can differ or coincide, and four
different stream events hold every mixture that the parser tells apart: a thread,
a completed turn, a verdict and one of an error, an unreadable line, a file
change, a model or a second thread; repeating an event changes nothing.
In `company` five events are enough for a penalty that empties a wallet, a
cycle, a reward and a cycle that reactivates, next to an award; skips, which
change nothing, are counted apart. Seeds are lowered to what one or two penalties
use up, and four of the eight agents are kept: the engineers and Aegis. The sets of
bids have ties on cost, on credibility and on evidence, foreign and missing
evidence, a bid for another task, one over the budget and one under the threshold,
and incomplete and doubled sets. `MCMean` rounds the mean of several scores down, as
the code does for 0.1 and 0.7 (0.39999999999999997): one bid claims exactly the
mean of its scores and is refused, another reaches its claim all the same.

`CHECK_DEADLOCK FALSE` is said in three modules only. In `Recovery`, with every
run failed or its incidents used up and every proposal decided, nothing is left to
do; `Gates` ends with a release or a failure; `Company` ends when its events are
built and the rest of them are refused. In the others a quiet system stutters explicitly (`Idle`, `Quiet`).

Fairness. In `Delivery`, weak fairness of the pipeline is the thread that holds
the lock and runs on (its two external calls are bounded by a timeout); weak
fairness of `Execute(r)` is a waiting background task, whose lock is free again
and stays free when no other task comes; weak fairness of `Startup` is
`restart: unless-stopped` in `docker-compose.yml`. Nothing is assumed of
customers, crashes or faults. Strong fairness among tasks is not needed, because
only finitely many deliveries take the lock. In `EventStore`, each step of an
append is weakly fair: a thread runs on, and the kernel wakes a waiter of the
`flock` when it stays free; appends are finitely many. In `Service` a start runs on, and
its first step is the container's restart. In `CodexRuntime` the thread runs on and its time
limits expire; nothing is assumed of the child, which may run until it is killed.
In `Recovery` the holder
of the lock runs on; only the violation uses that specification.

## 4. Proofs

Every safety invariant and every property of steps in the table above, other
than the five violations, is a theorem, as are both refinements. The theorems
hold for all constants that satisfy the assumptions of section 4.1: any sets of
objectives, engineers, store instances, paths and threads, any amounts, and any
number of crashes, faults and mishaps.
None of the properties is inductive as it stands. For each component an
`...Inv` module says what is known at each step at which the code can be
interrupted; the proof has a lemma per conjunct (`...Step`) with a step per
action, or a lemma per operation (`...Inv`), and derives the properties.

### 4.1 Assumptions

| Assumption | Says | Because |
|---|---|---|
| `NamesAssumption`, `CreditsAssumption` (`Delivery`) | accounts have different names; genesis balances are natural, the escrow's is zero; amounts are positive and every bid leaves room for the four fees in the bounty | identifiers of the profiles; the constants of `_execute_pipeline`, and the budget that the auction rejects bids over |
| `BoundsAssumption` | objectives and engineers are finitely many | a journal and a roster are finite; needed for sums and for a greatest version |
| `ServiceAssumption` | every agent has a profile, `SeedRun` is one of the runs, the treasury starts with nothing | `bootstrap_company` goes through the profiles and issues to nobody else |
| `GatesAssumption`, `RuntimeAssumption`, `StoreAssumption` | names are apart, tracked paths are paths, bounds are numbers | |
| `RosterAssumption`, `SeedAssumption`, `RulesAssumption`, `AuctionAssumption` | the roster has no doubles, Aegis is no engineer, seeds, amounts, scores and means are natural, a bid refers to some evidence | `company.py`'s models validate these fields |
| `MeanAssumption` | the mean of one score is that score; of the mean of several nothing is assumed | `run_auction` adds the score to 0 and divides by 1, both exact |
| `RecoveryAssumption` | liabilities are positive, opening balances natural | constants of `rollback`; what `Delivery` proves of the balances |

### 4.2 Delivery and its ledger

That a run is closed with an empty escrow follows
from what it has moved at every earlier step: when payee 4 is due, for instance,
price, review and verification fees have left the escrow and nothing else has;
at "return" the payouts are price and fees, so that the remainder, computed from
the bid alone, is what the account still holds. `DeliveryInv!IInv` is this: types
and no overdraft, who may hold the lock (`LockInv`), what the run has moved
(`StageInv`) and what the journal says of it (`EvidenceInv`) at each step, and
one conjunct per run for the order of its events and the properties that speak
of it (`RunInv`).

Two properties relate all runs. Release numbers are distinct
(`VersionsDistinct`) because the numbers in use are all below `NextVersion`, and
because the one that was read is still `NextVersion` when it is recorded: the
run lock is held from one to the other. The ledger is conserved and the escrow
account backs the runs' escrows (`LedgerStaysSound`, `EscrowStaysBacked`)
because every posting moves both sides of `SumsInv` alike, which needs sums over
any finite set of accounts. `Ledger_proofs` proves these: that a sum adds an
element of one's choice last (`SumAnyElement`), by induction over the subsets of
a finite set, so that an update of one element (`SumUpdate`) and a
transfer (`TransferSum`) change a sum as expected.

### 4.3 The two refinements

`ContractKept`: each action of `Delivery`, under `IInv`, maps to a step of
`RunContract` or to a stutter; most are stutters, because they add no event that
the contract looks at (`QuietStep`). The invariant is needed where the contract
has a guard that `Delivery` does not test: that what is released was locked, and
that the vault is empty when the run ends.

`ServiceDelivers`: `ServiceInv!SInv` says that while a start bootstraps, what is
on its list is exactly what the journal does not say (`ScanInv`), that nothing is
delivered before the company is whole (`WholeInv`), that the sheet is the genesis
of the known agents until a run is started (`SheetInv`), and that until a
process has died reconciliation finds nothing to do (`FirstInv`). Each step then
maps to one of `Delivery` (`DeliveryMaps`, `BootingMaps`, `CrashesMap`).
`WholeWhenServing` comes from the same invariant. This proof found a flaw in the
model: a second death, while the process bootstraps once more, had been counted
as a crash of `Delivery`, which is down at that point and has none; a run with a
single crash could not show it. The run has two now.

### 4.4 Gates and the Codex runtime

`GatesInv` says what each step has established: an accepted stream has a
completed turn, no error and one model (`Sound`), a live result was parsed from
such a stream, past the gate the verdict is an approval of an independent
review, and the suites that ran and those still due are together the ones the
changed files call for (`Called`), or none of them ran (`Refused`).

`CodexInv` says what a restoration may rely on: HEAD is the baseline unless
somebody committed, the index is the baseline's unless somebody staged, what
differs in the worktree was written in this round (`FreshInv`), and what a human
had left there before is the baseline's and never on the list of what is deleted
(`TheirsInv`). `HumanWorkKept` and `EvidenceComplete` are properties of steps
proved from it.

### 4.5 The journal

`Lines`, the splitting of the file at newlines, is a recursive function; its
recursion equation and the shape of its lines (`LinesShaped`, `LinesGrow`) are
proved by well-founded induction over the length of the file. The invariant is
about what any file can become: a line that begins with a whole event either
stays that event or grows into something that never parses again (`Hopeless`),
so what an instance verified remains the beginning of the file, or the file is
unreadable for ever (`Recorded`, `Spoiled`). From this follow that acknowledged
events are durable and are read by whoever can read at all, and that verified
histories agree. Without a fault the file holds what was acknowledged, one event
to a line, and nothing else (`Clean`).

### 4.6 The company

A replay agrees although events are folded in in any order, because an event
that is accepted changes a wallet by its own delta and moves its agent from the
status it names. Balances, and who is in which status, are therefore sums over
the set of events folded in (`Matches`), and two snapshots with the same sums are
equal (`OneSnapshot`). The replay is a fold by number, with a recursion proved
like that of `Lines`. `AwardsAreBest` shows that `Ahead` is a strict total
order on the bids that fit (`AheadTotal`, `AheadTransitive`): by amount, credibility,
rounded mean and id. One of any finite set of them is therefore ahead of all
others. `Mean` may be any operator; only that the mean of one score is that score
is used, for bids with one reference (`OneReference`), as `_auction_for` draws
them up.

### 4.7 Recovery

Where a run stands is a fold over the events that a query returns. The lemmas
`MarksAppend` to `PolicyAppend` say what one more event does to such a fold, and
`HistoryInv` which events may come next. Queries are cut at `QueryLimit`, so all
but the types is stated as `Short => ...`: it holds as long as no run has more
events than a query returns. `Short` is a condition on the states and not on the
constants; it is true of every state until a run has 500 events. Past that the
folds of the code no longer see what is appended, and the properties fail (with
`QueryLimit = 12` TLC finds `StatusMatchesVersion` violated at once): this
is the hazard at `orchestrator.py:1567`, and no theorem can leave the condition
out.

### 4.8 Only model-checked

- Liveness (`RunsClose`, `AppendsEnd`, `InvocationsEnd`): fairness and `ENABLED`
  are beyond the prover.
- The violations are counterexamples of runs, and nothing to prove.
- That `Delivery`'s theorems hold of the mapped service follows from
  `ServiceDelivers` on paper; the prover cannot use the theorems of a module that
  is instantiated with a refinement mapping, so they are not restated. The run
  `service` checks `KeepsContract`.
- The inductive invariants were checked by TLC on the runs' instances before they
  were proved; no run repeats that.

## 5. What is abstracted or left out

- Fields of events that no property reads, identifiers, timestamps and texts.
  Audit-only events (`memory.recalled`, `bid.submitted`, `agent.released`,
  `memory.updated`) belong to the step of their milestone.
- The order in which reconciliation takes open runs is a choice; the code takes
  the order of the journal.
- The health gate after the sandbox monitor compares constants of the same
  method and cannot fail; `Monitor` stands for it.
- The agents' charter (`agents/constitution.md`) asks that a degraded sandbox is
  restored before new work begins; the code does not ask for it, and `Recovery`
  lets a delivery start next to a degraded run. An event of that delivery then
  makes the pulse operational: `PulseTellsIncidents` has it as an exception.
- Two processes on one journal. The run lock is local to a process, so a second
  one could reconcile a run that the first delivers, or bootstrap at the same
  time; the Dockerfile and the compose file start one. `EventStore` has several
  instances, because the store is written for them.
- In `Company` the text of memories, the references of events, and cycle
  identifiers, which the reducer copies; the lists of transactions and skips.
- In `Gates` command lines, environments, version capture and token counts, and
  what an accepted stream lists besides (commands, findings).
- The replay client. The order in which `fetch` answers and React renders is not
  in the repository, so its two hazards are listed and not modelled.
- `scripts/check_submission.py`, configuration parsing and field validation:
  pure functions of text.
- Fsync of the directory: a journal file created just before a power failure
  may be missing as a whole. SHA-256 is taken to have no collisions.
- In `CodexRuntime` the diff and the untracked files are read in one step, and
  ignored files and submodules are left out, as the code leaves ignored files out
  of evidence and restoration. When the child staged, `EvidenceComplete` speaks of
  the names only: a path staged as deleted and then written again is listed, but
  git reports it as deleted and the code does not open it.
- Video, documents, agent charters, CI files, rendering and generated evidence.

## 6. Plan

Done: the modules of section 2; theorems for every safety invariant and every
property of steps that a passing run checks, and both refinements.

Left, in this order:

1. State for `Service` itself what follows from `ServiceDelivers`: that
   `Delivery`'s safety holds of the mapped service, with an invariant over the
   mapped state.
2. Say what remains true in `Recovery` past the query limit, and find the
   property for the hazard that is listed there.
3. The two hazards of the replay client, if its scheduling can be taken from the
   code.
