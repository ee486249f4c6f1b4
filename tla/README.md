# AuthDiff in TLA+

AuthDiff replays the HTTP requests of one user under the credentials of the
others and reports what the application gave to the wrong one. This directory
holds a model of it in TLA+: twelve TLC runs check it on small instances, and
eight modules of proofs, checked by TLAPS, establish every invariant and action
property of those runs for every value of the constants. Paths below are relative to the repository.

- [1. The system](#1-the-system)
- [2. The modules and the code](#2-the-modules-and-the-code)
- [3. The runs](#3-the-runs)
- [4. Fairness](#4-fairness)
- [5. The proofs](#5-the-proofs)
- [6. What was found](#6-what-was-found)
- [7. What is not modelled](#7-what-is-not-modelled)
- [8. Plan](#8-plan)

## 1. The system

A command (`run`, `bfla`, `seed`, `race`) is one Python process with one asyncio
event loop. Inside a command, coroutines interleave at each `await`; between
commands, only a state file and the application under test persist.

```
 config, captures ──> parsers ──> build_matrix ──> DifferentialRunner ──> report
                                                    │  ▲        │
                                     one call per   │  │answer  │ oracles
                                     baseline/task  ▼  │        ▼
 state file <──> CanaryMint          AsyncHttpClient.request   findings by id
                    │                   │  guard() ──> ScopeGovernor
                    │ seed              │               gate, token bucket
                    ▼                   ▼  semaphore
               application  <────────  httpx          racer ──> h2 over TLS
```

### Components

| Component | State | Operations | What makes it correct |
|---|---|---|---|
| Token bucket (`safety/governor.py`) | `_tokens`, `_ts`, a lock with its FIFO | `take` | in every window a bounded number of calls returns; every caller is let through |
| Scope governor (`safety/governor.py`) | `_killed`, the kill file, `_pinned`, a semaphore | `assert_allowed`, `guard`, `kill` | nothing out of scope, no forbidden write, nothing after a stop but what was already cleared; a clearance is not undone by the resolver |
| HTTP client (`network/client.py`) | per call: the attempt | `request` | a permit is released on every path; one send for one pass of the gate; a bounded number of sends; each call ends |
| Replay matrix (`engine/matrix.py`) | the loop indices, `seen`, the list | `build_matrix` | one task per fingerprint and actor, none missing, never the owner's own |
| Runner (`engine/runner.py`) | baselines, errors, findings, the cookie jar of the client that all calls share | `run`, `_baseline`, `_run_task`, `_auth` | nothing found is lost, the summary adds up, a proven finding is a disclosure, the run ends |
| Oracles (`core/oracles.py`) | none | `evaluate` of BOLA, BFLA, mass assignment, race | a finding follows from the answer that it cites |
| Canary mint, key ring (`core/canary.py`) | keys, the active key, a registry | `mint`, `attribute`, `rotate`, `export` | a canary can be attributed by each later process that has its key, over rotations; nothing else is attributed |
| State file (`cli/main.py`) | a JSON document on disk | `_load_mint`, `_save_mint` | the keys are on disk before they are used, and are neither replaced nor lost |
| Command line (`cli/main.py`) | the steps of each command, its exit code | `run`, `bfla`, `seed`, `race` | the exit code says what happened |
| Racer (`network/racer.py`) | the statuses collected | `race` | a status is counted once and kept; what is reported as proven did happen |
| Test lab (`testlab/app.py`) | profiles, a coupon | its handlers | what it leaks is proven, what it does not leak is not |
| Parsers, tagging (`inputs/`) | per HAR file: the fingerprints seen | `parse`, `tag_request` | each object reference in a file reaches the matrix, for the identity whose file it is |
| Configuration (`config.py`) | none | `load` | fewer than two identities are refused |
| Report writers, webhook, log filter, self-test, HTTP/3 stub | none | | formatting, see section 7 |

### How they interact, and where it is hard

- *Concurrency.* All replays of a run are coroutines under one `gather`. They
  share the bucket's lock, the semaphore, the pins and the kill switch. The
  gate is read first; a request then waits for a token, and after that for a
  permit, so that a decision is old when it takes effect.
- *Retries.* A 429 releases the permit, sleeps, and starts again at the gate, in
  competition with first attempts.
- *Failures.* A send may raise; the governor may refuse a first attempt or a
  retry; a plugin oracle may raise. The runner swallows all of it. A plugin may also return a
  finding that has the id of a built-in one, and comes after it.
- *Ordering.* Captures are joined, file after file, and what comes first may hide
  what comes later; matrix and baselines are built in that order; workers finish in
  any order; findings merge by an id.
- *Shared state.* Baselines and replays use one httpx client, so that a cookie which the
  application sets for one identity goes out with the requests of the next.
- *Effects.* With `--allow-writes` the replays themselves change the application
  while others read it. `seed` has changed it before.
- *Crashes.* `_save_mint` empties the file before it fills it. A `seed` that is
  killed half way has planted some canaries.
- *Overlap.* Nothing keeps two commands from running at the same time over one
  state file.
- *Streams.* The racer's statuses arrive in any order and cut into any chunks;
  a stream may get none.

Each of these is an entry under `hazards` in `PROJECT.json`, at the line of the
code, with the properties that would catch it or the reason why none does.

## 2. The modules and the code

```
 TokenBucket ◁── BucketRate      Intake ──▷ Matrix ◁──┐          StateFile ◁── Commands
     ▲                                                ├── Runner ◁── Lab
     │ Bucket                             Oracles ◁───┘
   Egress ──implements──> PoliteClient                           Racer       Mint
     │ Gate
     ▼
  Governor
```

◁ is EXTENDS, a named arrow an INSTANCE. `MC*` modules give constants values for
TLC, `*Proofs` modules hold theorems. Operators whose comment starts with
"Mutant" are wrong variants of a definition and belong to no specification;
`PROJECT.json` says which property each of them breaks. `PROJECT.json` also maps
every definition to its lines.

**TokenBucket** is `_TokenBucket`. `level` is `_tokens`, `age` is `now - _ts`,
`queue` is the lock: its head holds it, the rest wait in order, and `sleeping`
says that the holder is in `asyncio.sleep`. Time is discrete; the unit of
`level` is what one tick earns, so that the code's floats become integers and a
token is `Period` units. `Enter` arrives at the lock, `TakeNow` is the fast path,
`FallAsleep` and `WakeUp` the slow one. The sleep may end late, never early. An age
above the capacity acts like one at the capacity, so it is counted no further
(`Cap`); this makes the state finite and loses nothing.

**BucketRate** adds an observer who may start a stop-watch at any instant and
counts the calls that return.

**Governor** is `assert_allowed` with its four outcomes in the order of the
code (kill switch, scope, write check), `kill`, and an environment: the person at
the kill file, and a resolver that may change its answer at any time. A host that
a glob admits is never resolved; one that no glob admits is resolved and pinned
before its address is compared.

**Egress** is `AsyncHttpClient.request` with `guard`. A step is what the event loop
runs between two awaits that suspend, which is why `PassGuard` joins the check and
the entry in the bucket's queue: nothing suspends in between. `pc` names the
await of each request ("bucket", "sem", "inflight", "backoff"). `sent` and `late`
are histories. The semaphore is a counter and a FIFO, as asyncio's is: a permit
that is released goes to the one that waits longest.

**PoliteClient** is the abstract specification of the traffic: a send spends an
admission, an admission is given only while the run is not stopped and is good
for one send, at most `Cap` are in flight, a request has at most `Sends` of
them. Egress implements it, with the phase of a request as the refinement
mapping (`Phase`); the bucket, the gate, the queues and the back-off are
hidden.

**Matrix** is `build_matrix`, one action per way through the body of the inner
loop. A request is its owner, its target (method and URL up to the query
string, of which the fingerprint is a hash) and its query.

**Intake** EXTENDS Matrix and is the command `run` up to it. `observed` begins as the
list of the configuration; each `--input` is opened (`OpenFile`), refused
(`UnknownIdentity`, `Undetected`) or found broken half way (`Malformed`); the items of
a file become requests (`KeepItem`) or not (`SkipItem`), as the parser of its format has
it; a Postman folder is replaced by what it holds (`EnterFolder`), which is the
recursion of `_walk`. `todo` is the rest of the document, `kept` is `seen` of `har.parse`.
When all is read, `BuildMatrix` takes the steps of Matrix.

**Oracles** holds what each oracle concludes, as sets of findings. `Marks[text]` is
`attribute_detailed` of a body. `Id` names what the code hashes. `Plugin` is an oracle of a third
party: it returns any finding, also one that a built-in oracle might have returned, or none, or raises.

**Runner** EXTENDS Matrix and Oracles: the matrix is built, baselines are
fetched one after the other (`FetchBaseline`, `BaselineFails`), replays run in
any order (`Answered`, `Failed`), and `Finish` merges. `Registry` is the sequence of
the registered oracles, and `batch` has what each of them found of each task, so that
`Merged` is the dict over all findings in the order of tasks and oracles: of the findings with
one id the last one stays, within a task as well.

`ReplayHeaders` is `_auth`, `BaselineHeaders` is `_baseline`: names of headers, as they are spelled, with
the identity whose credential each holds. `Presented` adds the cookies: a captured or configured `Cookie` header
goes out alone; without one httpx sends the cookies of the call and those of its jar. The server reads one carrier of
credentials, takes the client for one of the users it finds there (`TakenFor`) and may give any of its `Answers` to
that user. An answer may set a session, which `jars` keeps. Baselines are fetched one after the other, so there the jar has the
last session set (`Replaced`); the replays start together and their answers come in any order, so that a
replay may be sent with any session that the jar has had since they began (`Added`). A call that fails may have been
answered before (a 429, an answer that was cut off), and its cookie is kept. A call of the client is one step here: Egress
shows that it ends. `replied` is a history.

**Lab** EXTENDS Runner with the application: `bio` is `PROFILES`, `Handle` the two
handlers of `testlab/app.py`, and each call of Runner is joined with its effect. A call
that raises may have taken effect or not (`PerhapsDone`); a write that the governor
refuses has none (`Allowed`). Before the run, `seed` writes the canary of each identity
under that identity's credentials (`SeedNext`), and may stop half way (`SeedRaises`). With
`unchecked` FALSE the lab checks who reads, which the code of the lab does not: that one
stands for an application without the flaw. The lab sets no cookie. `LabConstants` says what the constants of Runner are
for this application: it is a hypothesis of the theorems about Lab, not an assumption of Runner, and MCLab has TLC evaluate it. Seed and run share a key ring here; whether
they do is the subject of Commands.

**StateFile** is the file, torn between `open` and the end of `json.dump`, the rings in
the memory of each process, and the attribution of a canary by its key.
**Commands** EXTENDS it with up to three processes, each of which runs one
command, from the command line to its exit code. They may overlap,
be killed at any step (`Crash`) and raise at any step (`Uncaught`). `Seed` plants one
canary, `Leak` brings one back to `run`; the server may store a canary or not.
Between two commands the user may remove the state file: its keys are gone (`forgotten`) while
their canaries stay in the application. `clash` says that two processes found no file at the same time, `cut` that
one ended between the open and the dump. Commands never rotate, so a ring is one key there.

**Mint** is `core/canary.py` whole, one process at a time: a ring with several keys
(`Rotate`), what was saved of it (`Save`), what is lost when the process ends (`Stop`), the
registry, and `attribute` as a search through a text. A text is a sequence of pieces, since the
expression `_TOKEN_RE` is greedy: what matters is what touches what. `Begins` says whether a match can begin
at a token, `Matches` are those of `findall`, from left to right, and `TagEnds` says whether a match
ends with the tag.

**Racer** is the client of the race and its server. The client holds back a byte,
sends all of them, and reads chunks of any length until it has a status per
stream, or the connection closes, or the time is up. The server is the coupon of
the test lab, with the check, the read and the write of `-=` as three steps, or
one that does all at once. It may fail with a 500 or reset a stream before it acts (`Fault`) or
after (`Store`, `Redeem`), and it may close the connection.

## 3. The runs

Eight runs pass. Four end in a violation, of a sentence in the repository; they
are in section 6. For every property of a passing run there is a mutant of the code
that breaks it under the same configuration.

| Run | Module | Instance | Distinct states |
|---|---|---|---|
| `bucket_rate` | MCBucketRate | 3 callers, `Period` 3, `Burst` 2, windows up to 9 ticks | 25 501 |
| `egress` | MCEgress | 3 requests (one a PUT), 1 permit, 1 retry, kill file, a host known by name and one by address, a resolver with three answers | 127 872 |
| `intake` | MCIntake | up to 1 configured request and 2 files out of 43, 3 identities of which one is unknown | 60 199 |
| `runner` | MCRunner | all captures of up to 2 of 4 requests, 4 oracles of which one is a plugin, a server that sets a session for one user | 85 813 |
| `commands` | MCCommands | 3 processes, 1 identity, 4 keys, processes and keys interchangeable | 326 098 |
| `racer` | MCRacer | 3 streams, capacity 1 | 121 319 |
| `lab` | MCLab | all captures of up to 2 of 10 requests, lab with and without the check, run with and without writes | 462 900 |
| `mint` | MCMint | 3 keys, interchangeable, 2 canaries of all types, 2 identities of which one is outside the pattern | 15 366 |

**`bucket_rate`** `GrantBound`: a window of `span` ticks lets at most
capacity + 1 + 2·span/Period calls through. `EveryCallerServed`: who waits is let
through. The longest window is nine ticks, three tokens long: enough for the
bucket to be emptied, to fall asleep and to wake twice. Three callers are a
sleeper, one who waits behind and one who comes again. The window has no
influence on the bucket, and the theorem has no bound at all. `RateInv` is the inductive
invariant of that theorem: the types and `CreditBound`.

**`egress`** `PermitsConserved`: permits and sends in flight add up to the cap on
every path. `KillCostsOneSend`: after the kill switch is engaged a request is sent at most
once, the send for which it had been cleared. `ClearedWhileOnItsWay`: whatever the
resolver answers later, what was cleared is still in scope when it is sent and
answered. `EveryRequestEnds`. `ImplementsPoliteClient`. `EgressInv` is the inductive invariant of the
proofs; one of its parts is `OneSendPerAttempt`, a send for each pass of the gate. The two
reads go to a host that is always admitted and to one that is admitted by what the resolver
says; the PUT is refused at the gate in every order with the others. One permit makes every
request wait for every other, and a bucket of one token, which takes two ticks to earn, makes them
wait there, too; the kill file comes and goes at any step. The theorems of
section 5 hold for any number of requests, permits and retries and for allowed writes.

**`intake`** `EachCellOnce`, `FirstCaptureReplayed` (a task replays the earliest
capture with its key which its actor does not own) and `NoCellMissed` (every
cell that is owed a task has one, up to the fingerprint) are the loop invariant of
`build_matrix`. `OwnersAttributed`: a request is observed for an identity in whose file it
is. `ReferencesReplayed` goes from end to end: each object reference in a file is replayed by
every other identity, up to the fingerprint, unless an untagged request of its own HAR file hides
it. `IntakeInv` is the inductive invariant of the proofs. The files are all HAR captures of up to two of three requests (a path that is a reference, a
path that is none, and the latter with a query), and of the rest of what the parsers tell apart one
file each: an asset, an item without a URL, a broken document, folders in folders, a method
that `openapi.parse` ignores, an unknown format. Two files make all orders of an own request, a
stranger's and a duplicate meet; the properties compare files pairwise.

**`runner`** `EveryTaskAccounted` (judged tasks and errors add up to `tasks_run`),
`MergeLosesNothing` (whatever a built-in oracle returned is in the report, or in its place
what a plugin returned under its id), `LeaksReported` (so is the proof of each foreign canary in an
answer, whatever else raised), `ProvenMeansDisclosed` (a proven finding is about something that the application
gives to the actor, to anyone, or, where it reads the cookie, to a user whose session it has set itself), `RunEnds`. Two captured
requests make up to four tasks. The server has an endpoint that serves everybody's data to every
user and one that serves each his own and starts a session for Bob there; users are told apart by the cookie, which
the captured requests carry, too. Bob's session is enough for every mixture: it is set by his baseline before the replays, by a replay
between others, or by a call that fails. The plugin is registered last, as `run` does it, and may raise, find nothing, or return
on any task a heuristic finding with the id of a proof.

**`commands`** `PlantedKnown`: a state file that can be read confirms every canary in
the application. `KeysSurvive`: the key of each is in the file, or in a process that is about to fill it, unless
a process has died in between (`cut`). `CleanMeansNoLeak`: a run that exits with 0 was given no canary of
another identity. All three speak of canaries whose keys the user has not removed with the file. `CommandsInv` is the inductive invariant of both: `OneRing`, all that have a ring
have the same, with what each place of a command implies. All of it is stated
for histories in which no two processes found the file missing at the same time
(`clash`), see section 6. Three processes are a `seed` that dies, one that overlaps
it and a later `run`. One identity is enough: identities differ in the owner of a
canary only, and what can be lost is the key. The runs stop when each process has
run its command, hence no check for deadlocks.

**`lab`** `LeakProven`: in a run without writes each answer that held a seeded profile of
somebody else is reported as proven, whatever part of seed or run failed. `ProofsAreTrue`: in every interleaving
of replayed writes, with canaries or without, and reads, a proven BOLA names a profile, its owner, and a member who
can read it, and none is reported of the lab that checks; the exception are victims whose own canary a captured write
carries (`Carried`, section 6). `LabInv` is the inductive invariant of both: what seed wrote stands until a replay may write, and no
profile holds a canary that is neither its own nor carried. Two captured requests are a read and a write of anybody, which make up to four replays and two
baselines.

**`mint`** `RetiredKeysValidate`: a canary whose key was saved is attributed by each later process, over
rotations, kills and restarts, and wherever it stands in a text without touching a letter or another
token. `RegistryAttributes`: a number or UUID that stands alone in a text is attributed by the process that minted it, over
rotations, and by no other.
`AttributedWasMinted`: whatever is attributed was minted, for altered tokens and for tokens that run into
each other. `MintInv` is the inductive invariant of the proofs. Three keys are one that was saved, one that was lost in a kill, and one drawn after; two
canaries are enough to touch, and each may occur more than once in a text.

**`racer`** `ReportedWasGranted`: what is reported as a proven race happened on the
server, which then does not check and act at once. `GrantedIsReported`: a race that ends
over an open connection reports every excess that the server also confirmed. `StatusIsFinal`: a status is
never overwritten. `RaceInv` is the inductive invariant: what is on the wire and what
was read tell how the handlers ended. Capacity 1 and three streams leave room for an
excess with a failure or a reset beside it; chunks have every length, which covers
every way to cut the answers.

Models stop where the code stops: Intake, Runner, Lab, Commands and Racer end in states
without a successor, and Mint when its keys and canaries are used up; their runs say
`CHECK_DEADLOCK FALSE`. Bucket and Egress
have a clock, and are checked for deadlocks as well.

## 4. Fairness

- *The event loop runs whoever can run*: weak fairness of each step of a
  coroutine (Egress, Runner, TokenBucket). asyncio's ready queue is a FIFO.
- *Time passes*: weak fairness of `Tick`, and a sleep ends when it is over.
- *A send has an outcome*: weak fairness of the disjunction of `TooMany`,
  `Respond` and `Fail`. httpx is created with a timeout of 20 s and raises when a
  connection, a write or a read takes longer. The timeout is one for each of
  these, so a server that sends a byte every few seconds, for ever, is excluded by this
  assumption. Which outcome is left open.
- In Runner, *a call of the client ends*: this is `EveryRequestEnds` of Egress.

Nothing else is assumed of the server, nothing of the resolver, of the person at the kill
switch, or that a caller comes back to the bucket. Strong fairness is nowhere
needed: lock and semaphore are queues.

## 5. The proofs

TLAPS checks 186 theorems and lemmas, for all values of the constants: any number of callers,
requests, identities, captures, files, commands, keys, streams and tokens. Every invariant and
every action property of a passing run is stated by one of the theorems; liveness is not.

Assumptions on constants are named and evaluated by TLC in each run of their module:

| Assumption | What it says, and why it holds |
|---|---|
| `BucketAssumption`, `SpanAssumption` | a positive period, any integer as a burst, a window of natural length |
| `EgressAssumption` | finitely many requests, and a non-empty scope, which the constructor of the governor enforces |
| `MatrixAssumption` | owners are not anonymous: the anonymous actor is made by `build_matrix` |
| `IntakeAssumption` | items have a kind, folders a list of items, and only Postman files have folders: the forms that the parsers read |
| `RunnerAssumption` | which headers carry credentials, that an empty body holds no canary, that each built-in oracle is registered at most once, as `run` and `bfla` do it, and that a plugin's finding is none of the two other outcomes; of what the finding is nothing is assumed |
| `StateAssumption` | an absent and a torn file are not a ring |
| `RaceAssumption` | finitely many streams, a natural capacity |
| `MintAssumption` | the ids that the pattern matches are some of the ids |

A theorem that needs more has it as a hypothesis, which the table names. `LabConstants` is one: which bodies the lab
answers with and whose canary each holds, that its tokens are in `Authorization`, that identities are its users, and
that no plugin is registered.

| Theorem | Statement | Argument |
|---|---|---|
| BucketProofs `TypeCorrect` | `Spec => []TypeOK` | inductive as it stands: the level is within the capacity, a sleeper holds the lock and is short of a token |
| BucketProofs `RateInvariant`, `RateBounded` | `RateInv`, `GrantBound` | the credit, see below |
| EgressProofs `EgressInvariant` | `EgressInv` | see below |
| EgressProofs `TypeCorrect`, `PermitsAreConserved`, `KillIsPrompt` | the invariants of `egress` | from `EgressInv` |
| EgressProofs `ClearanceLasts` | `ClearedWhileOnItsWay`, if `PinDns` | a pin, once written, stays |
| EgressProofs `ClientIsPolite` | `Spec => ImplementsPoliteClient` | step simulation under `EgressInv` |
| MatrixProofs `MatrixInvariant`, `OneReplayPerCell`, `FirstCaptureWins`, `CompleteUpToFingerprint` | the invariants of `intake` that Matrix defines, for `MatrixSpec` | the loop invariant `MatrixInv` |
| IntakeProofs `IntakeInvariant`, `LoopsKeepTheirs`, `OwnersAreKept`, `NoReferenceIsLost` | the invariants of `intake` | `IntakeInv`, see below |
| RunnerProofs `RunInvariant`, `TypeCorrect`, `NothingLost`, `EveryLeakReported`, `TasksAddUp` | the invariants of `runner` | `RunInv`, see below |
| RunnerProofs `ProofsAreDisclosures` | `ProvenMeansDisclosed`, if the application reads `Authorization` or `Cookie` | these are the headers that `_auth` removes; without the hypothesis it is false (section 6). What the actor, the cookies of the call and the jar can present is in `Reach` (lemma `SentAsTheActor`) |
| RunnerProofs `LabInvariant`, `LabProofsAreTrue` | `LabInv`, `ProofsAreTrue` for `LabSpec`, if `LabConstants` | see below |
| RunnerProofs `LabLeakIsProven` | `LeakProven`, if `LabConstants` and `HeadersCarryToken` | `lab.config.yaml` gives each identity its token; `LeakProven` asks that BOLA is registered, which `run` always does |
| CommandsProofs `CommandsInvariant`, `TypeCorrect`, `PlantedStaysKnown`, `KeysAreKept`, `CleanRunsAreClean` | the invariants of `commands` | `CommandsInv`, see below |
| RacerProofs `RaceInvariant`, `TypeCorrect`, `ReportsAreTrue`, `NothingIsMissed` | the invariants of `racer` | `RaceInv`, see below |
| RacerProofs `FirstStatusIsFinal` | `Spec => StatusIsFinal` | what is read of a stream after its status is the end of the stream |
| MintProofs `MintInvariant`, `SavedKeysValidate`, `RegisteredAreFound`, `NothingIsForged` | the invariants of `mint` | `MintInv`, see below |

*The bound of the bucket.* `GrantBound` speaks of what was handed out, which says
nothing about what is about to be. `CreditBound` adds `Credit`, what could be
handed out at this very instant: the refilled level, or, while somebody sleeps,
the part of his token that is earned and, once more, the refill which the
next caller will find, because `_ts` is older than the sleep. A tick raises it by at most two
units, a grant moves a token from the credit to the count, and when
the window opens the credit is at most the capacity and one token.

*The client.* `EgressInv` joins the types with `Lines` (each queue holds exactly the
requests its place says, each once: else the head of a queue could move a
request that is elsewhere), `RetryLeft` (who is put off has an attempt left: else the
attempt leaves its range), `PermitsConserved`, `OneSendPerAttempt` and `LateIsLast` (a
request sent after the stop is past the gate: else it could be sent again). No part is
inductive alone.

*The matrix.* `MatrixInv` is the invariant of the two loops: which cells have been
visited, and what the tasks made so far say about them. A lemma per way through
the loop body.

*The intake.* `IntakeInv` puts before the loops what is still to be read. `NoneLost`: each
reference in a file opened so far is in the list, hidden by an earlier item of its file, or ahead in
what is left of the file. A folder that is replaced by its items leaves the same ahead: `leaves`
gives what an item stands for, as the least set that contains the items of each of its
folders, so that a step into a folder is one lemma (`FolderIsItsItems`) for any depth, without an
induction. `FirstsKept` says what `seen` of `har.parse` holds: without it, an item that is dropped
could be the first with its fingerprint. The matrix then owes each request in the list its replays, by
`MatrixInv`.

*The runner.* `RunInv` says of each task that what the built-in oracles returned to its worker speaks of it:
the actor and the target are its own, each oracle gave one finding at most, of its own kind, and a foreign
canary gave a proof. Of what plugins return it says nothing. The matrix has no two tasks with one fingerprint and
actor (`EachCellOnce`, hence `MatrixInv` is part of `RunInv`), so no two findings of built-in oracles have one id
(`IdsAreUnique`). An id is never lost in the merge, since one of the places where it occurs is the last (`NoIdIsLost`, which needs
`GreatestExists`, and that is counted as in the mint below); hence if a finding is not in the report, what is there under
its id comes from a plugin (`OnlyPluginsReplace`). The types of what is reported rest on `BatchesAreTyped`: each
observation is about a task of the matrix. For `ProofsAreDisclosures`, each answer is one of those the application has for a user in
`Reach` (`AnswerIsEarned`), and stays so, since `jars` only grows during the replays (`StillEarned`).

*The lab.* Each step of `LabSpec` in a run is a step of Runner, once the answers of the handlers are shown
to be among those Runner expects (`LabStepIsRunStep`), so `RunInv` holds of it. Three facts relate what the
application holds to what the run has seen. `SeedStands`: what seed wrote is there until a replay may
write. `LeakReplied`: hence an answer to a read of a seeded profile has its canary, and by `RunInv` it is
reported. `NothingMadeUp`: a profile holds its own owner's canary, one that a captured write carries, or
none, so that any other foreign canary in a reply to a read comes from the profile that was read, and the lab gave
it to a member whom it does not check. An answer to a write shows the writer his own profile.

*The commands.* `OneRing` is inductive with four more parts only: `WhereItStands`, which places imply that a process
has a ring (from "create" to "saved", but not in `race`) and which command can be there; `GotIsKnown`, that what came
back to `run` is tagged with its own ring or with a key that was forgotten, of which `CleanMeansNoLeak` is the consequence at its exit; `BeingWritten`, that the file is torn only while
somebody is about to fill it or after a `cut`, from which `KeysSurvive` follows; and
`PlantedKnown`, since a command that reads the file takes over what the file confirms. `OneRing`, `GotIsKnown` and the promises are conditional on
`~clash`: once two processes have found no file at the same time, none of them holds (section 6).

*The race.* `RaceInv` relates the wire to the handlers: an event on the wire or a status read is of a stream whose handler
has ended, 200 is "granted" (a stream whose handler acted and then failed is "botched"), the response is the first of a stream on the wire and in the statuses, and an atomic server's
grants and what remains add up to the capacity. Lemmas for each kind of server step, and `ChunkTells` for what a chunk of
any length tells of a stream.

*The mint.* `MintInv` says that a saved key is in the ring of the file and in each ring after it, and that a process has
the keys of all it minted. That a canary is then found needs facts about `findall`: the matches from left to right
exist (`CountingUp`, `MatchesAreFound`). This is an induction over the places of a text; since the prover cannot use
the induction theorems of the library, `CountingUp` counts instead: a set of places that holds 0 and the successor of each of its
elements, but not the last place, would be mapped one to one into itself without 0, which is smaller. The tag authenticates key, type, owner and nonce, so a valid token was minted
(`ValidWasMinted`). `RetiredKeysValidate` and `AttributedWasMinted` are stated for what surrounds a canary by a piece;
lemma `AttributedStands` has the latter for texts of any length.

*Model-checked only*: liveness (`EveryCallerServed`, `EveryRequestEnds`, `RunEnds`), because fairness and
ENABLED are beyond this prover, and the four violations, which are counterexamples. No definition is recursive: where the
code recurses (`_walk`) or scans (`findall`), the model has a least set or a least fixed point instead, which is what
makes it possible to reason about them here.


## 6. What was found

Four sentences of the repository that the code does not keep, each with a run in
which TLC finds the schedule.

1. *The bucket is faster than its rate* (`bucket_documented_rate`).
   `docs/configuration.md:11-12` calls `rate_per_sec` the refill rate. `take()` sets
   `_ts` before it sleeps and `_tokens = 0` after it (`governor.py:49-54`). With an
   empty bucket: A sleeps a whole period and is let through; B comes next, the
   refill counts the period since `_ts` once more, and B is let through at once.
   Under load two calls return per period.
2. *A reference that is never replayed* (`intake_references`). `docs/architecture.md:28-30` derives
   completeness from "exhaustively replaying every object reference". Bob's HAR has `/list` and then
   `/list?id=1`. The fingerprint of both is the same (`models.py:83`), so `har.parse` drops the second; the
   first is not tagged as a reference (`inputs/base.py:34`), so the matrix skips it. Nothing is
   replayed. In the other order `/list?id=1` is, and `/list?id=2` after it never: `build_matrix` drops it
   across files as well (`matrix.py:36`).
3. *The baseline of somebody else* (`runner_identical`). `oracles.py:45` speaks of the
   owner's baseline. Alice and Bob both captured `/users/me`; the last task decides
   who fetches the one baseline; Alice's request replayed as Bob is compared with
   Bob's own answer, and reported.
4. *A proof of nothing* (`lab_checked`). `README.md:32` claims no false positives, and `oracles.py:102-104`
   wants mass assignment judged on a re-read after a write. `run` judges each replay (`main.py:128`). Bob has
   captured a read of Alice's page; seed has put Alice's canary there; the read is replayed as Alice, who gets
   her own page. A run without writes, of an application that checks who reads, reports a proven
   mass assignment.

Divergences that were seen while modelling, without a run of their own:

- *Two first commands at once.* p1 and p2 find no state file and draw k1 and k2
  (`main.py:42-45`); both open it; p2 writes k2; p1 writes k1 over it; p2 goes on to seed with
  k2. The file confirms none of its canaries, and a later run exits with 0 over a leak.
  `PlantedKnown` without its condition `~clash` gives this schedule.
- *Exit codes.* `main.py:5` reserves 1 for findings. An exception that nothing catches ends Python
  with 1 too: a race out of scope, a torn state file, an unsupported capture, a configured request of an unknown
  owner (`Uncaught` in Commands, "broken" in Intake). `docs/configuration.md:44` and `main.py:134` give 3 to
  a safety violation; workers and baselines catch every exception (`runner.py:54,95`), so that a run in which the
  governor refused requests ends with 0 or 1.
- *A proof planted by the tool.* With `--allow-writes`: Alice has captured a PUT of her profile after seeding,
  with her canary in it. Replayed as Bob it writes Alice's canary into Bob's profile, and the echo, as every later
  read of Bob's profile by Bob, is a proven BOLA about Alice. `ProofsAreTrue` without its exception `Carried` gives this schedule.
  A captured PUT without a canary, replayed, erases the one that seed wrote: the leak is then not seen
  (`LeakProven` without `~writes`).
- *The cookie jar.* `docs/faq.md:3-6`: "if identity B's response contains identity A's canary, the app leaked A's data". The
  baselines and all replays go through one `httpx.AsyncClient` (`runner.py:88`, `client.py:37-40`), which keeps the cookies that answers
  set. Bob's baseline is answered with a session cookie; the anonymous replay of his request has no cookie of its own and is sent with
  his session, and what only Bob may read is a proven BOLA of `<anonymous>`. Without configured
  cookies it meets every actor. `ProvenMeansDisclosed` without the jar in `Reach` gives this schedule.
- *A plugin in the place of a proof.* The id of a finding names kind, actor, victim, method and URL (`models.py:103-106`), not its
  confidence. Plugins are registered after the built-in oracles (`main.py:127-129`), and the later of two findings with one id
  stays (`runner.py:104`): a plugin that returns a heuristic BOLA about the same request takes the proof out of the
  report. The exit code stays 1. `LeaksReported` with `f \in report` for `Reported(f)` gives this schedule.
- *Two spellings of a header.* `{**headers, **actor.headers}` (`runner.py:46`) compares names exactly: a captured `x-api-key` is sent beside
  a configured `X-Api-Key`, though the filter before it (`runner.py:43`) folds case.
- *The state file removed.* Who removes a torn or damaged state file lets the next command go on with fresh keys. The old canaries are still in
  the application; a run that gets one back attributes it to nobody and may exit with 0. `CleanMeansNoLeak` without `forgotten`
  gives this schedule.
- *A grant that is not confirmed.* The race counts answers with 2xx (`oracles.py:133`). A server that grants and then answers 500, or resets the
  stream, has granted too much without a finding: `GrantedIsReported` with `Granted` for `Confirmed` is violated.
- *Canaries that touch.* `attribute_detailed` promises every valid canary in a text (`canary.py:144`). The
  expression takes letters after a tag for a part of it: a canary followed by one of A-Z2-7, or by another canary, is
  not found, and the other one is swallowed.
- `canary.py:17` and its comment at 153 speak of an exact-value match of numbers; `value in blob` finds one in a
  longer number, also where digits touch it. `RegistryAttributes` is about values that stand alone, where comment and code agree.
- `openapi.parse` leaves out DELETE, and sends a path such as `/users/{id}` as it is written.
- A command killed between `open` and the end of `json.dump` leaves a file that no
  later command can read; the keys are lost unless somebody holds them in memory. `KeysSurvive` says that this
  is the only way to lose them.
- The kill switch is read at the gate only (`docs/configuration.md:15` says "abort"): requests that wait
  for a token or a permit are still sent, one each (`KillCostsOneSend`).
- `governor.py:6` promises protection against DNS rebinding. The pinned address decides the
  check, and httpx resolves the name again to connect.
- Requests leave the bucket at its rate and gather again at the semaphore; when
  slow answers come back together, they leave together.
- `max_concurrency: 0` makes a semaphore without a permit, and the run hangs.
- `_auth` removes `Authorization` and `Cookie` only. A captured API key goes out with each
  replay, whose answer is then the owner's: `docs/faq.md:3-6` does not hold for an
  application that reads it. `ProvenMeansDisclosed` is checked for one that reads the cookie.
- `_baseline` sends the captured headers and the owner's cookies, not the owner's configured headers
  (`runner.py:49-52`); captures without a token have baselines without a user.
- `seed` prints the status of each write and looks no further: after a 401 for everyone it says
  "seeding complete".
- Number and UUID canaries are known to the process that minted them only; no command mints one.
- An identity whose id has a dot or an `@` gets canaries which the pattern does not match.
- A stream that the server resets has no status: the race waits until its time is up, and
  the statuses of the others are lost (`racer.py:85-99`).

## 7. What is not modelled

- *Inside an item of a document*: how `inputs/` takes a URL, headers and a body out of it, and how
  `detect_format` looks at a file. Intake is told the format and what each item comes to. `SeedCandidate`s, which
  `openapi.parse` collects, are used by nothing.
- *Report writers, webhook, log filter*: formatting, without state. The webhook is not
  called by anything.
- *`selftest`*: a list of assertions. *`http3`*: raises.
- *Globs, networks, TLS, HTTP/2 framing, HMAC*: whether a name matches, an address lies
  in a network, or a tag is valid, is membership in a set. A tag is valid
  under the key that made it only.
- *Delays*: a back-off ends sooner or later; its length (`Retry-After`, at most 30 s) is left
  out. No property depends on it.
- *More of cookies*: an application that deletes a cookie or sets one for a path or a host only, and a retry after a 429
  that is sent with the cookie of that same 429. The captures are of one host.
- *A plugin that returns something which is no Finding*: `runner.py:104` would raise on it after all tasks are done.
- *Scores, severities, wording, HTML*.

## 8. Plan

Done so far: the bucket, the gate and the client (TokenBucket, BucketRate, Governor, Egress,
PoliteClient); from the files to the report (Intake, Matrix, Oracles, Runner, Lab); keys and
commands (Mint, StateFile, Commands); the race (Racer); the proofs of section 5.

What is left, in this order:

1. Proofs across modules. Runner takes a call of the client as one step and cites Egress for
   its end; stated as a theorem, a client inside Runner would be implemented by Egress. In the same way
   Commands has one key where Mint has a ring: StateFile as an abstraction of Mint under `Save` and `Begin`.
2. `RetiredKeysValidate` for surroundings of any length, as `AttributedStands` is; it needs that a match begins
   at a token whenever none of those before it runs up to it.
3. The exits of a command as properties: which of them can be reached with findings lost, and which of the codes of
   `main.py:5` each outcome has.
4. The inside of `detect_format`.
