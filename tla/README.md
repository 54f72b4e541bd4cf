# agent-authz-broker: verification project

TLA+ models of the broker, TLC configurations that check them on small instances, and TLAPS
proofs of the properties that matter most for every instance. Paths are relative to the
repository; `effects.py` and the like are under `src/agent_authz_broker/`.

## The system

The broker sits between an AI agent and tools, one of which (`issue_credit`) cannot be undone. A
call presents a bearer token; the broker verifies it, computes the authority left after every
delegation link, claims a unit of rate limit, finds and consumes a human approval, and writes the
effect and an audit row, the last four in one PostgreSQL transaction.

| part | state | operations | talks to |
|---|---|---|---|
| token verification (`tokens.py`, `domain.py`) | none | `verify_token` | called by the transport and by `call_tool` |
| decision (`authz.py`) | none | `effective_scopes`, `authorize` | called by `call_tool` |
| approvals (`approvals.py`) | table `approval` | create, find, consume, list, get | `call_tool`, console |
| rate limit (`ratelimit.py`) | table `rate_limit_counter` | `consume_quota` | `call_tool` |
| tool calls (`effects.py`) | `irreversible_effect`, `audit_event` | `call_tool`, `record_transport_refusal` | all of the above |
| console API (`app.py`) | none of its own | grant, reset, five reads, demo tokens | the database |
| MCP server (`mcp_server.py`) | the request under way | transport verifier, six tools | `call_tool`, `approval`, `audit_event` |
| test authority (`testauthority.py`) | two key pairs | mint, mint_delegated, mint_flawed, mint_malformed | tests, demo, console |
| demonstration (`demo/`, `gate_matrix.py`) | what it measured | runs the scenarios under both policies, compares with `artifacts/` | `call_tool` |
| console front end (`frontend/`) | page state | validates and renders API answers | console API |
| deployed smoke (`deployed_smoke.py`) | the scenario under way | drain, grant, count, post, score | MCP server, console API |
| planted breaches (`plant_breaches.py`) | the working tree | plant, test, restore | git, pytest |
| deployment (`entrypoint.sh`, `migrations/`) | the schema, its revision | migrate, serve | PostgreSQL |
| schema (`db/models.py`) | the four tables | – | – |
| settings, engine | – | – | – |

The broker's components share nothing but the database. What is hard is all there: calls interleave at every
`await`, a statement at READ COMMITTED sees what others committed just before, an UPDATE or upsert
waits for a rival and then looks again, any transaction may die at any point or commit without its
caller hearing of it, and an operator's reset deletes four tables while calls run.

What makes each part correct:

* verification and decision: each further hop, each damaged link and each second of age can only
  take authority away; the naive policy differs from the hardened one in exactly two checks;
* approvals and effects: one approval pays for one effect, the effect is what was approved, before
  expiry; consumption, effect and audit row are one event; a loser has a winner, and nobody
  is told that it lacks an approval while one stands that could pay;
* rate limit: at most the limit per window, the counter is what committed, refusals have a cause;
* reset: never parts an effect from its approval or its audit row;
* MCP server: its two judgements of one token agree, what it reports is what was decided, a
  request refused on record never runs and is never answered, an answer about an approval is true
  and never goes backward;
* console: it lags behind the agents' truth and never contradicts it, and blames the right check;
* demonstration and smoke: what one scenario leaves behind is not measured by the next;
* breaches: a removed control is never taken for source, and comes back;
* deployment: nobody serves a schema that is not at head, and racing containers all serve at last;
* everything: every request, every call and every reset ends.

`PROJECT.json` lists the hazards behind these, each at its line.

## The modules

| module | models | notes |
|---|---|---|
| `Domain` | `domain.py` | decisions, denial reasons, scopes of tools |
| `Tokens` | `tokens.py` | a token is a record of what the verifier can tell apart |
| `Authz` | `authz.py` | `EffectiveScopes`, `Authorize`, the two policies |
| `Store` | `db/models.py`, `ratelimit.window_start` | tables as functions, row locks, the clock |
| `Approvals` | `approvals.py` | the row created, the lookup, the conditional UPDATE |
| `Effects` | `effects.py`, `ratelimit.consume_quota` | `call_tool`, one action per statement |
| `Console` | the writers of `app.py` | grant; reset, one action per DELETE and row wait |
| `ApprovalLedger` | – | what the broker promises about approvals, abstractly |
| `Broker` | – | composes `Effects` and `Console`; specification and properties |
| `BrokerInv` | – | the inductive invariant `FullInv`: `IInv`, `AuditOK`, `CounterOK` |
| `BrokerProofs` | – | the proof of `IInv`; the safety theorems, the trail, the ledger, `FullInv`, the rate limit |
| `TestAuthority` | `testauthority.py` | the tokens that runs use |
| `Delegation`, `DelegationProofs` | – | a token handed on hop by hop, then judged by `Authz` |
| `McServer` | `mcp_server.py`, `record_transport_refusal` | requests in front of `Broker` |
| `McProofs` | – | that `McServer` implements `Broker`, its own safety, the console's reads |
| `AuditScreen` | `components/audit.tsx`, `lib/parse.ts` | stages drawn, shape demanded |
| `ConsoleReads` | the readers of `app.py` | over `McServer` and `AuditScreen` |
| `Matrix`, `MatrixProofs`, `GateProofs` | `demo/matrix.py`, `gate_matrix.py` | two instances of `Effects`, one per policy |
| `Smoke`, `SmokeProofs` | `deployed_smoke.py` | a client of `McServer`, with visitors |
| `Breaches`, `BreachesProofs` | `plant_breaches.py` | the script among a developer's steps |
| `Boot`, `BootProofs` | `entrypoint.sh`, `migrations/`, `create_all` | containers on one database |
| `MCBroker`, `MCDelegation`, `MCServer`, `MCMatrix`, `MCSmoke`, `MCBreaches`, `MCBoot` | – | constants of the runs |

**A call.** `pc[c]` runs `idle, quota, lookup, consume, insert, commit` and ends in `returned`,
`raised` or `lost`. `CallTool` is everything before the transaction (`moment`, `verify_token`,
`authorize`); `ConsumeQuota`, `Lookup`, `Consume` and `InsertEffect` are the statements of the
transaction in order; `Commit` writes consumption, effect, audit row and counter at once.
Before that the row a call has changed is only locked (`rowLock`, `bucketLock`), which is all that
others can notice. `Fail` rolls back from any point; `CommitReplyLost` commits and tells nobody,
and a retry is simply another call. `find_matching_approval` orders by expiry, and ties may go
either way.

**The reset.** `ResetEffects` and `ResetAudit` note the rows their DELETE sees; `ResetApprovals`
and `ResetCounters` note the rows and then lock them one at a time, because those are rows a call
may hold; `ResetForeignKey` is the check of `irreversible_effect.approval_id`, which fails the
whole reset when an effect was committed after the first DELETE looked; `ResetCommit` deletes.

**A request** (`McServer`). `stage[c]` runs `idle, refusing, refused` or `idle, accepted` and then
`called` (from there `pc[c]` of `Broker` goes on) or, for the tools that make no call, `reading,
answered`; a request whose session fails, or that is cancelled, is `broken`. `VerifyBearer` is `verify_token` of the
transport with the time it read. `RecordTransportRefusal` is `_audit`: it writes the row, or the
failure is suppressed, and the request is refused either way. A cancellation is no `Exception` and
is not suppressed, so `RequestBreaks` can cut a refusal short too, with its row written or not. `HandToCallTool` is a `CallTool` of
`Broker` with the same token and a later moment. `GetApproval` reads the row and `ReadApproval`
reads the clock and answers, with anything in between. The reset also deletes the transport's rows
(`ResetSeesRefusals`, `ResetForgetsRefusals`), in the same statement as `ResetAudit` and the same
commit. Those rows are kept in a variable of their own so that every step is one of `Broker` or
leaves its variables alone; `ImplementsBroker` says so. Left out: the SDK's own checks of the
access token's expiry and resource, which come after the verifier and can only refuse what it let
through, and its sessions.

**The console** (`ConsoleReads`, `AuditScreen`) has no state: a read is one SELECT of committed
rows and so an operator of the state. `ApprovalState(a, now)` takes the `now` that was read before
the rows. `Parses` is the shape `parse.ts` demands, `RefusedAt` the map from reasons to stages.

**The matrix** (`Matrix`). A turn is a scenario under one policy: `Clear`, `SetUp` (mint, approve),
`CallIssueCredit` for each of its calls and `CallGoesOn` for the statements of them (one call after
the other, as in the code: no scenario of the matrix races), `Measure` (count effects, read the audit
row, keep the states of approvals). `BuildRaises` is a call that raised. Time may pass before any
step; `SetUp` is one step, so the approval's life and the token's begin at one reading of the
clock, which differs from the code only past a stall of over ten minutes between the two.
`Reproduces` is the gate: rows, shape, trail, approvals and chains equal to the artifacts.

**The smoke** (`Smoke`). `SCRIPT` is the table of scenarios: what each drains, grants, posts and
expects; `DrainApprovals`, `AskForApproval`, `CountBefore`, `PostNext`, `Score` are its phases. A
visitor posts whenever it likes; somebody may have granted approvals before the run. Neither time
nor the client's timeouts are modelled: the run is over within a window of the ceiling and the
life of its tokens. It runs with the approver credential configured.

**The breaches** (`Breaches`). A file is what the script can tell of it: how often each anchor
occurs, and which breach is planted. `Start` is `main` up to its loop, `Read`, `Plant`, `RunTests`
and `Restore` are `_run`, `Finish` the report. `Interrupt` is Ctrl-C, which the `finally` outlives;
one that lands inside the `finally`'s own write counts as a `Kill`. Around it a developer edits,
commits and checks out, tests go missing, and the database comes and goes.

**A boot** (`Boot`). `Boot(i)` lists the statements of `alembic upgrade head` for the revision it
reads (`UpgradeHead`, a case for each of the two revisions and for head); `CreateTable`, `StampRevision`, `Commit` are one transaction (`transaction_per_migration`
is off), a process that creates a table another has created but not committed waits, and then
fails, as `set -eu` makes the container. `Serve` is the `exec`. `CreateAll` is
`metadata.create_all` with its check for existing tables. The check for and creation of
`alembic_version` is one statement here. Downgrades are run by nothing and left out.

**The database.** Modelled from how the code uses it and marked external: READ COMMITTED
visibility, row locks held to the end of the transaction, roll-back, the deadlock detector. The
only cycle of waits is between a call (counter row, then approval row) and the reset (approval
rows, then counter rows); `DeadlockDetector` aborts either.

Abstractions: an effect and an audit row are keyed by the call that wrote them, standing for their
random ids; approval ids are drawn from a set and never reused; audit rows leave out arguments,
`required_scope` and `effective_scopes`; `verify_token` and `authorize` happen at one instant,
which is the `moment` of the call (in the code the token's `iat` and `exp` are first judged by the
JWT library's own clock a few instructions later, and `exp` then again against `moment`); one
reset runs at a time; a call's own inserts wait for nothing.

## The runs

| run | asks | instance |
|---|---|---|
| `core` | approvals, effects, audit rows and refusals under races, resets and failures; `FullInv` itself; that `Broker` implements `ApprovalLedger` | 2 calls, 2 approvals, a reset, 4 kinds of request, 4 kinds of grant, limit 2, two windows |
| `ceiling` | the rate limit | 3 calls, limit 1, two tools, a clock that crosses a window |
| `liveness` | every request, call and reset ends | 2 requests, one message per way through the server, a reset, every wait and the deadlock |
| `delegation` | what `Authz` sees in a token handed on | chains of up to 3 hops, cap 2, both policies |
| `doors` | the two doors, the trail and what the console shows of them; that `McServer` implements `Broker` | 2 requests, 10 messages with good, lapsing, misdirected, forged, unreadable and overreaching tokens, a reset, limit 1 |
| `reads` | what `read_approval` may tell whom | 3 requests, two agents, one approval that is paid or lapses |
| `matrix` | the gate, and what one turn leaves to the next | all scenarios, both policies, a clock that outruns a token, failing calls |
| `smoke` | when the smoke passes | all scenarios, limit 8, a stranger, up to 3 approvals left over |
| `breaches` | what the script leaves and believes | breaches 1 and 2 of one file, 10 of a test file, one edit |
| `boot` | who serves, what is half done, that all serve at last | 3 containers and a `create_all`, 2 crashes of theirs or PostgreSQL's |
| `charged`, `unparsed` | two statements of the prose that the code does not keep | small |

Bounds (`MaxTime`, `MaxResets`, `MaxEdits`, `MaxCrashes`, `MaxLeftover`, the sets of calls and
approval ids, `LastSecond`) are guards or constants of the modules. Why they are enough: every
property is about one approval, one bucket or one call against its rivals; two calls give a winner
and a loser or one that died, and two approvals a choice and a wrong choice. In `core` each second
is a window of its own: two calls of one window serialise on their counter row and race for
nothing, two calls of different windows race for the approval. The deadlock needs a counter row that an
earlier call committed and another then locks, hence limit 2 in `core` and `liveness`. `ceiling` needs a third call to
exceed twice the limit, `reads` one that pays beside two that watch. `MaxInt4` is 1 or 2 so that a
larger amount overflows, `MaxChainLinks` is 2 (10 in the code) so that a chain can exceed it. The
matrix and the smoke are run whole: their scenarios are data. The smoke's lifetimes and limits are
scaled (a burst of `Limit + 1`, at most three drains). One edit lets an anchor vanish or double,
and two crashes are a crash and one of the restart that mends it. Calls, and in `core` approval
ids, are symmetric; `liveness` and `boot` use no symmetry, and the two refinements that are checked
under it have no liveness part and treat calls and approvals alike.

Every property comes with a mutant of the code that breaks it, defined beside the definition it
replaces (`Consume_SkipsLockedRow`, `Start_AnyTree`, `CreateTable_IfNotExists` and so on).

**Fairness.** `liveness`: weak fairness of each call's next statement and of the reset's: the
event loop runs a task whose await has completed, and PostgreSQL answers a statement that waits
for nobody. It is per call, and does not include `Fail`, `CallTool`, grants or resets: nobody has
to call, grant or reset, and nothing has to go wrong. Weak fairness of the deadlock detector:
`deadlock_timeout` runs in every waiting backend. Weak is enough because whoever holds a row
ends, and a call that waits stays enabled once the row is free, as no other call needs it for ever:
there are finitely many calls, each claiming a row once. A request that can take its next step
takes it, for the same reason; nobody has to post one. `boot`: the platform restarts what is down,
PostgreSQL comes back, every process goes on; that crashes cease is `MaxCrashes`.

## Findings

1. **A refused call is charged** (`charged`). `docs/threat-model.md:400`: "Only calls that were
   going to be *allowed* are counted". The unit is claimed after `authorize` and before the
   approval is looked up, and a refusal for want of an approval returns normally and commits it.
2. **One transport refusal takes the audit page down** (`unparsed`). `parse.ts` demands text for
   `subject` and `required_scope` in every row; rows of `record_transport_refusal` have no
   required scope, and some no subject. `README.md:188` promises such rows on the screen.

Where the code and its prose differ in less, the properties say what does hold:

* an effect may be committed after its approval's `expires_at`, since expiry is judged at the
  moment the call began (`EffectWithinApproval`; `mcp_server.py:547` says "unexpired");
* the loser of a race reports `approval_already_consumed` or, when its lookup runs after the
  winner's commit, `approval_required` (`LosersHaveAWinner`; `demo/matrix.py:411` says the former);
* a rate-limited call has no stage on the audit screen (`MarksAreTrue`; `audit.tsx:20`
  "mirrors `DenialReason`"), and an allowed reversible call shows its approval as "checked, and it
  passed" (`MarksAreTrue`; `audit.tsx:67`);
* a breach counts as caught when its tests fail for want of a database or are missing
  (`ZeroMeansEveryBreachWasTried`; `plant_breaches.py:12`);
* breaches 9 and 10 are planted outside `src/`, so after a kill the `git checkout -- src/` of
  `plant_breaches.py:22` does not restore them; the message at line 316 names `tests/` too;
* the smoke stays safe beside visitors who are refused (`PassesExactlyFromACleanStart`), not beside
  one whose call takes effect (`deployed_smoke.py:11`), and its draining takes a rate-limited
  answer for an empty store (`deployed_smoke.py:173`): the run leaves the ceiling room.

## What is proved

For every value of the constants that satisfies the assumptions below, with no bound on the
calls, approvals, tokens, messages, containers or hops (time, resets, edits and crashes are
bounded by constants of any value):

| module | theorem | property |
|---|---|---|
| `BrokerProofs` | `BrokerInvariant` | `Spec => []IInv` |
| | `BrokerTypes` | `[]TypeOK` |
| | `ApprovalsPayOnce` | `[]OneApprovalOneEffect` |
| | `EffectsAreCovered` | `[]EffectWithinApproval` |
| | `UniqueIsABackstop` | `[]BackstopUnreached` |
| | `LosersLoseToAWinner` | `[]LosersHaveAWinner` |
| | `ApprovalsAreNotOverlooked` | `Spec => NoApprovalIsOverlooked`, for finitely many approval ids |
| | `EffectsAreAuthorised` | `[]EffectAuthorised`, under `Policy = HARDENED` |
| | `TrailMatchesEffects` | `[]EffectsAudited` |
| | `BrokerImplementsLedger` | `Spec => ImplementsLedger` |
| | `CounterInvariant` | `[]CounterOK` |
| | `FullInvariant` | `[]FullInv` |
| | `WindowKeepsItsLimit` | `[](resets = 0 => AtMostLimitPerWindow)` |
| | `CounterCountsCommits` | `[](resets = 0 => CounterIsCommittedClaims)` |
| | `OnlyFullWindowsRefuse` | `[](resets = 0 => RateLimitedOnlyPastCeiling)` |
| | `AnyStretchTwiceLimit` | `[](resets = 0 => AtMostTwiceLimit)` |
| `DelegationProofs` | `DelegationIsMonotone` | `AuthorityOnlyShrinks` |
| | `PoliciesDifferByTwoChecks` | `[]HardenedIsNaiveLessTwo` |
| `McProofs` | `ServerImplementsBroker` | `McSpec => ImplementsBroker` |
| | `ServedEffects`, `ServedCeilings` | the broker's theorems, behind the server |
| | `TheDoorsAgree` | `[]DoorsAgree` |
| | `AccessTokensAreHonest` | `[]ScopesReportedAreScopesDecided` |
| | `StrangersGetNothing` | `[]NothingForStrangers` |
| | `TheTrailNamesNoImpostor` | `[]AuditSubjectsAreVerified` |
| | `RefusedIsFinal` | `[]RefusedOnceAndForAll` |
| | `ConsumedMeansPaid` | `[]ConsumedWasPaidFor` |
| | `ExpiredMeansOver` | `[]ExpiredUnspentIsOver` |
| | `StatesGoForward` | `[]LifecycleGoesForward` |
| | `TheConsoleOnlyLags` | `[]ConsoleOnlyLags` |
| | `MarksTellTheTruth` | `[]MarksAreTrue` |
| `MatrixProofs` | `MatrixInvariant` | `[]MatrixInv` |
| | `ScenariosBorrowNothing` | `[]NothingBorrowed` |
| `GateProofs` | `GateInvariant` | `[](MatrixInv /\ GateInv)` |
| | `TrailAndCountAgree` | `[]TrailAgreesWithTheCount` |
| | `TheGatePassesExactlyInTime` | `[]GatePassesExactlyInTime` |
| `SmokeProofs` | `SmokeInvariant` | `[](ServerOK /\ SmokeInv)` |
| | `TheRaceIsDrained` | `[]DrainedBeforeTheRace` |
| | `TheSmokePassesFromACleanStart` | `[]PassesExactlyFromACleanStart` |
| `BreachesProofs` | `SourceIsSource` | `[]ABreachIsNeverTakenForSource` |
| | `BreachesAreTakenBack` | `[]OnlyAKillLeavesABreach` |
| | `ZeroMeansAll` | `[]ZeroMeansEveryBreachWasTried` |
| `BootProofs` | `BootInvariant` | `[]BootInv` |
| | `NobodyServesAnOldSchema` | `[]ServesOnlyAtHead` |
| | `MigrationsAreWhole` | `[]NeverHalfMigrated` |
| | `LabTablesAreNotAdopted` | `UnstampedTablesAreNotAdopted` |

**Assumptions**, all named `ASSUME`s that TLC evaluates: special values (`None`, `Free`,
`Wiped`...) are distinct from ordinary ones, numbers are numbers, requests name known subjects and
accounts, a token's `act` is a sequence, the server enforces the hardened policy
(`McAssumption`), the server knows no issuer by the key of a stranger
(`TestAuthorityAssumption`), a lifetime is a number (`DelegationAssumption`), an approval of the
matrix outlives its token and its resource server is not the one called "elsewhere"
(`MatrixAssumption`), the matrix knows its agent and its account, the server verifies with the build's key, a recorded
approval looks like neither of the two special values, and there are at least twelve approval ids,
one for each turn (`BuildAssumption`: `build_matrix` constructs the authority and the key set it
verifies with, and the database does not run out of ids), the smoke is run against a deployment
that serves it (`DeploymentAssumption`, below), containers and processes that run `create_all` are not the same
(`BootAssumption`).

**Approvals and effects.** None of the broker's safety properties is inductive. The argument of
`IInv`: a call between `consume` and `commit` holds its approval's row lock and the row is
unconsumed (`LocksOK`), so no two calls can be about to spend one approval, and no effect names it
yet (`LedgerOK` pairs effects and consumed approvals). A call stays bound to what it found while
the row advances, because an approval is never un-consumed and its other columns never change
(`CallOK`, lemma `CallOKKept`). The reset may delete an approval only while it holds its row, and
past its foreign key check it holds exactly the rows whose effects it deletes (`ResetOK`). There is
a lemma per action; calls that hold no row share `QuietStep`, roll-backs `RaiseKeeps`, the reset's
statements `ConsoleQuiet`.

**Refusals.** `NoApprovalIsOverlooked` is about every step: an approval that was there before the step
is one a refused call overlooked only if it was before. An unspent approval was unspent before and
was the same row (`ApprovalsAdvance`); only its own lookup tells a call that it lacks one
(`OnlyLookupTells`); and a lookup that returns nothing has seen nothing in time, because of finitely
many rows one expires last (`OneExpiresLast`, by the smallest counterexample). The lookup does not
ask who has locked a row: a rival that holds it may yet roll back.

**The trail.** `AuditOK`: of a call that wrote an effect, effect and audit row are there together.
The reset's second DELETE sees at least the rows of the effects its first one saw, and may see more:
the row of an effect committed in between. The approval of such an effect is one the reset is about
to lock, or has locked, so that the foreign key check, which runs when all of them are locked,
finds it and fails the reset. Past the check the rows doomed in the two tables are those of the
same calls.

**The ledger.** `ApprovalLedger` sees an approval as unissued, pending, spent (and by which call) or
wiped. Each action maps to one step of it or to none: a grant issues, the commit of a call with an
effect spends (`IInv` gives what that requires: the approval is pending and the call has paid for
nothing else), the reset's commit wipes approvals with the effects that name them, everything else
stutters.

**The rate limit.** `CounterOK`: a call that claimed a unit and has not ended holds its bucket's
row, and its position is one past the count (`ClaimOK`); the committed calls of a bucket have the
positions 1 up to its count, each of them once (`PositionsOK`). The count is then the cardinality
of the committed claims by the library's theorems on injections and intervals, and a stretch of a window's length
meets at most two windows. A reset deletes counter rows and leaves the calls they counted, after
which a window may well let more through: the code promises nothing there, so the four theorems
speak of the time before the first reset, and the `ceiling` run has none.

**Delegation.** A hop appends the delegate's link and keeps everything else of the token; what the
verifier builds from `act` is the nodes the other way round, so that a scope is in every link of the
chain exactly when it is in every node (`ChainHolds`). What the hardened policy permits is written
out as a set (`PermittedIs`), and each kind of step (a hop, damage, a second of time, a stranger's
signature) only removes members. This is about one step at a time and so about chains of any
length, also past the cap.

**The server.** Its refinement needs no mapping: each action is a broker action on the broker's own
variables or leaves them alone, one lemma each. Its safety rests on `McInv`: a request past the
transport carries a token that passed there, a call is the one its message asks for and made no
earlier, the trail's row is the verdict of the door that wrote it. The doors then agree because a
token only ages: what `verify_token` accepted it accepts later unless the token has lapsed.

**Reads of approvals.** `read_approval` decides on a copy of the row that may be old, by a clock
read later still. `ReadInv` says why the answer is good nonetheless: while the approval is there it
expires when the copy says, and what the copy shows spent stays spent (`RowOK`); the answer is what
the copy says at a moment between the request and now (`AnswerOK`); of two copies of one approval,
the one read after the other was answered is no less spent (`PairOK`). `PairOK` is what survives a
reset, which takes the row that `RowOK` compares with. An effect paid with an approval began before
it expired (`LedgerOK`), hence `ExpiredMeansOver`.

**The marks.** `OutcomesOK` says which reasons a call can have at all: those of `authorize` exactly
when it was denied there, then the ceiling, then, for irreversible tools, the approval. Each stage
of `audit.tsx` is compared with the condition it stands for; that a token refused by the transport
is drawn with the right stage uses `DoorsAgree`.

**The matrix.** `MatrixInv`: one call is under way, a turn starts from empty tables with one
approval at most, the first effect consumes it and a call about to spend needs it unconsumed, so
that a turn has at most one effect (`OneOK`). It has none in the turns whose token the hardened
policy refuses at any time (`RefusedOK`, from the two lemmas on such tokens), nor where no approval
was live when the call began (`UnapprovedOK`). Both instances of `Effects` are first shown to make
the same kinds of move (`NaiveMoves`, `HardenedMoves`).

**The gate.** The published rows are right exactly if nothing was late, and that takes an invariant
that follows a turn to its row, `GateInv`. A token is judged the same from its minting to its
expiry (`JudgedOK`: whatever `verify_token` and `authorize` say of a scenario's token they say at
every moment before), the approval `SetUp` recorded is spent exactly when the turn has its effect (`RecordedOK`), every call
is told what the published row says for its rank in the turn, or `token_expired` when it was late
(`CallsOK`), and the rows written so far are the first of those published, unless some call was late
and one of them says `token_expired` (`WrittenOK`), which no published row does. Calls and approval
ids are drawn in order (`InOrder`, `PastOK`), so that a turn never meets a call of an earlier one.
The counts of `Measure` are sums over finite sets; lemmas give what one more member does to them.
That such a sum exists is an induction over the cardinality for one fixed function, by the least
counterexample.

**The smoke.** The script is a client: each of its steps is a step of the server or none
(`ScriptIsAClient`), so that the server's invariants hold beside `SmokeInv`. That one is a stock
account. Nothing resets, nothing fails, no approval of the run expires and visitors are refused at
the door, so effects and unspent approvals together are as many as were left over and granted
(`CountsOK`). The requests for a credit made so far are fewer than the ceiling (`RoomForGoods`, with
`CounterOK`), so that one that is refused shows nothing is left to spend, or has lost to the
other call of the race (`ToldOK`). A draining that ends has therefore emptied the store, and F races
for the one approval it was then granted. What each scenario starts from is known (`StockOK`), and so
is its score (`ScoresOK`): C passes when nothing was left over, every other scenario always.
`DeploymentAssumption` says what the script takes for granted: the tokens it fetches are signed
with the key the server verifies with (`app.py:341` mints them from the authority whose key set it
serves); the approver credential is configured; other visitors are refused; approvals granted
earlier do not expire within the run; and the ceiling is at least the draining's calls and five
more. The deployment's ceiling of 30 (`render.yaml:73`) leaves room for 12 and 5; the draining takes
a rate-limited answer for an empty store (`deployed_smoke.py:173`), so that this is needed. A run
that crashes, as the script does after 12 allowed calls of the draining, claims nothing.

**The breaches.** `BInv`: a planted breach is only in the file of the current turn, only between
`Plant` and `Restore`, and `original` is a whole file without one; after a kill the script starts
again only from a tree equal to a HEAD that never had one. That the current turn is one of `todo`
(`Current`, the least of a set) is the library's well-ordering of the naturals. `BooksOK`, for the
exit code: each selected breach no longer in `todo` was tried or is listed as a hole, and a zero
means that all were tried.

**The boot.** `BootInv`: of what head needs and is not committed, an upgrade has created everything
or has it ahead, also the whole of every revision that is not yet stamped, and its last statement is
head's stamp (`UnderWay`); what it has created and not committed is nobody else's (`Apart`). If
another commits first, its own next statement for a table that is there fails. Nothing is needed of
what `create_all` has still to create: a table it commits makes the upgrade that also creates it
fail.

**Model-checked only:**

* liveness and the absence of deadlock (`EveryRequestEnds`, `EveryResetEnds`,
  `EveryInstanceServes`): fairness and ENABLED are out of the prover's reach.

Every invariant and every action property of a passing run is stated by a theorem. The rate limit's four
hold until the first reset, `EffectAuthorised` under the hardened policy, and
`NoApprovalIsOverlooked` where the approval ids are finitely many.

## Not modelled, and the plan

Hazards listed without a property: the second of two live approvals that a loser does not try
(`approvals.py:118`, accepted by a comment there); the smoke beside an effective visitor
(`deployed_smoke.py:193`) and its draining cut short by the ceiling or a failure
(`deployed_smoke.py:173`), which `DeploymentAssumption` and a script without failing calls rule out;
and the stages an allowed row is drawn with (`audit.tsx:82`), which `MarksAreTrue` excepts. Of the
hazard of tests that cannot run (`plant_breaches.py:285`) the moved anchor is covered and the missing
database is not: `ZeroMeansEveryBreachWasTried` counts a run that broke as one that noticed, as the
script does. Not listed, being weaknesses of evidence or of convenience: three smoke
scenarios whose effect count would be zero anyway (`deployed_smoke.py:228`), an edit saved while
the breach script runs and overwritten by its restore (`plant_breaches.py:283`; the steps are in
the model), test authorities that differ by process (`app.py:75`; their tokens are the forged
ones).

Left out for good: settings and engine construction (one-off I/O), rendering and the screens that
decide nothing, `meta`, `matrix`, `chain` and `health` of the API (no state), hashing and
signatures (a key is a value), downgrades, the build files.

Next: the ceiling across resets, that a window lets at most the limit through between two resets.
The code deletes the counters and keeps the calls they counted, so the statement needs a history of
what was counted when.
