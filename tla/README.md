# Formal models of the AWS CDK toolkit

TLA+ models of the parts of this repository that behave over time, the `cdk`
command line (`packages/aws-cdk`), the asset publisher (`packages/cdk-assets`),
the custom resource provider framework (`packages/@aws-cdk/custom-resources`)
and the EKS cluster resource on top of it (`packages/@aws-cdk/aws-eks`), and of
two algorithms whose steps interact: the references and dependencies between
stacks in the construct core (`packages/@aws-cdk/core`) and the replacements in
the template diff (`packages/@aws-cdk/cloudformation-diff`). Each model is checked by TLC on small
instances; for eight of them the results that matter most are also proved with
TLAPS for every value of the constants. Paths below are relative to the
repository; `deploy-stack.ts` and the like are named in full once.

The construct library, some two hundred packages that build resource
descriptions in one process, has no behaviour over time. It is not modelled.

## How to run

    tlc -config deploy_alone.cfg MCDeployStack     # any run of the tables below
    tlapm DeployStackProofs.tla                    # any module ...Proofs

`PROJECT.json` lists the runs, the source lines every definition stands for, the
hazards the properties are aimed at, and for every property of a passing run a
*mutant*: a slip of the kind a programmer makes, under which TLC finds the property
violated. The mutants sit next to the definitions they are variants of; no
specification uses them.

## Inventory

| Part of the system | State it keeps | Operations | Talks to | What is hard |
|---|---|---|---|---|
| Stack deployment: `aws-cdk/lib/api/deploy-stack.ts`, `api/util/cloudformation.ts`, `api/util/cloudformation/stack-status.ts` | a snapshot of the stack taken at the beginning; a change set name | `deployStack`, `destroyStack`, the polling loops `waitForChangeSet`, `waitForStackDeploy`, `waitForStackDelete` | CloudFormation by calls and polls; the monitor; asset publishing | everything is decided on the snapshot while the stack moves on; other invocations; a predecessor that was killed; polls see only some of the statuses |
| Stack activity monitor: `api/util/cloudformation/stack-activity-monitor.ts` | the events seen so far, `readPromise`, the timer, the printers' queues | `start`, `tick`, `readNewEvents`, `stop`, `finalPollToEnd` | `describeStackEvents`, page by page; runs beside the deployment | `stop()` during a poll, failing pages, events that arrive between pages |
| Assembly order and selection: `@aws-cdk/cx-api/lib/toposort.ts`, `api/cxapp/cloud-assembly.ts` | the set of selected stacks | `topologicalSort`, `selectStacks`, the two extensions | read by the toolkit | circles, closures that stop early, patterns that overlap |
| Toolkit commands: `aws-cdk/lib/cdk-toolkit.ts` | outputs collected so far, the outputs file | `deploy`, `destroy`, and `diff`, `list`, `synth`, `metadata` without state | the two parts above | the n-th stack fails; a deployment that turns into a destruction |
| Context lookups: `api/cxapp/cloud-executable.ts`, `context-providers/index.ts`, `lib/settings.ts`, `commands/context.ts` | the project context in memory, `cdk.context.json`, the missing keys of the pass before | `synthesize`, `provideContextValues`, `saveContext`, `context --reset/--clear` | the app in a child process; AWS accounts; other commands through the file | an app whose questions depend on the answers; failures that look like values |
| Asset publishing: `cdk-assets/lib/publishing.ts`, `lib/private/**`, `aws-cdk/lib/util/asset-publishing.ts` | the list of failures, `aborted`; on disk a cache of zip files, images in Docker | `publish`, `abort`, one handler per kind of asset | S3, ECR, Docker, external commands; other processes through the cache | kills and failures half way through a file, aborts between two steps |
| Provider framework: `@aws-cdk/custom-resources/lib/provider-framework` | nothing but what is in the events it is handed | `onEvent`, `isComplete`, `onTimeout`, `safeHandler`, the waiter state machine | CloudFormation, the user's handlers, Lambda's retries, Step Functions | a resource must be neither orphaned nor deleted twice, every request wants exactly one answer |
| EKS cluster resource: `@aws-cdk/aws-eks/lib/cluster-resource-handler` | nothing but what is in the event: physical id, old and new properties, the id of an EKS update | `onCreate`, `onUpdate`, `onDelete` and what tells that each is complete | EKS; CloudFormation by way of the framework | replacement, rollback and clean-up by physical ids; one update at a time; EKS goes on after the handler has given up |
| Credentials: `api/aws-auth/*` | the default account, what plugins said, memoised; on disk `accounts.json` | `forEnvironment`, `baseCredentialsPartition`, `defaultAccount`, `AccountAccessKeyCache.fetch`, `fetchCredentialsFor` | STS, plugins; other processes through the cache | a cache written without a lock, answers kept whatever they were, a fallback where a role cannot be assumed |
| Construct core: `@aws-cdk/core/lib/private/prepare-app.ts`, `private/refs.ts`, `deps.ts`, `stack.ts`, `nested-stack.ts` | parameters, outputs, exports, dependencies, assets of nested templates | `addDependency`, `resolveReferences`, `prepareApp` | the toolkit reads the order, CloudFormation the templates | two rounds with assets in between, recursion over nested stacks, cycles |
| Template diff: `@aws-cdk/cloudformation-diff/lib` | a copy of the new template, the differences so far | `diffTemplate` and the comparisons under it | `cdk diff` | a fixpoint over references, circles among them |
| Bootstrap and toolkit info: `api/bootstrap/*`, `api/toolkit-info.ts` | the version of the bootstrap stack | `bootstrapEnvironment2`, `prepareEcrRepository` | deployment of a stack | version checks against a stack others upgrade |
| `AwsCustomResource` runtime: `custom-resources/lib/aws-custom-resource/runtime` | none | one handler | CloudFormation | errors to be ignored, physical ids |
| Init templates, plugins, version check | none over time | file copying, loading of modules | | |

What makes each of them correct, in a line: a deployment that says it is done is done
(deployment); every event is shown, once and in order (monitor); the selection is
closed and run in the order of the dependencies (assembly and toolkit); the loop
gives up only when there is nothing left to try, and what it found is kept (context);
a publisher accounts for every entry and publishes whole assets (assets); no resource
is orphaned and no request unanswered (framework); the cluster on record is as its
properties say and no other is left (cluster); credentials are for the account asked for
(credentials); a reference leads to what it stands for and the assembly can be deployed
in order (core); what is reported as replaced is what will be (diff).

How they interact: `cdk deploy` synthesises the app (context lookups), sorts and
selects its stacks (assembly), and for every selected stack publishes its assets,
then calls `deployStack`, beside whose polling loop the monitor runs. A stack that
holds a custom resource makes CloudFormation call the provider framework, which runs
in AWS Lambda and not in the toolkit, and calls the user's handlers, of which the cluster resource
is one. Every call to AWS is made with credentials from the SDK provider. The construct core runs in the
app, before the toolkit gets to see the assembly; its dependencies are what the toolkit sorts by. The models follow these seams: each treats its
neighbour as one step or as an external service.

## The modules

### `StackStatus`, `CloudFormation`, `DeployStack`

`StackStatus` holds the predicates of the class of that name, as sets of statuses.
`CloudFormation` is the service, which the repository does not contain; its header
lists what is assumed of it, and each assumption is one the toolkit's own polling
and comments rely on. It has one stack, its status, its configuration (a template
together with tags and parameter values), what a rollback would return to, its
termination protection, and the change sets registered on it by name.

`DeployStack` has a process per *invocation* of the CLI. `pc` is the `await` it is at, so a
step of the model is what the code does from one `await` to the next: `Lookup`,
`DeleteFailedStack`, `WaitFailedStackDelete`, `CheckSkip` (with `canSkipDeploy`),
`RemoveChangeSet`, `CreateChangeSet`, `WaitChangeSet`, `Protect`, `RemoveEmpty`,
`Execute`, `WaitDeploy`, and for `destroyStack` `DestroyLookup`, `Destroy` and
`WaitDestroy`. `seen` is `cloudFormationStack`, the snapshot. `Interrupted` lets any
step fail for a reason outside, or the process be killed; the next `Start` finds
what was left behind. An answer of the service that says a call was not legal ends
the invocation as `refused`, which is what `CallsAreLegal` is about. Two history variables
serve the properties about several invocations: `completed`, the configurations an operation put in place
since the invocation called `executeChangeSet`, and `asked`, those asked for by itself and by whoever overlapped with it.

### `StackMonitor`

One poll is `Tick` or `Stop` followed by `ReadPage`s and `ReadLastPage`; `activity` is the field of that name. Events are numbers
in the order they happen; a page holds `PageSize` of them, newest first, and new
ones may be emitted between two pages. `batch`, `printable` and `printed` are sequences, since the order is the point:
a page is appended as it is read, and `OldestFirst` is the `events.reverse()` at the end of a read. `reader` says on whose behalf
`readNewEvents` runs, `readPromise` is the field of that name with the value
`rejected` for the promise of a poll that failed. `Lost` names the events that a poll
had marked as seen when one of its later pages failed, and those hidden behind them.

`EventFeed` is what the monitor is for, without pages, polls and timers: events happen, some are queued,
the queue is shown, one after another in the order they happened, and in the end the feed is finished or broken. `StackMonitor` implements it, with `Feed` as
the refinement mapping; the run checks this as the property `FedInOrder`.

### `Toolkit`

Follows `deploy` and `destroy` from the sort to the last stack. `SortPass` is one turn of
the loop of `topologicalSort`; `round` records the pass in which a stack was placed,
and with the order of the ids this is the sorted sequence (`Before`). `SelectPattern`,
`NoStackFound` and `Extend` are the loops of `selectStacks` and its extensions. Deploying
one stack, the business of `DeployStack`, is one step, which may fail. A glob
pattern is the set of ids it matches. `cloud` says which artifact stands under a
name in an environment, which is how a destruction that hits the wrong stack shows.

### `ContextLookup`

`Load` reads the settings, a pass of `doSynthesize` is one of `AppFails`, `NothingMissing`,
`LookupsDisabled`, `GiveUp` and `TryLookup`, followed by one `Lookup` per key and `Save`. An
app is a function from the keys it has values for to the keys it reports missing, so
that questions may depend on earlier answers in any way. `world` is what a lookup
would find now; it changes at will. `Forget` is `cdk context --reset` and `--clear`.

### `AssetPublishing`

Processes publish manifests one after another in one directory. `Look` is the check of the
destination, `Package` the decision what has to be made, `OpenZip` and `CloseZip` the two
ends of `zipDirectory`, `Build` a `docker build`, `Upload` an upload or a push, `Handled` and
`Fails` the two ways back into the loop of `publish()`. `cache` holds, per asset, whether a
file or image is there and whole; a zip file that is open belongs to the process
that writes it. Only image handlers look at `aborted` after the destination has been
checked, and the model has them differ in the same way. What can happen besides
a failing call is the constant `Mishaps`: the process is killed, the archiver reports
an error, a file cannot be read; the history variable `mishap` notes which asset was being
written when it did.

### `ProviderFramework`

For every request of CloudFormation there is a record for the `onEvent`
invocation and one for the execution of the waiter state machine. `FailureId` is the choice of
the physical id reported with a failure, `IgnoreDelete` the test of `safeHandler` for the
marker, `IsComplete` a call of that handler by the waiter, `OnTimeout` what the waiter
calls when its retries are used up. Outbound calls fail in two ways: `rejected` has
no effect, `lost` has one but is reported as failed; the history variable `lost` remembers
that there was one of these. An answer can fail in a third way, `refused`: the server turns the PUT down, and the code, which
resolves on a response of any status (`outbound.ts:20`), goes on as if it had been delivered. One cause may be a body with other than ASCII
characters, whose length in bytes is not its `content-length` (`cfn-response.ts:46`). That CloudFormation stops waiting by itself, after an hour, is left out. CloudFormation follows up on a failed creation, on a
replacement and on a failed update as its documentation and the framework's
comments say it does. `stranded` marks an `onEvent` that failed after the handler had done its work.

`ResourceProtocol` is the service as CloudFormation sees it: a request is sent, answered, received. As long as no
call was lost an answer comes once and for the request that is waited for. The
framework implements it under the mapping `Protocol`, checked as `AnswersOnce`.

### `ClusterResource`

The two handlers of the cluster, with the framework as the thing that calls them and delivers
their answers. `OnCreate`, `RejectUpdate`, `Replace`, `LookUpVersion`, `UpdateClusterVersion`, `UpdateClusterConfig`,
`NoUpdates` and `OnDelete` are the ways through `onEvent`; `Complete`, `CompletionFails` and `TimeOut` are the ends of
waiting. `clusters` and `updates` are what EKS has: it works on a cluster after the call has returned, takes one
update at a time, may fail at it, and may refuse a call (`MaxRefusals`). `CloudFormationStep` sends requests and follows
them up: the way back after an update that failed, and the deletion of what was replaced or never got ready.
Three history variables name what the handler does not promise: `drifted` are the aspects an update passed over (everything else
when the version changes; blocks that `setsEqual` takes for the same) until one that EKS has completed sets them, `late` the clusters EKS was still at work on when
the handler gave up, `abandoned` those CloudFormation forgets.

### `AccountCache`, `SdkProvider`

`AccountCache` is the file `accounts.json`: loaded whole, saved by a truncation (`OpenMap`) and a write (`WriteMap`), which
another process may do in between; then the tail of a longer text can stay behind and the file is `mixed`. A file that is missing, denied or
no JSON is made light of; any other error of the disk is thrown (`LoadFails`, `OpenFails`, `WriteFails`; lines 88 and 100 of `account-cache.ts`) and,
in `DiskFails`, fails the call or leaves it without a default account, although STS has answered.
`SdkProvider` has a process per toolkit at work, each with the default credentials of its environment. A `Call` is `forEnvironment`
or `baseCredentialsPartition`; both need the default account first (`ResolveDefault`, `Get`, `AskSts`, `Put`, `Open`, `Write`), then
`Choose` is `obtainBaseCredentials` and what follows from it, and `AssumeRole` the call of STS or the fallback. A process that is `Killed`
leaves the file as it is.

### `StackReferences`

`prepareApp` from the calls of `addDependency` to the second round of `resolveReferences`. A token is a record that says what
kind it is and in which stack it is defined: an attribute, a parameter or output of a nested stack, an import, the parameter of an asset. An activation of
`resolveValue` is the record `call`, and each branch of the function an action: `InSameStack`, `OtherEnvironment`, `ResolveInParent`,
`ResolveOutput`, `ResolveImport`, and `PassParameter` on the way back. `PrepareTemplateAsset` turns the template of a nested stack into an asset and notes in
`hashed` its whole `Content`: the references and what is rendered in their place, parameters, outputs, stacks nested in it and what is passed to them. The properties ask what the tokens come to: `Meaning` follows a token through parameters, outputs and exports,
as CloudFormation will.

### `TemplateDiff`

The section of the resources, where replacements are found. `Difference` is `calculateTemplateDiff` with the comparisons under
it, which take texts for equal if they start with the same number; `Propagate` is a turn of the loop in `diffTemplate` that marks references to what will be
replaced, and `CopyReplacements` its end. `ReplacementsAreClosed` compares the result with the least closed set, defined apart from the loop.

### `MC...`

Only constants for TLC: sets of command lines, assemblies, apps and manifests. No `.cfg`
replaces a definition. `MCStackReferences` sets up three trees of stacks, one of them two levels deep, and `MCTemplateDiff` changes of
three resources that refer to one another. `StackMonitor` and `ProviderFramework` are instantiated by their
`.cfg` files alone.

## What is checked

Runs that find no error:

| Run | Shows |
|---|---|
| `deploy_alone` | One invocation after another, each possibly interrupted: it ends (`InvocationEnds`), its report is true of the stack (`DeployedIsInPlace`; `ReportsAreTrue`, which is `NoOpIsUpToDate`, `ReviewedChangeSetIsReady` and `DestroyedIsGone`), and its calls are legal (`CallsAreLegal`) |
| `deploy_pair` | Two invocations at once, each with a template of its own, both under the default change set name, interrupted anywhere: success is reported only after an operation has completed (`DeployAwaitsCompletion`), and what was put in place for it, be it by the other's change set, was asked for by one of those that overlap (`DeployedWasAskedFor`) |
| `monitor_polls` | Pages, polls, failures and `stop()` in any order: the monitor implements `EventFeed`, every event in its place within a poll and across polls (`FedInOrder`), for the reason stated in `FeedInv`; `stop()` settles and the next tick makes up for one that failed (`KeepsUp`); in the end nothing is missing but what a poll lost that failed between two pages (`FinalPollShowsRest`) |
| `toolkit_order` | Over every dependency graph of three stacks, circles included: `StacksInOrder`, `SelectionInv` (the selection is the closure of what was asked for), `OutputsFileIsComplete`, `EmptyStackIsDestroyed`, and `CommandEnds`: sort and extension make progress or stop |
| `context_alone` | Every app over two keys: `StuckInv`, from which it follows that the loop gives up only when it is stuck, `SynthesisIsCached`, `CachedValuesStay`, `SynthesisEnds` |
| `assets_alone` | All five ways to make an asset, failing calls, aborts, kills, failing archives and unreadable files: `AccountInv`, `PublishedAsRequired` (whole, and not made again if it was there), `PublishingEnds` |
| `provider_requests` | Three requests, anywhere a call that is rejected or lost or an answer that is refused: the framework implements `ResourceProtocol` (`AnswersOnce`), for the reason stated in `ProtocolInv`; `ResourcesAreTracked` (nothing is orphaned, what is on record exists), and `EveryRequestIsAnswered` but for the two ways of losing an answer that the property names |
| `cluster_requests` | Five requests with their rollbacks and clean-ups: `ClusterInv` (no cluster is left over), `SettledIsApplied`, `ReplacedOnlyWhenActive` |
| `accounts_shared` | Two processes that share the cache, one of them killed, or STS or the disk out of order: `CacheInv`, `CredentialsAreRight`, `FailsForCause` |
| `references_wired` | Some 5900 small apps over eight stacks: `AssemblyInv` (no cycle, no import without a dependency), `TemplatesAreComplete` (references reach their targets, and nothing comes to a template after it was hashed but where it finds the assets of templates nested in it, whose own hashes were in it), `DependenciesAreKept`, `RefusedForCause`, `PrepareEnds` |
| `diff_replaces` | Changes of one resource while two others refer to it and to each other: `ReplacementsAreClosed`, `DiffEnds` |

The invariant of a module includes its `TypeOK`.

A run that finds a disagreement between the code and what it says of itself, listed
under `findings` in `PROJECT.json` with the line that is contradicted:

| Run | What TLC finds |
|---|---|
| `cluster_access` | An update that replaces the blocks public access is allowed from by as many others, or takes some away, is taken for none (`cluster.ts:331` of the handler joins two conditions by `\|\|`): the deployment succeeds and the old blocks stay (`AccessIsAsAsked`) |

### Disagreements no run is about

Met while translating the code. The models do what the code does; where a property of a
passing run would be broken it names the exception.

- Without `--change-set-name` all invocations use one name (`deploy-stack.ts:237`), although lines 135-136, and lines 73-74 of
  `cloudformation-deployments.ts`, promise a generated one: of two concurrent deployments one may execute the change set of the other, and
  both report success. What does hold then is `DeployedWasAskedFor`.
- A response of any status passes for a delivered answer (`outbound.ts:20` of the framework). If the server refuses it, CloudFormation is
  not answered. `EveryRequestIsAnswered` excepts the requests to which this happened (`refused`).
- An error of the disk that the cache of accounts does not expect (`account-cache.ts:88` and 100) fails the call, or leaves the default account
  undefined, which by `sdk-provider.ts:225` means that there are no credentials. `FailsForCause` counts it as a cause, and the process as unlucky.
- Events are marked as seen page by page (`stack-activity-monitor.ts:243`); if a later page fails they are dropped and no later poll shows
  them, against lines 162-163. `FinalPollShowsRest` excepts them as `Lost`.
- A read that throws leaves its rejected promise in `readPromise` (`stack-activity-monitor.ts:183`); `stop()` awaits it and fails, although line 190 treats the
  same error as one to be logged. `KeepsUp` counts this as an end.
- A zip file is written under its final name (`cdk-assets/lib/private/archive.ts:19`): what a killed process left unfinished passes for cached
  (`handlers/files.ts:72`) and is uploaded. `PublishedAsRequired` is about assets without such a mishap.
- If the last error of the task was not `Retry`, `onTimeout` fails to parse it and does not answer (`framework.ts:89`; README of `custom-resources`, lines
  157-159). `EveryRequestIsAnswered` excepts it.
- A cluster whose version changes keeps its logging and access settings, whatever else was asked for along with it (`cluster.ts:130` of the handler). This is
  part of `drifted` in `SettledIsApplied`.
- Two lists of dependencies of the same length, two or more, are taken for equal (`cloudformation-diff/lib/diff/util.ts:82-92`), and so are texts that start with the
  same number, as `10.0.0.0/16` and `10.0.0.0/24` (line 24): a template that changes nothing else has no difference. `ReplacementsAreClosed` starts from
  the differences found.
- References within other intrinsic functions are not looked into when replacements are propagated (`diff-template.ts:120` and 153).
- `addDependency` of a resource that represents a nested stack on something inside of it makes that resource depend on itself (`deps.ts:61-67`).
  `DependenciesAreKept` takes the dependency for kept; CloudFormation would refuse the template.
- An empty change set is deleted only if `execute` is truthy (`deploy-stack.ts:278`), so a caller that
  leaves the option out, which means *true* elsewhere (lines 128-130 and 285), leaves it behind.
  `CommandLineRequests` includes such callers; later invocations cope with the leftover.
- The monitor has its printer list the failures before the final poll has brought the last ones
  (`stack-activity-monitor.ts:156`, against lines 562-563).
- A pattern whose stacks an earlier pattern has selected already is rejected as matching nothing
  (`cloud-assembly.ts:108` and 115). `SelectionInv` claims no more than what is left.
- Two stacks of one name in two environments overwrite each other's outputs (`cdk-toolkit.ts:206`; the README of
  `aws-cdk`, lines 237-238, speaks of artifact ids). `OutputsFileIsComplete` is about stacks with a name of their own.
- A stack that has lost its resources is destroyed by its name where an id is expected
  (`cdk-toolkit.ts:146`): nothing or another stack is. `EmptyStackIsDestroyed` is about stacks named after their id.
- `isComplete` is called `maxAttempts` + 1 times (`waiter-state-machine.ts:69`, against line 41): `MaxAttempts` of a
  state machine counts retries. `ProtocolInv` has this bound.
- No disagreement, but worth a check: the comment on the second round of `resolveReferences` (`prepare-app.ts:53-55`) says that a template may be added to
  after it was hashed, and that its hash will still change with its meaning. `HashesAreFinal` is that claim.
- The Delete after a creation that failed later than in `onEvent` does reach the user's handler
  (`cfn-response.ts:75`; README of `custom-resources`, lines 214-217). `MarkersAreRight` says what the marker is for.
- `cdk context --reset` of a key that is also in `cdk.json` says that the key will be refreshed
  (`commands/context.ts:90`); it keeps its value. `cdk.json` is not modelled.
- A file that cannot be read makes the async executor of `zipDirectory` throw (`archive.ts:35`); nothing settles the promise and
  `publish()` never returns. This is the state `stuck`, the exception in `PublishingEnds`.

### Bounds, and why they are enough

- *Deployments*: two templates and two sets of inputs tell "the same" from "another", which is
  all the code compares. An invocation may be restarted forever, so that chains of
  interrupted predecessors of any length occur. `--force` only changes whether `canSkipDeploy` is asked and
  is not combined with other options, nor is an omitted `execute` with termination
  protection. `deploy_pair` has one template per invocation, so that what is in place tells whose change set was executed. The stack and its statuses are not bounded.
- *Monitor*: six events of which one is too old, on pages of two: three pages, with events
  arriving between pages; two failing calls, so that an error can follow an error.
- *Toolkit*: three stacks have all graphs that matter to a pass-by-pass algorithm: chains,
  diamonds without a tip, circles, stacks aside. `PlainApps` gives stacks their default names;
  `TwinApps` and `RenamedApps` are the smallest in which names are not ids. Selections have one or
  two patterns, with and without stacks in common, or one that matches nothing.
- *Context*: `AllApps` has all 256 functions over two keys, sensible or not, so that progress takes up to
  two passes after the first; longer chains are covered by the proof of `GivesUpRightly`.
- *Assets*: a manifest has up to two entries, so that one may follow a failure, and a publisher may
  meet the cache and the store of its predecessors. One publisher and one destination; any number of
  both is what `Accounts` is proved for.
- *Framework*: three requests make a creation, an update that replaces and the deletion that
  follows. `MaxAttempts` is 1, the boundary between the first call, the last
  retry and the timeout. `MaxFaults` is what Lambda repeats (`AsyncRetries`): with more of them
  nobody answers. All three kinds of fault may occur, one at a time.
- *Cluster*: five requests make a creation, an update, its way back, a replacement and a clean-up; one refused call puts a failure into any
  of them. Nine sets of properties change each aspect alone, the version with others, and the cluster as a whole.
- *Credentials*: two processes, two calls, a cache of two entries for three keys, so that it overflows; two accounts with a key of either
  provider. One trouble: a kill, a failing STS or a failing disk. Processes are interchangeable (`SYMMETRY`, which no liveness property forbids here).
- *References*: up to two references, one reference and one dependency, or three dependencies, between any of the stacks: enough for a reference that meets the wires of another,
  an import against a dependency, and a cycle through three trees.
- *Diff*: three resources, so that a replacement can take two turns to propagate and references can go in circles; a property of each kind of update.

### Fairness

Weak fairness only. `DeployStack`: an invocation that is running takes its next step, for
every call is answered or fails, and the service goes on with what it
has begun, as CloudFormation's operations time out by themselves; nobody is obliged to start an invocation. `StackMonitor`: a
timer that is set fires (`setTimeout`) and a call that was made returns; nobody is obliged to
call `stop()`. `Toolkit`: one thread that goes on until it ends. `ContextLookup` and `AssetPublishing`: child
processes, lookups, uploads and commands return; a promise that is never settled is a
state without a next step and no fairness helps it. `ProviderFramework`: Lambda and Step Functions run what was called;
CloudFormation is free to send no further request. `StackReferences` and `TemplateDiff` are one thread. `ClusterResource` and `SdkProvider` state
safety only: whether EKS or STS ever answers is not in the hands of the code.

### Deadlock

TLC looks for deadlocks in the runs of `DeployStack`, `ContextLookup` and `AssetPublishing`, where a finished
process can always start again. It is switched off where the system does stop: a command of
`Toolkit` ends; the monitor has been stopped and the stack's events have all been emitted; the
bound on the requests of CloudFormation or on the calls of a provider is reached; an app is prepared or refused, a comparison done. For these, liveness properties say what has to be
reached before. A publisher that is `stuck` can still be killed, as it would be.

## What is proved

For every value of the constants that satisfies the `ASSUME`s, without bounds:

| Module | Theorem | States |
|---|---|---|
| `DeployStackProofs` | `TypeCorrect` | `Spec => []TypeOK` |
| | `DeploymentsAwaitCompletion` | with any number of interfering invocations, `[]DeployAwaitsCompletion` |
| | `DeploymentsAreInPlace` | for one invocation at a time (`Alone`), `[]DeployedIsInPlace` |
| | `ReportsHold`, `LoneCallsAreLegal` | for one invocation at a time, `[]ReportsAreTrue` and `[]CallsAreLegal` |
| | `DeploymentsWereAskedFor` | for any number of overlapping invocations and whatever change set names they use, `[]DeployedWasAskedFor` |
| | `MonitorInvariant` | of `StackMonitor`, for any number of events, size of pages and failures, `MonitorSpec => []FeedInv` |
| | `MonitorFeedsInOrder` | the refinement `MonitorSpec => FedInOrder`, that is `EventFeed!Spec` under the mapping `Feed` |
| | `FinalPollShows` | of `StackMonitor`, `[]FinalPollShowsRest` |
| `ToolkitProofs` | `ToolkitTypeCorrect` | `Spec => []TypeOK` |
| | `CommandsKeepOrder` | for every finite assembly, `StacksInOrder` |
| | `SelectsRight`, `OutputsAreWritten` | for every assembly and command line, `[]SelectionInv` and `[]OutputsFileIsComplete` |
| | `EmptyStacksGo` | `EmptyStackIsDestroyed` |
| | `ReplacementsClosed` | for any two templates (`TemplateDiff`), `DiffSpec => []ReplacementsAreClosed` |
| `ContextLookupProofs` | `StuckInvariant` | `Spec => []StuckInv` |
| | `GivesUpRightly` | for every app and any number of commands, `[]GivesUpOnlyWhenStuck` |
| | `SynthesisCached`, `CachedStays` | for every app, `[]SynthesisIsCached` and `CachedValuesStay`, which speak of one command at a time |
| `AssetPublishingProofs` | `PublishersTypeCorrect` | `Spec => []TypeOK` |
| | `Accounts`, `EntriesAccounted` | for every manifest and any number of publishers, `[]AccountInv` and with it `[]EntriesAreAccountedFor` |
| | `PublishesAsRequired` | for one publisher at a time, `[]PublishedAsRequired` |
| `ProviderFrameworkProofs` | `ProviderInvariant` | `Spec => []ProtocolInv` |
| | `ProviderAnswersOnce` | the refinement `Spec => AnswersOnce`, that is `ResourceProtocol!Spec` under the mapping `Protocol` |
| | `ProviderTracksResources` | `[]ResourcesAreTracked` |
| `ClusterResourceProofs` | `NoClusterLeftOver` | for all templates and any number of requests and refused calls, `[]ClusterInv` |
| | `SettledClustersAreApplied` | the same, `[]SettledIsApplied` |
| | `ReplacementsComeFirst` | the same, `ReplacedOnlyWhenActive` |
| `StackReferencesProofs` | `AssemblyIsDeployable` | for every tree of stacks and every app, `[]AssemblyInv` |
| | `PreparationKept` | the same, `[]PInv`, that is `PreparationInv` with what it rests on |
| | `AskedIsKept`, `NoAppRefusedInVain` | from it, `[]DependenciesAreKept` and `[]RefusedForCause` |
| | `MeaningKept` | the same as `PreparationKept`, for `[]MInv`, that is `PInv` with `MeaningInv` |
| | `CoverKept` | the same, for `[]CInv`, that is `MInv` with `CoverInv` |
| | `ReferencesAreComplete` | from it, `[]TemplatesAreComplete` |
| `SdkProviderProofs` | `CacheInvariant` | for any number of processes, keys and accounts, `[]CacheInv` |
| | `CredentialsAreForTheAccount`, `FailuresHaveACause` | from it, `CredentialsAreRight` and `FailsForCause` |

The assumptions are about the constants only: null values differ from real ones
(`NullAssumption`, `ContextAssumption`, `AssetsAssumption`, `ConstantsAssumption`), requests, apps, plugins and command lines are
of their types, plugins provide keys of the account they are asked about, keys are finitely many, faults are of the three kinds, and there is at least one stack and finitely many (`StacksAssumption`). Every
module with an assumption is extended by a module of a passing run, so TLC
evaluates it.

Few of the properties are inductive. The strengthenings are definitions of the
modules they are about:

- `DeployStack!SharedInv`. An invocation that waits for its deployment finds the stack in a successful
  status only if an operation has completed since (`AwaitsOperation`). It rests on
  `executeChangeSet` putting the stack in progress before it returns: the assumption
  under which the polling loop is right, also when several invocations poll.
- `DeployStack!AloneInv` follows one invocation through its awaits. `SnapshotHolds`: until termination
  protection has been set, the snapshot's idea of it is the stack's. `ChangeSetIsMine`: what is registered under the name is
  what was asked for, as the leftover of a predecessor was removed first. `PutsInPlace`: from
  `executeChangeSet` on, any status that may lead to a success belongs to the
  configuration asked for; a rollback leads to other statuses. `StackInv` excludes a deletion of a protected stack.
- `DeployStack!ReportsInv` follows the same lone invocation for what it says without deploying. `RegisteredInv`: a change set is there only
  while the stack is in a status that lets one be there, and an empty one is empty because the stack is as asked for. `SnapshotIsCurrent` and
  `ChangeSetIsKnown` say of each await what still holds of the lookup. `FoundAtRest` is the honest condition: if an operation was under way when the invocation looked, all of this is lost.
- `DeployStack!OverlapInv`. Once an invocation has created its change set, whatever is registered under its name was asked for by itself or by somebody who
  overlapped with it (`WasAsked`): leftovers were removed, and who creates another one now overlaps. Executing a change set removes all of them, so while it waits
  for the deployment this holds of every name, and so of what an operation puts in place. The change set names need not differ, and do not by default.
- `Toolkit!OrderInv`. A stack is placed by the sort only after the stacks it depends on
  (`SortedSoFar`), nothing is selected before all are placed (`AllPlaced`), and a selection that is
  run is closed (`ClosedWhenRun`). That the next stack is the first one (or the last one) then gives the order.
- `Toolkit!PatternsInv`. Before the selection is extended it is what the patterns so far match (`SelectedSoFar`), and while it is extended
  everything that is closed and has the matched stacks has it (`LeastSelection`); the closure is thus characterised as a least set, without induction.
  `OutputsInv`: the file never lags behind the outputs noted.
- `TemplateDiff!DiffInv`. A value of the copy is that of the new template, or a reference that is marked (`MarkedForCause`): to a resource
  that every closed set contains. So the loop never overshoots; that it stops late enough is that at its end no reference to a replacement is left unmarked.
  The theorem is in `ToolkitProofs`, as `cdk diff` is a command of the toolkit.
- `ContextLookup!StuckInv`. From the second pass on, every key of the pass before has been tried
  (`Tried`), and a key that is still missing and was tried has failed. `CachedInv` (`HasFile`): a lone command has the file in memory, and looks up only what is not in it.
- `AssetPublishing!AccountInv`. Every entry before the current one is stored or failed, and a handler
  that has returned has published or was aborted (`Progress`). That uploads never take anything
  away (`StoreGrows`) makes it hold whatever other publishers do. `RequiredInv` adds, for a lone publisher, that a zip file is
  incomplete only while it is written or after a mishap (`ZipInv`), and that an upload finds it.
- `StackMonitor!FeedInv`. Whatever is above the page a read asks for next, it has collected itself; so an event that is fresh is newer than
  all that were delivered. `ReaderInv` keeps a tick and the final poll apart, without which two reads would mix.
  `RestInv` adds where gaps may be: below an event that was handed on, or above the page that is next, there is nothing but what is hidden
  behind the events a failed read had marked (`NoGaps`).
- `ProviderFramework!ProtocolInv`. `OneTurn`: until a call is lost, at most one of `onEvent` and the waiter is about to answer, and only the request that is waited for.
  `IdInv`: the marker of a failed creation never stands for anything else. Each step then is one of the protocol, or none.
  `TrackingInv` adds what is on record while a request is served (`OnRecord`), what its answer says about what exists (`Outcome`), and where every resource is
  accounted for (`Accounted`).
- `ClusterResource!SettledInv`. An update, and the way back after it, keeps what is on record (`RequestIsRight`), and EKS has at most one update of a cluster under
  way (`UpdatesInv`). `MayBe` is the cluster as it is or will be when that ends: whatever it is, it is as recorded but for what the two
  templates differ in (`UpdateIsOfRecord`), a condition that does not change when they are swapped, so it carries over to the rollback; and what a handler waits for is as asked
  for (`WaitsForTarget`). An aspect that differs and is not set by the update is one that it passes over. `RestInv` is `SettledIsApplied` for the time when nothing
  is done to the cluster, the clean-up of others included, which is what `ReplacedOnlyWhenActive` needs.
- `StackReferences!AssemblyInv`. `AssemblyIsAcyclic` is stated as "every group of stacks has one that depends on none of them", and `Reaches` by
  closed sets, which makes the step that adds a dependency a matter of sets and needs no induction over paths. `ImportsAreOrdered` needs `ReturnIsOrdered`,
  the same of the value that is on its way back from `resolveValue`.
- `StackReferences!PreparationInv`. `WiresInv`: an edge that crosses trees is a reference of the app, everything else was defined where it is needed. `CallInv`
  holds of `resolveValue` at any depth: it goes up from the consumer, keeps to the producer's tree, and comes down through nested stacks each within the one before.
  `ProgressInv`: no reference is left out, and `deps` is a part of what the app implies, so a cycle that is refused is one of the app.
  `HashInv`: a nested stack is hashed after those nested in it.
- `StackReferences!CoverInv`. After the first round every reference but the parameter of an asset has the value it needs, and no later step takes it away; an
  asset parameter is a reference of the stack around the nested one. So the second round passes down nothing but such parameters
  (`PassesAssetsDown`), only to stacks on the path to the nested template, and each of these was hashed after it.
- `MeaningInv` of `StackReferencesProofs`. A token stands for a reference in use if it is that reference, or the output of a nested stack whose
  value stands for it (`StandsFor`, by a set of tokens, as recursion over them is out of reach). What a parameter passes, a stack is assigned, or
  `resolveValue` is about to return `Takes` over such a token from where it is defined. That a reference then reaches its target, and does so in the
  `2 * Cardinality(Stacks)` places of `Trail`, follows from a bound on the places left (`Leads`): every output leads one stack down the path of the target, every
  parameter one stack up the path of the consumer. `TrailsExist` and `TrailEnds` are inductions over numbers, done with the least number that
  fails, because the induction theorems of the library take an operator.
- `SdkProvider!CacheInv`. The file and the memory of every process tell the truth (`CacheIsSound`, `MemoryIsRight`), which needs that a
  file that is cut short reads as empty and that the number of keys is finite. `CallIsOnItsWay` says which key is being looked up, `BaseIsRight` that the
  base credentials of a call are what their source says. A result is looked at in the one step that returns it,
  so that both action properties follow from the invariant before that step.

## What is only model-checked

All liveness properties: TLAPS does not reason about fairness and `ENABLED` here.
The theorems about one invocation, command or publisher at a time are no more
than that: with several, the properties fail, as the tool takes no locks. `DiffInv` was checked by TLC on a part of the changes of `MCTemplateDiff` only, as every
state quantifies over all sets of resources; the property it proves is checked on all of them.
Induction over data structures is out of reach of the prover too; `RECURSIVE` operators are not used.

## What is not modelled

- Texts: templates, reasons of failures, layout of the progress display, prompts. `DeployStack` compares templates,
  and never looks into them.
- Several stacks in one CloudFormation account, nested stacks, exports: `DeployStack` has one stack.
- Two commands at once in one directory, for the properties `CachedValuesStay`, `SynthesisIsCached`,
  and `PublishedAsRequired`: the tool takes no lock and promises nothing. The processes are there in the models,
  and the other properties hold for any number of them.
- The Fargate profile, whose handler is the cluster's with fewer cases; regions and configuration files of the credentials; sections of a template
  other than the resources; validation, aspects and the writing of the assembly.
- Bootstrapping (a comparison of versions before `deployStack`), the runtime of `AwsCustomResource` (one call, one answer), init templates and the version check.
- The construct library, by far the largest part of the repository: declarative code, in which one call does not meet another. This is why the models stand for
  a small part of its lines.

## Plan

The models were built in the order of importance: deployment, toolkit and assembly, monitor,
provider framework, context, assets; then what meets at their seams, the cluster behind the
framework, the credentials in front of every call, the references in the app, the diff; with abstract
specifications where a component is there to serve another. What would come next:

1. Composition: the monitor beside a deployment, so that its `stop()` meets the statuses
   `waitForStackDeploy` stops at; publishing before a deployment, so that a
   deployment meets a destination that is empty after an abort; `StackReferences` in front of `Toolkit`, whose graphs are any
   so far.
2. `Bootstrap`: the versions of the toolkit stack while it is upgraded by one process and
   checked by another; creation of repositories.
3. An abstract `Deployment` (a stack has a configuration; a deployment is accepted,
   then done or failed), implemented by `DeployStack` for one invocation at a time.
4. Proofs: the abstract `Deployment` as a refinement.
