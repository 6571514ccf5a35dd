# Formal model of `src/aws-build/lib/AWSBuilder.py`

This directory holds TLA+ models of the AWS build-worker library. They come with
TLC configurations that model-check small instances, and TLAPS proofs that hold
for every value of the constants.

## The system

`AWSBuilder.py` is one Python module. Its parts are listed below, with the lines
they occupy.

| Part | Lines | What it does |
|---|---|---|
| Static tables | 11-210 | `HOSTTYPE`, `IMAGE`, `DNS_TAGS`, `BRAIN_TAGS`, the master's `HOSTNAME`/`IP_ADDR`, `SECURE_MODE_SG_NAME` |
| `AWSBuilder` locator | 212-267 | the constructor, `ec2cmd`, `find_vpc`, `find_subnet`: read-only lookups through `aws ec2 describe-*` |
| Security group manager | 269-319 | `find_security_group`, `ensure_security_group` (create, then authorize ingress), `delete_security_group` |
| Provider lookups | 321-366 | `find_instances` and `find_volumes`, each a loop of 10 attempts that re-raises on the last failure |
| Tag loader | 368-386 | `init_tags`: a team name, or a `key=value` file |
| Instance lifecycle | 388-491, 613-616 | the `AWSInstance` constructor (run-instances, volume lookup, create-tags, address lookup), `__enter__`, `__exit__`, `handler`, `keep`, `abandon` |
| Readiness and bootstrap | 499-601 | `wait_until_ready`, `rsync`, `ssh` |
| Cleanup guard | 603-611 | `terminate()` |

### How the parts interact

A caller builds an `AWSBuilder`, then runs `with AWSInstance(...) as inst:`.

- The constructor launches the instance, looks up its volume, tags the instance
  and its volume, and finds the instance's address through the builder.
- `__enter__` saves the current handler of each signal in `self.signals`
  (line 479) and then installs `self.handler` (line 480), one signal at a time.
- The body calls `wait_until_ready` and then its own `ssh`/`rsync` work. It may
  also call `keep(b)` and `abandon()`.
- `__exit__` calls `terminate()`. So does a delivered signal, through `handler`.

The process is single-threaded. Python runs a signal handler between two
bytecodes of the interrupted code, so `terminate()` can run inside another
`terminate()`. That nesting, and the many provider requests that can fail, are
what make the cleanup hard to get right.

## Modules

| Module | Models | Role |
|---|---|---|
| `AWSInstance.tla` | instance lifecycle, provider lookups, readiness, cleanup guard | the component specification |
| `MC_AWSInstance.tla` | | the TLC instance: signal tuple `<<SIGINT, SIGTERM>>`, SIGINT raising `KeyboardInterrupt`, SIGTERM killing the process |
| `AWSInstanceProofs.tla` | | the TLAPS proofs of the lifecycle |
| `AbstractInstance.tla` | what the lifecycle promises | the abstract specification: the provider's instance and the id the object holds |
| `AWSInstanceRefinement.tla` | | the proof that `AWSInstance` implements `AbstractInstance` |
| `AWSInstanceExitProofs.tla` | | the proofs about the with-statement's exit and `abandon()` |
| `SecurityGroup.tla` | security group manager, with the constructor's lookups and the launch abstracted to their effect on groups | several sessions sharing the provider's groups |
| `MC_SecurityGroup.tla` | | two sessions, two VPCs and four group ids, all model values, with symmetry on sessions and group ids |
| `SecurityGroupProofs.tla` | | the TLAPS proofs about security groups |
| `TagParser.tla` | tag loader | `init_tags` taking one line of the file per step, and a closed-form reference parser |
| `MC_TagParser.tla` | | files of at most two lines of at most three characters |
| `TagParserProofs.tla` | | the TLAPS proofs about the tag loader |
| `Locator.tla` | resource locator | the constructor's `find_vpc` and `find_subnet` |
| `MC_Locator.tla` | | at most two VPCs and two subnets, the names `web` and `db` |
| `LocatorProofs.tla` | | the TLAPS proofs about the locator |

### State of `AWSInstance`

| Variable | Code |
|---|---|
| `pc` | where the main code is: the constructor steps (`run`, `vols`, `novol`, `tags`, `list`), the `__enter__` loop (`enter` before saving a handler, `install` before installing it), the with-body (`ready`, `poll`, `boot`, `work`), `__exit__` (`exit`) and `end` |
| `stack` | the control point (`check`, `call`, `wait`, `clear`, `restore`) of each active `terminate()` call, innermost last; `wait` is a terminate-instances request sent and not yet answered |
| `cloud` | the provider's state of the instance |
| `volAttached` | the provider's state of its volume |
| `tagged` | the provider's state of its tags |
| `instance` | `self.instance` |
| `ipv4` | `self.IPv4`; `unset` stands for the attribute never being assigned |
| `keepinstance` | `self.keepinstance` |
| `handlers` | the process's signal table |
| `saved` | `self.original_handlers`; a missing key is `none` |

`nEntered` and `loopIdx` are the loop indices. `abandoned`, `termCalls`, `sigs`
and `exitDone` are history variables for the properties and for the signal
bound.

The main code takes a step only while `stack` is empty (`Running`). An
exception is `Raise`: every frame is unwound. Inside the with-body, `__exit__`
then starts `terminate()` with a fresh frame. Anywhere else the script ends.

### Actions

There is one action per operation or loop iteration of the code, each mapped in
`PROJECT.json`:

| Action | Code |
|---|---|
| `RunInstances` | run-instances |
| `FindVolumes` | one attempt of `find_volumes` and the constructor's reaction |
| `CreateTags` | `create-tags`, whose result is ignored |
| `FindInstances` | one attempt of `find_instances` and the loop that assigns `IPv4` |
| `EnterSave`, `EnterInstall` | the two statements of one iteration of `__enter__`: save the handler, install `self.handler` |
| `WaitUntilReady` | the checks and the instance-running wait |
| `Probe` | one readiness probe, or the check after the loop |
| `Bootstrap` | one remote bootstrap step |
| `SetKeep` | `keep` |
| `Abandon` | `abandon` |
| `ExitScope` | leaving the body |
| `TermCheck`, `TermCall`, `TermWait`, `TermClear`, `TermRestore` | the statements of `terminate()`, taken by the innermost frame: the test, sending terminate-instances with the current `self.instance`, its answer (accepted, or `CalledProcessError`), clearing the fields, and the restore loop |
| `Signal` | delivery to the installed handler |
| `AttachVolumes` | the provider attaching the volume |

`Signal` has four cases:

- the guard installed by `__enter__` pushes a frame;
- the original SIGINT handler raises;
- inside the retry loops of `find_volumes` and `find_instances`, the bare
  `except` (lines 338 and 361) catches that `KeyboardInterrupt` and retries,
  unless it is the last attempt;
- the original SIGTERM handler ends the process.

Sending the request and receiving its answer are separate steps because a
signal can arrive while `check_output` waits; the nested `terminate()` then
still sees the id. Clearing the three fields, the restore loop and `abandon()`
are each one step. A signal between the assignments of `abandon()` would let a
nested `terminate()` see the id of an instance being handed over; that hazard
is listed in `PROJECT.json` without a run. A signal inside the clearing or the
restore loop finds the instance already terminated, so no checked property
tells it apart from one just before or after.

`ssh` and `rsync` are abstracted to two facts:

- `RemoteRaises`: the call raises when the instance is gone or the address was
  never assigned;
- `RemoteOk`: the remote command can succeed only on a running host whose
  address is known.


### `SecurityGroup`

State:

- `group[g]` is the provider's record of group id `g`: its status
  (`free`, `live` or `gone`), its VPC, its name and its ingress rules.
- Per session, there is:
  - `pc`;
  - `sec`, which is `builder.sec`: a group id, `none`, or `garbled` for a
    multi-line describe output;
  - its VPC;
  - `bmode`, the unsecure flag of the `AWSBuilder`;
  - `imode`, the unsecure flag of the `AWSInstance`;
  - `goodRules`, whether its ingress rules are well formed;
  - `launched`, the group its instance runs in;
  - `created`, the group its `ensure_security_group` created;
  - `err`.

A group's name is `Names`: `builder` for unsecure mode, `workers` for
`SECURE_MODE_SG_NAME`. Its rule is `world` for `0.0.0.0/0` and `master` for
`IP_ADDR/32`. `Init` holds groups left by earlier runs, each with its own rule
and at most one per name and VPC.

Actions, one per handler:

- `Locate` is the `AWSBuilder` constructor's `find_vpc` and `find_subnet`,
  which may raise.
- `FindGroup` is `find_security_group(bmode)`. It queries by name in every VPC
  (line 276). `Listed` gives the rstripped output: no group, one id, or
  several ids joined by newlines.
- `Ensure` is lines 282-299. It returns early when `sec` is set. Otherwise it
  runs `create-security-group`, which fails for a taken name in the VPC.
- `Authorize` is lines 300-310. A malformed rule triggers the rollback
  (delete, clear, raise). Otherwise the ignored `subprocess.call` may or may not
  add the rule.
- `Launch` is `run-instances` with `builder.sec`. It fails unless that id is
  a live group of the session's VPC.
- `Finish` is the instance's termination.
- `Cleanup` is an optional `delete_security_group()`. `DeleteCall` models the
  provider: it removes a live group no instance uses, and any failure is
  ignored.

### `TagParser`

The state is the constructor's argument, whether `os.path.isfile` holds, the
file's lines, the place (`pc`: before the call, in the for loop, done), the
number of lines read, `team_tags` and the result.
- `Call` is `init_tags` up to the loop (lines 368-376). A preset is chosen by
  its lower-cased name. Otherwise the file is opened if it exists, and if it
  does not, the call raises `FileNotFoundError`.
- `ReadLine` is one iteration of the loop (lines 377-383), and `ParseLine` is
  its body. `line.strip()` has no effect, so the tests see the raw line with
  its newline. `AddTag` is the partition (`FirstAt`, `PartKey`, `PartValue`),
  the strip of key and value, and the dict store `SetTag`, where a later key
  wins. A `ValueError` ends the call.
- `EndOfFile` returns the table.

`SpecTags` is the reference of spec section 6, in closed form on the stripped
lines. `SpecBad` says some entry lacks `=`. `SpecTable` gives each key the
value of its last entry.

### `Locator`

`Lines` is `check_output(...).decode().split('\n')` then `split('\t')`: one
two-column line per resource, then the empty line after the last newline.
`FindByName` is the loop of `find_vpc` and `find_subnet`, the first two-column
line whose name matches. `Construct` is the constructor up to
`find_security_group`: find the VPC; if found, find the subnet among
`describe-subnets` filtered to that VPC; `NameError` when either is missing.

The variable `subnets` maps each VPC id to what `describe-subnets` lists for
it, so the query's `VpcId` filter is `InVpc(subnets, vpc)`. A listing is a
sequence of at most `MaxRows` rows (`SeqUpTo`), and `FirstMatch` is the index
of the first row the loop returns on. Both are plain set and function
definitions, not recursive operators, so the module can be reasoned about by
TLAPS.

## Runs

The `AWSInstance` runs use `MC_AWSInstance`. The passing run `guard` has
`VolTries = ListTries = 3`, `Timeout = 30` (three probes), `NBoot = 2`,
`MaxSignals = 4` and failing terminate requests; it reaches 60,785 distinct
states in a few seconds. The violation runs use `VolTries = ListTries = 2`,
`Timeout = 20` and the fewest signals their trace needs.

| Run | Checks | Expect | What it shows |
|---|---|---|---|
| `guard` | `TypeOK`, `ClearedMeansTerminated`, `ScopeExitReleases`, `AbandonedNeverTerminated`, `AbsSpec`, `Termination` | pass | Four signals and failing terminate requests, nested however they fall, never make the object forget a running instance. A normal `__exit__` without keep leaves nothing running. Once `abandon()` has run, no terminate-instances is sent. `AWSInstance` implements `AbstractInstance` under `aCloud <- cloud, aHeld <- instance, aAbandoned <- abandoned`. Under `FairSpec` the script always ends. |
| `noleak` | `NoLeakAtEnd` | violation | A SIGTERM between run-instances and `__enter__` kills the process and leaks the instance. |
| `failclosed` | `FailClosed` | violation | `find_volumes` re-raising leaves an untagged instance running. |
| `enterrace` | `SignalsRestoredAfterRelease` | violation | A SIGINT after `__enter__` saved SIGTERM's handler and before it installed `self.handler` runs `terminate()`, which terminates the instance and restores both handlers; line 480 then installs `self.handler` for SIGTERM on the released instance. |
| `tworeq` | `OneTerminationRequest` | violation | A SIGINT while `__exit__`'s terminate-instances is in flight runs a nested `terminate()` that sends a second request for the same id. |

`SecurityGroup` runs use two sessions and four group ids. With two VPCs and two
names, four ids are enough for a pre-existing group of every kind and fresh
ids besides. `sgsafe` enables every failure flag and lets the two modes
differ, so it covers every branch:

- failing describes, authorizes and deletes;
- malformed rules;
- a create that meets a duplicate;
- two VPCs.

It reaches 188,948 distinct states in about 45 s. Each violation run turns on
only what its trace needs.

| Run | Checks | Expect | What it shows |
|---|---|---|---|
| `sgsafe` | `TypeOK`, `GroupPostureMatchesName` | pass | No live group ever holds the other mode's rule. |
| `sgposture` | `PostureRespected` | violation | With the builder and the instance in different modes, `Ensure` returns the builder's group and a secure worker runs open to the world. |
| `sgshare` | `SessionsShareGroup` | violation | Two sessions find no group and both create it; the second create fails. |
| `sgscope` | `FoundGroupInScope` | violation | A session in the second VPC gets the id of the same-named group in the first. |
| `tagsafe` | `TypeOK`, `SpecErrorImpliesCodeError`, `TagsAgreeOutsideComments` | pass | Over all 145,350 files and arguments (321,881 states), the code rejects every file the reference rejects. Where both accept, the tables agree apart from keys read from indented comments. |
| `tagspec` | `ParserMatchesSpec` | violation | A whitespace-only line raises `ValueError` where the reference skips it. |
| `locator` | `TypeOK`, `LocatedIffNamed` | pass | The constructor succeeds exactly when the first VPC of that name holds a subnet of that name, and keeps their ids. |

The tag alphabet `{a, =, #, space}` holds every character the parser tests,
plus one letter. Two lines of three characters give:

- a key and a value;
- a repeated key;
- an indented comment;
- a blank line;
- a last line without a newline.

For the locator, two rows of each kind give two VPCs of one name, an untagged
resource and a subnet listed under the other VPC.

The violated properties state what `spec.md` promises. The findings in
`PROJECT.json` give the code lines that disagree.

### Why the bounds are enough

Three attempts per retry loop exercise the retry branch, a `KeyboardInterrupt`
caught and retried, and the last-attempt branch: the re-raise, and the "no
volumes" terminate. Three probes exercise failed probes followed by a
successful one, and also exhaustion. Two bootstrap steps exercise the loop.

`MaxSignals = 4` in `guard` allows:

- signals nested inside a signal's `terminate()`, up to five frames deep;
- a signal while a terminate-instances request is in flight, and a nested
  request of its own;
- a signal during `__enter__` between saving and installing, and between two
  signals, followed by more.

The violation runs use the smallest bound that shows the trace.

### Fairness

`guard` checks `Termination` under `FairSpec`, which assumes weak fairness
of `Internal` and of `ExitScope`:

- `Internal` is the process's own code. It runs whenever it is not interrupted.
- `ExitScope` stands for the caller leaving the with-body.

Signals and the provider's volume attachment get no fairness: the code cannot
rely on either. `CHECK_DEADLOCK FALSE` is set because the script really stops:
`pc = "end"` has no successor.

## Proofs

### `AWSInstanceProofs.tla`

The constants need only `ConstantsAssumption`:

- a non-empty tuple of distinct signals;
- an original action for each;
- positive retry and bootstrap counts;
- natural `Timeout` and `MaxSignals`.

| Theorem | What it proves | Invariant it uses | Why the invariant is needed |
|---|---|---|---|
| `TypeCorrect` | `Spec => []TypeOK` | `TypeInv`, which is `TypeOK` plus `Len(stack) <= sigs + 1` | `TypeOK` alone is not inductive: a signal pushes a frame, and the bound on the stack needs every frame but one to come from a delivered signal. |
| `ClearedMeansTerminatedHolds` | `Spec => []ClearedMeansTerminated` | `IInv`, which is `TypeInv` plus `ClearedMeansTerminated` plus `ClearFramesTerminated` | `ClearFramesTerminated` says every frame at `clear` has had its request accepted. `TermClear` is the only step other than `abandon()` that sets `self.instance` to None, and it runs in such a frame; after `abandon()` the property asks nothing. A nested frame cannot reach `clear` without its own accepted request. |

Both proofs follow one pattern. `Init => Inv` and `Inv /\ [Next]_vars => Inv'`
are proved with one step per action, split on the action's disjuncts, and the
conclusion is combined `BY PTL DEF Spec`. Lemmas about the frame stack are
proved once and cited in every case:

- `SetTopLemma`, `PopLemma` and `PushLemma`, on sequences;
- `StackRaise`, `StackSetTop`, `StackReturn`, `CFTSetTop`, `CFTPop` and
  `CFTPush`.

TLC also checked `IInv` as an invariant of the `guard` instance before it was
proved.

### `AWSInstanceRefinement.tla`

`AbstractInstance` has the provider's instance (`aCloud`), the id the object
holds (`aHeld`) and whether `abandon()` handed the instance over
(`aAbandoned`). Its steps are `Launch`, `Terminate` (only a held id),
`Release` (only once terminated) and `Abandon` (which sets `aAbandoned`). So
the id can be dropped while the instance runs only by an `abandon()` that
the mapping records.

`THEOREM Refinement == Spec => AbsSpec`, where `AbsSpec` is `AbstractInstance`'s
`Spec` with `aCloud <- cloud, aHeld <- instance, aAbandoned <- abandoned`. The
proof rests on `RInv`, which is `IInv` plus four conjuncts:

- `UnsetIffNone`: the id is unset exactly while no instance exists;
- `RunFresh`: the launch step finds no instance yet;
- `Launched`: past run-instances, and until the process ends, the instance
  exists. It is needed for `abandon()`, which runs only in the with-body, so
  that its clearing of `self.instance` is never an unset id becoming None;
- `WaitFramesHeld`: a frame at `wait` sent its request for the id that
  `self.instance` still holds, unless the instance is already terminated.
  Only a nested call that saw the termination clears the id, and `abandon()`
  runs with no frame active. TLC checked it on the `guard` instance first.

`NextRefines` shows that each step of `Next` is an abstract `Launch`,
`Terminate`, `Release` or `Abandon`, or leaves `<<cloud, instance, abandoned>>`
unchanged:

- `RunInstances` is `Launch`;
- an accepted `TermWait` is `Terminate` (by `WaitFramesHeld` the id is still
  held when the instance runs), or a stutter on an instance already
  terminated by a nested call;
- `TermClear` is `Release`, because `ClearFramesTerminated` (part of `IInv`)
  puts the instance in `terminated`;
- `Abandon` is the abstract `Abandon`, which lets the id go without a
  termination and records it.

TLC checks the same property in `guard`.

### `SecurityGroupProofs.tla`

| Theorem | What it proves | Invariant it uses |
|---|---|---|
| `SGTypeCorrect` | `Spec => []TypeOK` | `IInv` below |
| `PostureMatchesNameHolds` | `Spec => []GroupPostureMatchesName` | `IInv`, which is `TypeOK` plus `GroupPostureMatchesName` plus `Targets` |

`GroupPostureMatchesName` is not inductive by itself. `Authorize` adds the
session's own mode's rule to `builder.sec`, and that is the right rule only
because the session just created that group under its own mode's name.
`Targets` says so of every session at `auth`:

- its `sec` is a non-free group;
- the group carries the name of `NameFor(imode)`.

Every session at `run` or `cleanup` holds a group id. Lemmas:

- `DeleteCallOK`: the provider's delete keeps types and posture, and keeps
  every group in use non-free under the same name (`GroupStable`);
- `TargetKept`: another session's step then leaves a session's targets alone;
- `ListedType` and `RuleOfName`.

The constants need only `ConstantsAssumption` of `SecurityGroup`. The proof
holds for any number of sessions, VPCs and group ids.

### `AWSInstanceExitProofs.tla`

| Theorem | What it proves |
|---|---|
| `ScopeExitReleasesHolds` | `Spec => []ScopeExitReleases` |
| `AbandonedNeverTerminatedHolds` | `Spec => AbandonedNeverTerminated`, the action property `[][abandoned => termCalls' = termCalls]_vars` |

Both rest on `XInv`, which is `RInv` plus four conjuncts:

- `EndQuiet`: at `end` no `terminate()` frame is active;
- `ExitDoneAtEnd`: `exitDone` is set only as the process ends;
- `ExitFrameDone`: once `__exit__`'s own `terminate()` frame, the bottom one,
  has reached its restore step, with keep off and no `abandon()`, the
  instance is no longer running.
  `ScopeExitReleases` is not inductive alone: `exitDone` is set when that
  frame returns, and only this conjunct says what held just before;
- `AbandonInv`: after `abandon()` no instance is held and the body is left.
  A later `terminate()` then finds `self.instance` None and sends nothing,
  which gives the action property through `NextNoTermAfterAbandon`.

Lemmas on the frame stack (`PushFirst`, `FirstKept`, `Single`, `LenZero`) and
two arithmetic lemmas (`LongStack`, `OneOrMore`) are cited by the cases.

### `LocatorProofs.tla`

| Theorem | What it proves |
|---|---|
| `LocatorTypeCorrect` | `Spec => []TypeOK` |
| `LocatedIffNamedHolds` | `Spec => []LocatedIffNamed` |

Both hold for every set of names and ids and every `MaxRows`, from
`ConstantsAssumption` (which includes that `"null"` is no id). The invariant is
`TypeOK /\ LocatedIffNamed`: the constructor runs once, from `unset`. The
argument is `FindSpec`: on the lines of any listing, `FindByName` returns
`None` exactly when no row has the name, and otherwise the id of the least
such row. It is proved with `WFMin` over the natural numbers, not by
induction. `FirstUnique` says the least matching row is the one the
property's "no earlier row of that name" picks out, and `ConstructStep` splits
on whether the VPC is found.

### `TagParserProofs.tla`

| Theorem | What it proves |
|---|---|
| `TagTypeCorrect` | `Spec => []TypeOK` |
| `SpecErrorImpliesCodeErrorHolds` | `Spec => []SpecErrorImpliesCodeError` |
| `TagsAgreeOutsideCommentsHolds` | `Spec => []TagsAgreeOutsideComments` |

All three hold for every `MaxLines` and `MaxLen`, and so for files and lines
of any length. They follow from `IInvHolds`, `Spec => []IInv`.

`IInv` is the loop invariant, and TLC checked it on the `tagsafe` instance
first. Inside the loop, no line read so far is an entry without `=`
(`~PBad(file, read)`). The table outside the `#`-keys is also the reference's
table of the lines read so far (`Uncommented(tags) = PTab(file, read)`).
`PTab` and `PBad` are the reference restricted to the first `read` lines. The
properties alone are not inductive: they say nothing while the loop runs.

The argument is `LineStep`, which compares one pass of the loop with one more
line of the reference:
- A line the code skips is no entry of the reference (`SkipLine`).
- For a line with `=`, the code's key and value are the reference's
  (`KeyPart`, `ValuePart`), and the line is no bad entry (`EqInside`).
- The key begins with `#` exactly when the stripped line is a comment
  (`HashKey`). `UncommentedSet` then shows that storing such a key leaves the
  reference's part of the table unchanged.

`PTabStep` says what one more line does to the reference's table, using
`GreatestIs`: the last entry of a key is the new line. `StripSub` says that
cutting whitespace off the ends does not change `str.strip()`. `LineStrip`
says a stripped line holds no newline, which gives type correctness. The
least and greatest elements come from `WFMin` over the naturals, and no
induction over data is needed: the loop is a sequence of steps, and the
invariant carries the induction.

Writing these proofs showed that `SpecTags`'s `CASE` had overlapping arms: a
preset name with `isfile` true. TLA+ leaves the value of such a `CASE`
unspecified, while TLC takes the first true arm. The arms are now disjoint,
which matches what TLC evaluated before.

### Only model-checked

These are checked on the small instance only:

- `Termination`. TLAPS does not check liveness under fairness or `ENABLED`.
- The properties of the violation runs (`NoLeakAtEnd`, `FailClosed`,
  `SignalsRestoredAfterRelease`, `OneTerminationRequest`, `PostureRespected`,
  `SessionsShareGroup`, `FoundGroupInScope`, `ParserMatchesSpec`). TLC shows
  each fails, and a failed property has nothing to prove.

## Not modelled, and why

- **`ec2cmd`, the static tables, and the printing and formatting throughout.**
  These are pure data and output. The model keeps only which request is sent
  and whether it succeeds.
- **The constructor's argument checks.** These raise before any instance
  exists. In `AWSInstance`, `Init` is the state after them and after
  `ensure_security_group`. That call is modelled in `SecurityGroup`.
- **Name resolution of `IP_ADDR`.** The secure rule is kept only as the rule
  of its mode. Its hazard, a loopback address, is listed without a property.
