# The Temporal platform workshop, in TLA+

A student of this workshop writes `specs/<name>.yaml`, and a small platform built on Temporal
keeps the namespaces the spec asks for: a workflow per spec reconciles, Terraform provisions,
a key is minted into Vault, a worker reads it.  A web portal lets students join, shows them the
labs and checks from outside what they have built.  This directory models platform and portal,
checks the models with TLC and proves part of what they say with TLAPS.  File names are relative
to the repository.

## 1. The system

| Part | State it keeps | Operations | What it talks to |
|---|---|---|---|
| Reconciler, `internal/platform/workflow/reconciler.go`, `wait.go` | `desired`, the `applied` map of statuses, `status.Destroying`, two signal channels | apply and destroy signals, reconcile, prune, drift tick, continue-as-new, status query | starts environment children; schedules drift checks |
| Environment children, `environment.go` | one execution per id `ns-<spec>-<env>` and `...-destroy` | Terraform apply then mint; Terraform destroy | schedules activities |
| Imperative driver, `provision.go` | futures of the children it started | start the same children, collect, end | competes with the reconciler for child ids |
| tpctl and the hook, `cmd/tpctl`, `hooks/post-commit` | `specs/*.yaml` | sync, apply, destroy, status, new, deploy, worker | signals and starts workflows |
| Terraform activity, `activity/terraform.go`, `tfactivity`, `heartbeat`, `tfworkspace`, `tfexec` | the state file, a terraform process per attempt | import, apply, output, destroy | the Cloud account |
| Key mint, `activity/key.go`, `cloudops`, `vaultkv` | API keys in the Cloud, the Vault path | create, write, revoke | Cloud Ops API, Vault |
| Drift check and quota, `activity/inspect.go` | none | DetectDrift, CheckQuota | Cloud Ops API |
| Specs, `internal/spec` | none | parse, validate, fingerprint, load a directory | files |
| Platform worker, `cmd/platform-worker`, `activity/config.go` | a Vault token, the platform's own key | start, register | Vault, Temporal |
| Managed worker, `worker/platform_sdk`, `internal/workerconfig` | its configuration and key, read at boot | validate, boot, generate configuration | Vault, Temporal |
| Portal: join, `portal/src/app/join`, `lib/link.ts`, `lib/auth.ts`, `config.ts` | a configuration per process; accounts in Authentik and the Cloud | join, come back, open a lab, poll | Authentik, the Cloud |
| Portal: grading, `portal/src/course`, `platform/reconciler.ts`, `app/api` | none; the panel in the browser keeps the last answer | grade a lab, instructor view | the Cloud, the reconciler's query, the student's namespace |
| Portal: pages, `portal/src/app/lab`, `lib/highlight.ts`, `portal/scripts` | a highlighter and a cache per process | check and emit snippets, render a lab page | the build |
| Scripts and sandbox, `scripts`, `instruqt`, `deploy` | none | set up a machine, tear an account down | everything |

What makes each part correct, and what is hard about it:

* **Reconciler.**  Intent (signals) and reality (the timer) reach one sequential loop, which
  blocks for minutes in children.  Signals are superseded before they are read, children fail
  one by one, statuses must stay true, and the run is replaced by continue-as-new.  It must
  never have two Terraforms on one state file, never destroy what is wanted, keep a status
  for whatever Terraform manages, and converge.
* **Environment children.**  A workflow id with at most one open execution is the only lock.
  It must keep two drivers apart without leaving either waiting.
* **Terraform activity.**  An attempt the server has given up (missed heartbeats, start-to-close)
  may still be running beside its retry, and a process may hang while its worker goes on beating.
  Writers of the state file must not overlap, a retry must not create twice, nothing may run for ever.
* **Key mint.**  Three steps over two services, each of which can fail, die or lose its reply;
  attempts overlap because this activity does not heartbeat.  No key may leak unnoticed, and
  the key in Vault must authenticate.
* **tpctl and the hook.**  Files, signals and processes are three things that can disagree.
* **Join** is six calls to two services without a transaction: each may fail after the ones before
  it took effect, another tab may be between any two of them, and the process may restart with
  another configuration.  What is shown must work, and whoever has an account must get back in.
* **Grading** reads an inventory, then a query, then a list of executions, and two polls may cross.
  A check must be green only for what the student's own platform did, and must become green.
* **Pages** are rendered from definitions an author edits, in one process for everybody, and a
  release runs none of the checks of `make verify`.  A definition that passes them must not
  throw or show code that was never compiled; no page may lose a snippet or show somebody else's code.

`PROJECT.json` lists the parts under `components`, and the places where this code can go wrong
in ways a test would hardly reach under `hazards`.

## 2. The modules

    NamespaceEntity      what the reconciler promises (abstract)
    Environments         the environments of one spec and their children
      Reconciler         NamespaceWorkflow            implements NamespaceEntity
        ControlPlane     + ProvisionWorkflow, tpctl, the specs directory, the hook
    TerraformActivity    what one TerraformApply activity promises (abstract)
      TerraformRun       the activity, attempt by attempt   implements TerraformActivity
    KeyMint              the mints of one environment, attempt by attempt
    Access               the portal's gates, secrets and machines
      Join               the join, its calls and the browser tab
    Labs                 the four labs: steps, snippets, checkpoints
      Grading            names and grade() (pure)
        Course           a student, their platform and the exit check
      LabPage            author, release and rendering of a lab
    MC*                  instances for TLC
    *Proofs              theorems (CourseProofs extends GradingProofs)

**Environments** has, per environment, the namespace in the Cloud (`cloud`), the namespace in
the Terraform state file (`state`), whether Vault holds a live key (`cred`), the execution of
`ns-<spec>-<env>` (`job`, with its input `want` and its parent `owner`), the destroy execution
(`erase`) and what each parent's future says (`future`).  `StartChildren` is the loop of
`reconcileEnvironments`: where the id is taken, the start fails at once ("already started"),
which the parent records as a failed environment.  Each activity attempt is one step that
succeeds or fails; a failed one may or may not have written the Cloud and the state file.  How
many attempts there are is abstracted (a failed attempt is either retried or the last), as
TerraformRun and KeyMint look into attempts.  Somebody may edit retention or delete a
namespace in the Cloud UI.

**Reconciler** is `NamespaceWorkflow`.  `pc` says where the open run is blocked:

| `pc` | code |
|---|---|
| `quota`, `collect` | `reconcile()`: `StartEnvironments`, `Collect` |
| `prune` | `pruneRemovedEnvironments`, `destroyAll`: `StartDestroy`, `FinishDestroy`, `PruneDone` |
| `loop` | top of the `for`: `WaitForNext` or `ContinueAsNew` |
| `wait` | `waitForNext`: `HandleApply`, `HandleDestroy`, `Tick` |
| `drift` | `detectDrift`: `CheckDrift`, `DriftCheckFails`, `FinishDriftCheck` |

A spec is its set of environments and its retention; equal specs have equal fingerprints.
Environments are numbered in the order of their names, since the code sorts them.
`Sync` is SignalWithStart, `RequestDestroy` a signal to an open run.  When a run ends, its
unread signals and its `applied` map go with it (`ForgetAll`).  `intent` (the last spec anybody
delivered) and `forgotten` (environments a run still had a status for when it ended) are history
variables.

**ControlPlane** adds `ProvisionWorkflow` as a second driver, the spec file, commits with and
without a working hook, and `tpctl destroy` as two steps (signal, then file).

**TerraformRun** is one activity: the server (`outcome`, `attempt`), and per attempt where its
process is (`phase`), whether its worker reaches the server (`beat`), whether terraform makes no
progress (`hung`; the heartbeat is a ticker of the worker and tells nothing of it), whether it has
been told to stop (`stopping`), and the state as its terraform has it in memory (`mem`).  The Cloud is
the namespace (`ns`) and the worker's service accounts (`ids`); `rec` is the state file and
`lock` its lock.  The activity starts with whatever an earlier one left: each of namespace, service
account (`Earlier`) and state file may be there, lost or out of date.  `overlap` is a history
variable: an attempt was started while the process of another was there.  `Locking` says whether the backend
locks: the local one does, S3 without a lock table does not.  The resources are those of the Terraform module the course hands out
(`portal/src/course/snippets/namespaceMainTf.ts`; `terraform/namespace/main.tf` is the stub
students start from).  **TerraformActivity** is what Environments takes such an activity for:
the namespace, the state file, the worker's identity and the result, without attempts.  An attempt
may write in the Cloud and in the file until there is a result, and after a failure (a process
that was given up is still there), but nothing is written once the activity has succeeded.

**KeyMint** is `MintNamespaceKey` over several reconciles.  A key has the name of the attempt
that makes it.  `stored` and `orphans` are history variables.  `AbandonSlow` is the heartbeat timeout
of an attempt that is alive: the activity shares its options with `TerraformApply` and never
heartbeats.

**Access** has the configuration Fly holds (`secrets`) and the one each machine was started with
(`running`): `config()` caches it for the life of the process.  `verifyCode`,
`verifyParticipant` and the pages' gates are operators on a configuration.  A token is the pair of
secret and username, as a digest of one pair is never that of another.

**Join** is the server action `join()`.  `at[t]` is the call tab `t` is waiting for (`find`, `count`,
`create`, `password`, `identity`, `group`, `cloud`, `attributes`) or what it shows; `seen[t]` is what
the request knows of the account from its first read, as `existing` is never read again.  Each
call is one step that takes effect and answers, takes effect and loses its answer, or fails; a
restart ends the requests of its machine.  `users[n]` is what `findUser(n)` finds, so `Legacy` lets
a name have an account somebody made by hand, under either convention.

**Labs** has the labs' steps, snippets and checkpoints as data, in the order of the code.  **Grading**
has the four `grade()`s and the parsing of physical names, on names as sequences of parts.

**Course** has a student who does what the steps say (`todo` is what is left of the lab's
commands) but may forget one, and may open any lab's page at any time (`Visit`): every page links to
every lab, whatever is done and whatever is green.  `MoveOn` and `StartOver` are what a student does
who reads the exit check, going on when it is green and over the labs again when stuck; no safety
property rests on them.  Then the sandbox, the account, `ProvisionWorkflow` and the reconciler
as far as the labs show them: the Cloud is at work for a while on what it was told (`Settle`), and
the loop continues as new with nothing counted (`LoopContinue`), so that a check that was green
may go back.  `seen` is what the loop did in all its runs and is a history variable.  The account
also has the namespaces of any number of other students (`Neighbours`), and two whose names
have no username (`Strays`).  Polls read, grade and answer in separate steps, and several may be under way.

**LabPage** has an author's draft, what `make verify` asks of one (`Verify`: `SnippetsCheck`, `Emit`, a
build), a release, and the rendering of pages block by block: a cache hit, or a wait for the
process's one highlighter, which may fail to load.  `Release` takes any draft: the portal's
`Dockerfile` runs `pnpm build` and nothing else.  `Verify` is a condition of the properties that
depend on it, not a guard.

Definitions whose comment begins with "Mutant of" are not part of any specification: each is a plausible
bug in the definition it names, and `PROJECT.json` pairs it with the property that catches it.

### What the models leave out

* The status counters (`Generation`, `Reconciles`, `DriftsDetected`) and the ids carried in
  results: no guard reads them.
* `checkQuota`: its caller logs the error and goes on (`provision.go:135-137`).
* Username, cohort, state backend, drift interval and search attributes of a spec.
* Overlapping attempts in Environments; there an attempt is over before the next begins.
  TerraformRun and KeyMint have the overlap, and show what it can do.
* `terraform` writes its state file whole at the end, or not at all: the writes it makes per
  resource are over-approximated by `Fails`, `Unwind` and `Killed`, which keep all or nothing.
* In the modules of the platform all handlers are taken as registered and the Terraform module as
  present.  In the repository both are exercises (`platform/register.go`,
  `terraform/namespace/main.tf`); Course is about students doing them.
* In Join: passwords and addresses are whether they are set and right, the group exists, and
  `WORKSHOP_DOMAIN` is fixed.  `HandMade` assumes that a hand-made account which claims a Cloud
  user has its address: the portal writes the claim only after it has set the address.
* In Course: one environment (staging) and the default spec, as the labs prescribe; the counters
  of the status query stop at one, since the checks ask for "at least one"; prose.  A signal the loop
  has not read when it continues as new goes with the run.
* In Grading: the branches of `mine` and `readCohort` for namespace tags (`grading.ts:44`, `:51`), which
  nothing writes any more; what is left is the names.
* In LabPage: one lab of one step, and a snippet's text is whether it compiles and whom it is for.
  What `make verify` compiles is the text written for the example student (`emit-snippets.ts`); a page
  shows the same text with the names of the student who reads it.  That the two compile alike is not
  claimed: `PasteCompiles` is about the text before the names are put in.

## 3. What is checked

All runs have `CHECK_DEADLOCK FALSE`: signals, commits, applies, mints and attempts are bounded,
and an activity or a workflow that has ended has nothing left to do.

| Run | Distinct states | Checks |
|---|---|---|
| MCReconciler_reconciles | 322 752 | `SingleWriter`, `DestroysOnlyUnwanted`, `StatusHonest`, `Bookkeeping`, `IntentKept`, `DropsOnlyDestroyed`, `Implements`, `Converges`, `DestroyHonoured` |
| MCControlPlane_plane | 347 012 | `OneOwner`, `Converges`, `WritesAreAsked`, `ApplyReturns` |
| MCTerraformRun_local | 908 234 | `OneWriter`, `ResultHolds`, `NoWastedAttempt`, `RetriesPrevail`, `EverythingStops`, `Implements` |
| MCKeyMint_mints | 177 840 | `Accounted`, `VaultLive`, `MintReturns` |
| MCJoin_joins | 3 935 401 | `ShownWorks`, `CloudUserHonest`, `Overshoot`, `RetiredLinksDie`, `CohortKept` |
| MCJoin_back | 77 501 | `BackIn` |
| MCCourse_labs | 217 888 | `OwnGreen`, `Earned`, `RowsAreStudents`, `PutBack`, `Graduates` |
| MCLabPage_pages | 400 904 | `ReleasedRenders`, `NothingLost`, `OwnCode`, `OneHighlighter`, `PasteCompiles`, `LabsAsWritten`, `Answered` |

The type invariants are not among the runs' properties: they are proved (section 4).

* **SingleWriter, DestroysOnlyUnwanted**: with the reconciler alone, an apply child and a destroy
  child of one environment are never open together, and what the spec in force lists is never
  destroyed.  Nothing but the order of the steps of the loop sees to it.
* **StatusHonest**: outside a reconcile, an environment the status calls OK was last written
  with the current spec and has its key.
* **Bookkeeping, DropsOnlyDestroyed**: whatever Terraform manages has a status, so that the
  prune can find it, and loses it only when the state file is empty.
* **IntentKept**: no signal is missed before a run continues as new.
* **Implements**: Reconciler implements NamespaceEntity (`active` is "there is a run", `spec` is
  `desired`): every write to the Cloud is for the spec in force.
* **Converges, DestroyHonoured, ApplyReturns**: the Cloud ends up as the loop's spec asks; a
  destroy request ends the run; `tpctl apply` gets an answer.
* **OneOwner, WritesAreAsked**: an open child is awaited by the driver that started it and nobody
  else; and, however the two drivers interleave, every write to the Cloud is for the spec in force or
  for the order of the `tpctl apply` under way, never for one that has already reported.
* **OneWriter, ResultHolds, NoWastedAttempt, RetriesPrevail, EverythingStops**: see
  TerraformRun.  With a lock, overlapping attempts never write together, and what the activity returned
  stays true while zombies die away.  As long as no two processes overlapped, an attempt runs into a
  namespace it did not know of only if an import failed -- a terraform killed between the
  namespace and the state file leaves one to adopt -- and every retry has cost a failure or a cut; without
  cuts none overlap.  The import before the apply is what makes this so.  EverythingStops covers a
  process that hangs: it takes the deadline, the SIGINT and the kill after it.  **Implements**
  there: TerraformRun implements TerraformActivity (`cloud` is `ns`, `state` is `rec.ns`, `identity` is `rec.id`).
* **Accounted, VaultLive, MintReturns**: see KeyMint.  A live key that is neither stored nor in
  hand comes from a death, a lost reply or a failed revocation, never from a failed write.  A key
  in Vault is dead only after a lost reply, and, once the activity has succeeded, only if an
  attempt that had been given up was still at work besides: this is what `cred` in Environments
  takes a successful mint for.
* **ShownWorks, CloudUserHonest, BackIn**: a password that is shown opens a whole account; an account
  that claims its Cloud user, so that the next join skips the call, has one; and whoever has an
  account, half made or whole, gets to the graded page by typing the name again.
* **Overshoot**: the cap is counted before the account is made, so a cohort may exceed it, by less
  than one account for every tab that is joining.
* **RetiredLinksDie, CohortKept**: a gate is passed only with the code of a machine that runs
  then; no join moves an account to another cohort.
* **OwnGreen, Earned**: the panel is of the lab that is open and a green check is true, however old the
  answer is and whichever of two polls came last; the last lab is green only for a student who
  has all it stands on, whichever pages and commands were passed over.
* **PutBack, Graduates**: a drift that turned the check green is mended, whatever the student does next;
  a student who forgets a command, or looks at the last lab too early, still finishes.
* **RowsAreStudents**: the instructor's rows are students, hyphens in their names or not, and a
  name with nothing where the username should be makes none.
* **ReleasedRenders, PasteCompiles**: what `make verify` promises of a definition that passes
  it, once that is deployed; **NothingLost, OwnCode, OneHighlighter, Answered**: what the page promises for
  any lab an author could write; **LabsAsWritten**: the four there are pass the check.

### Bounds, and why they are enough

Two environments (a spec has no others: prod and staging), so one can fail, be pruned or be open
elsewhere while the other is not; two retention values, so a spec can be superseded by one that differs
only there.  Two signals give sync-sync and sync-destroy, with one superseding the other while it
is buffered; the theorems hold for any number.  Two failures allow one that is retried and one that is the last.  One edit by hand
suffices, since the drift check has no memory.  One continue-as-new splits the signals over
two runs.  Three attempts give an abandoned attempt, its retry, and a retry of
that; two cuts let two attempts be zombies together with a live third.  Two mints let an
abandoned attempt of one reconcile meet the next.

MCControlPlane_plane has no failing activities and no edits: its question is how two drivers
and a person interleave, with two commits, so that the drivers can disagree about
the retention and about which environments there are.  Failures are in MCReconciler_reconciles, and `EachChildOneOwner` is proved for any number of them.

MCJoin_joins has two tabs and two names, so that two requests race for one name and for the last
seat (the cohort's size is one), and two machines, so that one is old while the other is new;
one rotation changes code, secret, cohort or validity, one failure leaves each half-made
account.  The hand-made account is of the worst kind: a bare handle, another mail, no group.
MCJoin_back follows one student through two rotations.  MCCourse_labs has one poll under
way, another student whose username has a hyphen, one continue-as-new at any time, and one slip: the
student forgets to register the reconciler's workflow (`Skippable`), which shows only later, or opens the
last lab's page from any of the others (`Detours`), the furthest ahead there is.  With one poll the panel
and the answer under way can both be old, but two answers cannot cross.  Crossing polls, any forgotten
command, any page out of order and any number of students are covered by `GreenIsOwn`,
`LastCheckEarned` and `InstructorSeesStudents`.  MCLabPage_pages has two edits (one that breaks a lab and one
that hides it from the check), three snippets, so that two may share a key beside a third, and two
requests by two students, who share the cache.  Snippets without a name are covered by the theorems.

### Fairness, and why it is justified

A workflow task that can run does run, a scheduled activity is attempted until an attempt succeeds
or the last one fails, and timers fire: Temporal persists all three, so a worker's
death only delays them.  Hence weak fairness of the loop's steps and of the successful attempt of
every child.  In TerraformRun a process that does not hang goes on (`Progress`), the server's timers
fire (the heartbeat's, and start-to-close for a process that hangs), and so do the worker's: the
deadline of an attempt's context and, 20 seconds after its SIGINT, the kill (`exec.go:38`).  Nothing
says that a hung process comes back, that terraform unwinds by itself, that a cut heals or that
a cancellation is noticed.  In KeyMint a living attempt
goes on and a dead one is noticed.  Failures, edits, signals, cuts, commits and continue-as-new
owe nothing.

In Join, requests run and restarted machines come back; the rest is the student: as long as they
are not where they want to be, they submit the form, open the link they got, and open the join page
with the code on the wall.  These are strongly fair, since a code may be retired and a form
closed again any number of times in between; `BackIn` asks nothing when the configuration is
broken or has no Cloud key.  In Course, the platform and the Cloud go on, the loop takes a waiting signal
or its timer now and then (that it continues as new is not required), and of the polls some reach
the control plane and are shown before anything changes: they come every 15 seconds for as long as the page is open.  The student does the next
command, moves on when the panel is green and starts over when it stays otherwise.  In LabPage a
promise settles and a page goes on being rendered.

### What the repository says and the code does not do

Four runs end in a counterexample; `findings` in `PROJECT.json` quotes the claims.

| Run | What happens |
|---|---|
| MCReconciler_mint | A child that fails in the mint leaves a namespace without drift: the loop never applies it again, and its worker never gets a key. |
| MCReconciler_teardown | A destroy child fails with its namespace in the Cloud and in the state file, the reconciler returns nil all the same, and `tpctl destroy` says done with the namespace left. |
| MCControlPlane_writers | The apply child of `tpctl apply` and the reconciler's destroy child of one environment are open together, whichever started first: the destroy's id has a suffix, so the ids do not exclude each other. |
| MCCourse_neighbour | The username `tao` is a prefix of the names of `tao-x`'s namespaces: tao's check is green for tao-x's work. |

The models also have behaviours that need no run to see.  Of the platform:

* A sync that arrives while the loop reconciles is lost if the run then continues as new
  (`ContinueAsNew` passes on `desired` only); nothing re-reads the directory on a timer, though
  `spec.go:256-258` says so.
* Without a state lock (S3) a retry reads the state file while the attempt it replaces has still to
  write it (`Locking = FALSE` in TerraformRun), though `backend.go:7-12` says no lock is needed.
* A lost state write orphans the service account, and the retry makes another: the import
  names the namespace only (`Import`; `workspace.go:42-47` and `DESIGN.md:489-491` say re-adopts).
* Vault stores the key, its reply is lost, and the activity revokes the key that is now in Vault
  (`WriteReplyLost`, then `RevokeKey`; `key.go:80-81` says it could not be stored).
* A destroy child that fails is not tried again until something else makes the loop reconcile
  (`FinishDestroy`); a namespace whose state write was lost survives its destroy, since
  `Workspace.Destroy` imports nothing (`TerraformDestroy`); a sync that reaches a run during its
  teardown is thrown away with it (`PruneDone`); a commit whose sync failed (`CommitUnheard`) or
  that deletes a spec (`CommitRemoval`) is never noticed by the loop, although
  `hooks/post-commit:28-29` says the drift timer will notice.

Of the join:

* The cap races (`countCohort` before `createUser`), and accounts made by hand join a cohort without
  being counted against it first.
* Of two tabs that race for one new name, one is told of an error, or that the workshop is full;
  of two tabs that join under one existing name, the one that was shown its password first
  has a dead one.
* A hand-made account that claims a Cloud user under another address never gets its own
  (`ensureCloudUser` believes the claim; `HandMade` excludes it), and one of an older
  `WORKSHOP_DOMAIN` is never found, although `authentik.ts:160-165` counts it as repaired.
* A retired link dies machine by machine, as they restart, not "at once"
  (`portal/README.md:109`).

Of the labs and the exit check:

* The drift check is green before the drift is mended, while its text says "healthy again": the
  counter goes up first (`LoopTick`), and the status is that of the reconcile before.
* A retention edited while the loop is reconciling is put back by that reconcile and never
  counted: the check stays red until it is edited again.
* The checks of challenge 3 read counters that start again when the loop continues as new
  (`reconciler.go:42`, `:76`): a green drift check goes back to red with nothing wrong (`LoopContinue`).
* A check of challenge 4 asks that the namespace's state has "activ" in it, which "updating" has not:
  it goes red while the platform changes the namespace.
* A forgotten command shows up labs later, as a workflow that waits for a type nobody
  registered (`Registered`).
* The checks of challenge 4 are graded by no step's badge; when they are blocked the text says
  "finish challenge 1".  `page.tsx:210` says "all five", and `dev-link.mjs` prints a lab 5:
  there are four.

Of the pages:

* `check-snippets.ts:14` and `Makefile:120` count on a CI that runs the checks.  The repository has none,
  and the release it documents (`fly deploy`, `portal/README.md:200-205`) runs `pnpm build` only
  (`portal/Dockerfile:20`): rename a file that a step claims, release, and the page throws for
  whoever opens it (`DeployedRenders` is what the comment says; it is false after `Edit`,
  `Release`, `Open`, which is why `ReleasedRenders` and `PasteCompiles` ask for a definition that passes).
* Two snippets of one key: the page shows the later one only, or one of them under both names,
  and `snippets:check` does not refuse them, although `page.tsx:68-70` says that no snippet
  can end up invisible.  Of two files of one path the first is never compiled.
* A hidden snippet that a step claims is shown, although `types.ts:120` says it is not.
* A rejected `createHighlighter` promise is kept: every page that misses the cache fails until the
  process restarts.
* A `make verify` that fails leaves the solved tree behind (`Makefile:175-186`).

## 4. What is proved

For all values of the constants under the modules' `ASSUME`s:

| Module | Theorems |
|---|---|
| ReconcilerProofs | `TypeCorrect`, `OneWriter` (SingleWriter), `DestroysTheUnwanted`, `HonestStatus`, `KeepsTheBooks`, `DropsDestroyed`, `KeepsIntent`, `Refinement` (Implements) |
| ControlPlaneProofs | `PlaneTypeCorrect`, `EachChildOneOwner` (OneOwner), `PlaneKeepsIntent` (IntentKept), `PlaneDestroysTheUnwanted` (DestroysOnlyUnwanted), `PlaneWritesAreAsked`, `NoVainWait` |
| TerraformRunProofs | `TypeCorrect`, `ImportAdopts` (NoWastedAttempt), `NoWedge`; assuming `Locking`: `LockSerialises` (OneWriter), `ResultIsReal` (ResultHolds), `Refinement` (Implements) |
| KeyMintProofs | `TypeCorrect`, `NothingElseLeaks` (Accounted), `VaultStaysLive` (VaultLive), `NoVainWait` |
| JoinProofs | `TypeCorrect`, `ResultWorks` (ShownWorks), `CloudUserThere`, `OvershootBounded`, `RetiredLinksAreDead`, `CohortsAreKept` |
| GradingProofs | `TakenFor`, `OwnNamesParse`, `SplitFindsStudent`, `NamesDiffer`, `CohortIsStudents`, of the naming functions |
| CourseProofs | `CourseTypeCorrect`, `LastCheckEarned` (Earned), `InstructorSeesStudents` (RowsAreStudents); assuming `Apart`: `GreenIsOwn` (OwnGreen) |
| LabPageProofs | `TypeCorrect`, `ReleasedPagesRender`, `NoSnippetIsLost`, `EveryStudentsOwn` (OwnCode), `OneInstancePerProcess`, `PastesCompile`, `NoPageHangs`, `LabsPassTheCheck` (LabsAsWritten) |

The arguments:

* **Reconciler.**  None of the safety invariants is inductive alone.  The strengthening ties `pc` to
  the children: an apply child is open only in `collect`, for an environment of `desired`, with
  the retention of `desired`, and its future is pending; a destroy child is open only in
  `prune`, for an environment in `stale`; and `stale` is disjoint from what is wanted unless the
  run is retiring.  SingleWriter follows from the two `pc`s being different, the refinement from
  every child working for `desired`.  StatusHonest needs in addition that a future which says
  "ok" belongs to an environment that is written and has its key.  IntentKept needs the last
  element of the signal buffer to be the last spec delivered.
* **ControlPlane.**  OneOwner is inductive with the types: a start that finds the id taken fails
  at once, and a child resolves the future of the driver that started it.  The rest of what is
  proved of the composition rests on one lemma: seen from the reconciler's variables, a step of
  the plane is a step of Reconciler, a start by the other driver, or nothing (`ReconcilersView`).
  So whatever of Reconciler's invariant that start does not disturb holds in the plane too.  Its
  teardown does (`TeardownInv`: a destroy child is open only in `prune`, for an environment in
  `stale`).  New is who a child works for: an open child wants what its owner's order wants, the
  spec in force or the order of `tpctl apply` (`DemandInv`), and its owner is still collecting.
  SingleWriter is what the start breaks, as MCControlPlane_writers shows.  `NoVainWait` says that a
  driver which still waits for an environment has an open child of its own there.
* **TerraformRun.**  Whoever holds the state (has read it and will write it) holds the lock.  The
  memory of the holder may be written at any time, by a process that ends or is killed, so
  `Memory` says place by place that it may be: it names the identity of the file, if the
  file has one, and takes the namespace from the Cloud, unless the file has never heard of it.  Two
  attempts with such memories would undo each other; with the lock there is one.  After
  the first attempt that has written its state, any other writes the same again (`OutputInv`), which
  gives ResultHolds and the refinement.  NoWastedAttempt needs no lock: while no two processes have overlapped there is one, and each
  retry has cost a failure or a cut.  After its import the state file knows of the namespace in
  the Cloud, if there is one, unless an import failed; this holds from whatever state file the activity
  starts with, and of a terraform that was killed, whose namespace the next import adopts.  `NoWedge`
  needs none either: the server waits only for an attempt with a process or with a missing heartbeat, and
  the state lock is always held by a process between reading and writing, so that it is never left behind.
* **KeyMint.**  Attempts begin in order (`Fresh`), so no step restarts one.  A key in the hands of
  an attempt is live (`HeldLive`), and the key in Vault was put there by an attempt that is over
  (`Settled`), so nobody is left to revoke it.  A lost reply is exactly what breaks `Settled`.  After
  a success it takes more: as long as no attempt was given up alive, at most one is at work, the
  one the server waits for (`Solo`), so after a success none is, and the key that was delivered
  stays (`Delivered`).

* **Join.**  The invariant says, for every place of a request, which of the calls before it are done
  on the account (a request in `group` has an account with a password and the right
  address, and so on), and that nothing a call sets is ever unset by another request.  `seen`
  is old, but what it says the account has, the account has: this is what makes skipping
  a call safe.  Overshoot counts the portal's accounts of a cohort together with the requests that
  are about to make one; a request enters `create` only below the cap, so the sum stays
  below the cap plus the number of tabs.
* **Names.**  `TakenFor` says exactly whose environments `parsePhysicalName` takes for the student's
  own: those of anybody whose username and spec together begin with the student's username.
  `SplitFindsStudent` and `NamesDiffer` are about specs without a hyphen, like the labs'.
* **Course.**  What the checks look at does change: the loop's counters start again, and the state of a
  namespace goes to and fro.  What they are true *of* is never taken back (`Grows`): a namespace that was
  made is there, what the loop did was done (`seen`), a workflow that completed has completed.  What the
  loop says of itself is no more than that (`Told`).  So what a poll has read is still so when it is
  graded, and a result that was true when it was computed is true when it is shown, later or after
  a newer one.  `Apart` says that no other student's names begin with the student's username;
  MCCourse_neighbour shows that without it `OwnGreen` is false.  `LastCheckEarned` does not need it,
  since one of the last lab's two checks asks the student's own namespace, whatever the name was parsed as
  (`Sure` are the checks no name is read for); that what this workflow stands on is there too is an
  invariant of the platform (`Built`): a deployed worker had its credential, which an apply left, which
  had a control namespace and a platform worker.  The instructor's rows need no condition.
* **LabPage.**  Nothing is assumed of what is deployed.  A page ends in an error only if the highlighter
  failed or a claim of the deployed definition does not resolve (`Errors`), and `Verify` implies that all
  do (`Resolves`); a cache entry's text is its key; the blocks of a page
  that wait, are awaited and are shown are together `LabPage(deployed)`; the promise of a
  highlighter is made once, and before anything awaits it.  `LabsPassTheCheck` is about the four labs
  themselves: their steps and snippets are short sequences, so what the check asks of every
  element is proved element by element, and the same lemma as for any definition (`PageInPlace`)
  then says where the page shows them.

The assumptions on the constants are what the code or the models' encoding gives: usernames are not
empty, counts are naturals, `None` (and, in LabPage, `Sample`) is none of the values it stands
beside.  One assumption is a computation rather than a choice: `Commands` in Course says that the
commands of each lab, the concatenation of its steps' commands, are a sequence of
strings.  The concatenation (`FlattenSeq`) is recursive, which the prover cannot unfold; TLC
evaluates the assumption, and it has no parameter, so one run settles it.

Only model-checked: the liveness properties (`Converges`, `DestroyHonoured`, `ApplyReturns`,
`RetriesPrevail`, `EverythingStops`, `MintReturns`, `BackIn`, `PutBack`, `Graduates`, `Answered`; the
prover has neither fairness nor ENABLED in reach), and the counterexamples.  Every invariant and every
action property of a passing run is proved.  Of five liveness properties the safety half is proved
too, that nobody waits for something that is not there: of `ApplyReturns` (`NobodyWaitsInVain`),
`EverythingStops` (`NothingWedges`), `MintReturns` (`WaitsForAnAttempt`) and `Answered`
(`PromiseAwaited`), and of `RetriesPrevail` that an activity which gives up has spent its attempts on
failures (`NoWastedAttempt`).  What is left to TLC is that whatever is being waited for takes its
steps, which is what fairness says.

## 5. Not modelled

* **Worker credentials**: the 24-hour keys and Vault tokens are wall-clock lifetimes that no timer
  or retry of the code reacts to; there is no behaviour beyond "it stops working".
* **Specs**: `Validate`, `Fingerprint` and the file syntax check input and keep no state.  **Several
  specs in one sync**: each has a loop of its own and shares nothing with the others but the
  command, which stops at the first error.
* **Quota**: `checkQuota`'s result is only logged.
* **Platform worker, managed worker, deployment**: start-up sequences of one thread that read
  their configuration once; what a student sees of them is in Course.
* **Terraform destroy**, attempt by attempt: the same process code as apply, one step in
  Environments.
* **Scripts, sandbox, `workshop-teardown`**: commands in sequence, run by hand, that keep nothing
  and check for each thing before they make it.
* **Prose, diagrams, excerpts, the overview and instructor pages**: text and layout.
  `resolveSpecName` reads namespace tags that nothing writes any more.
* **Terraform stubs and provider**: declarations.
