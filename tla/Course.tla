------------------------------- MODULE Course -------------------------------
(***************************************************************************)
(* A student who follows the labs, the platform they switch on piece by    *)
(* piece, and the exit check that watches from outside.  Every command of  *)
(* the labs is an action with its effect on the sandbox or the Cloud; a    *)
(* command typed too early fails and changes nothing.  Any lab's page can  *)
(* be opened at any time.  The panel on the page polls; a poll reads the   *)
(* inventory, then the reconciler and the workflow, then answers, and two  *)
(* polls may be under way at once.                                         *)
(*                                                                         *)
(* The reconciler's own rules are in module Reconciler; here it is the     *)
(* loop of one environment, as far as its status query shows it.           *)
(***************************************************************************)
EXTENDS Grading

CONSTANTS
    Me,         \* the student's username, a sequence of parts
    Neighbours, \* the other students'
    Poll,       \* the polls that may be under way at once
    MaxSlips,   \* bound: how many commands the student forgets, and pages they open out of order
    Skippable,  \* bound: the commands the student may forget
    Detours,    \* bound: the labs whose pages the student opens out of order
    MaxContinue \* bound: how often the loop continues as new

ASSUME Others == Me \notin Neighbours
ASSUME Usernames == {Me} \cup Neighbours \subseteq Seq(STRING) \ {<<>>, <<"">>}
ASSUME SomeLabs == Detours \subseteq DOMAIN LABS
ASSUME BoundsNat == MaxSlips \in Nat /\ MaxContinue \in Nat

VARIABLES
    at,         \* the lab the student is on
    todo,       \* its commands still to come
    slips,      \* how many commands were forgotten or passed over so far
    sandbox,    \* what is on the student's machine and cluster
    cloud,      \* the namespaces of the account
    provision,  \* the spec of the ProvisionWorkflow under way, or None
    loop,       \* the reconciler, or None
    seen,       \* history: what the loop has done so far, in all its runs
    continued,  \* how often it has continued as new
    greeting,   \* the last lab's workflow: "no", "started" or "completed"
    polls,      \* polls[q]: what poll q has read so far, or None
    panel       \* the panel's results, or None

loopVars == <<loop, seen, continued>>
systemVars == <<sandbox, cloud, provision, loopVars, greeting>>
studentVars == <<at, todo, slips>>
vars == <<studentVars, systemVars, polls, panel>>

Blocks == {"challenge-2", "challenge-3"}
SpecRetention == 7
EditedRetention == 30

(* A spec as far as it matters: whether its region exists. *)
Spec_ == [region : BOOLEAN]
Sandbox == [key : BOOLEAN, module : BOOLEAN,
            register : SUBSET Blocks, worker : (SUBSET Blocks) \cup {None},
            spec : Spec_ \cup {None}, credential : BOOLEAN,
            code : BOOLEAN, config : BOOLEAN, deployed : BOOLEAN]
ASSUME NoImage == \A blocks \in SUBSET Blocks : blocks # None
Namespace(name, retention, state) ==
    [name |-> name, retention |-> retention, apiKeyAuth |-> TRUE, state |-> state]
Control == controlNamespace(Me)
Staging == physicalNamespace(Me, DEFAULT_SPEC, "staging")
theirs(v) == physicalNamespace(v, DEFAULT_SPEC, "staging")
(* Somebody's, named as an environment is, of no user or one with an empty name. *)
Strays == {theirs(v) : v \in {<<>>, <<"">>}}
Names == {Control, Staging} \cup {theirs(v) : v \in Neighbours} \cup Strays
Account == [name : Names, retention : {SpecRetention, EditedRetention},
            apiKeyAuth : {TRUE}, state : {"activating", "active", "updating"}]
ReconcilerStatus == [reconciles : 0..1, driftsDetected : 0..1, lastDrift : {"", "missing", "retention"},
                     ok : BOOLEAN]
Loop == [status : ReconcilerStatus, phase : {"start", "idle", "reconcile"}, desired : Spec_,
         signal : Spec_ \cup {None}]
ASSUME NoLoop == None \notin Loop
Checks == lab1Checkpoints \cup lab2Checkpoints \cup lab3Checkpoints \cup lab4Checkpoints
Results == UNION {[LABS[n].checkpoints -> {"pass", "fail", "blocked"}] : n \in 1..Len(LABS)}
Reading == [inventory : SUBSET Account, answer : Results \cup {None}]

Exists(name) == \E ns \in cloud : ns.name = name
Command(n) == FlattenSeq([i \in DOMAIN LABS[n].steps |-> LABS[n].steps[i].does])
ASSUME Commands == \A n \in DOMAIN LABS : Command(n) \in Seq(STRING)

TypeOK ==
    /\ at \in 1..Len(LABS)
    /\ \E i \in 1..Len(Command(at)) + 1 : todo = SubSeq(Command(at), i, Len(Command(at)))
    /\ slips \in 0..MaxSlips
    /\ sandbox \in Sandbox
    /\ cloud \in SUBSET Account
    /\ provision \in Spec_ \cup {None}
    /\ loop \in Loop \cup {None}
    /\ seen \subseteq {"reconciled", "missing", "retention"}
    /\ continued \in 0..MaxContinue
    /\ greeting \in {"no", "started", "completed"}
    /\ polls \in [Poll -> Reading \cup {None}]
    /\ panel \in Results \cup {None}

Init ==
    /\ at = 1
    /\ todo = Command(1)
    /\ slips = 0
    /\ sandbox = [key |-> FALSE, module |-> FALSE, register |-> {}, worker |-> None, spec |-> None,
                  credential |-> FALSE, code |-> FALSE, config |-> FALSE, deployed |-> FALSE]
    /\ cloud = {Namespace(name, EditedRetention, "active") : name \in Strays}
    /\ provision = None
    /\ loop = None
    /\ seen = {}
    /\ continued = 0
    /\ greeting = "no"
    /\ polls = [q \in Poll |-> None]
    /\ panel = None
-----------------------------------------------------------------------------
(* The commands of the labs. *)

Next_(c) ==
    /\ todo # <<>>
    /\ Head(todo) = c
    /\ todo' = Tail(todo)
    /\ UNCHANGED <<at, slips, polls, panel>>

(* A command that changes the machine or the cluster, once it can run. *)
Machine(c, ready, new) ==
    /\ Next_(c)
    /\ sandbox' = IF ready THEN new ELSE sandbox
    /\ UNCHANGED <<cloud, provision, loopVars, greeting>>

WorkshopInit == Machine("init", TRUE, [sandbox EXCEPT !.key = TRUE])
WriteModule == Machine("write module", TRUE, [sandbox EXCEPT !.module = TRUE])
PlatformUp ==
    Machine("platform-up", sandbox.key /\ Exists(Control), [sandbox EXCEPT !.worker = sandbox.register])
Uncomment2 == Machine("uncomment 2", TRUE, [sandbox EXCEPT !.register = @ \cup {"challenge-2"}])
Uncomment3 == Machine("uncomment 3", TRUE, [sandbox EXCEPT !.register = @ \cup {"challenge-3"}])
Reload == Machine("reload", sandbox.worker # None, [sandbox EXCEPT !.worker = sandbox.register])
TpctlNew == Machine("tpctl new", TRUE, [sandbox EXCEPT !.spec = [region |-> TRUE]])
BreakRegion == Machine("break region", sandbox.spec # None, [sandbox EXCEPT !.spec = [region |-> FALSE]])
MendRegion == Machine("mend region", sandbox.spec # None, [sandbox EXCEPT !.spec = [region |-> TRUE]])
WriteGreeting == Machine("write greeting", TRUE, [sandbox EXCEPT !.code = TRUE])
GenConfig == Machine("gen-config", sandbox.spec # None, [sandbox EXCEPT !.config = sandbox.code])
(* The worker refuses to start when its configuration is not of its code. *)
Deploy ==
    Machine("deploy", sandbox.config /\ sandbox.spec # None /\ sandbox.credential,
            [sandbox EXCEPT !.deployed = sandbox.code])

(* What an apply of the module leaves in the account. *)
NAMESPACE_MAIN_TF(name, state) ==
    {ns \in cloud : ns.name # name} \cup {Namespace(name, SpecRetention, state)}

TerraformApply ==
    /\ Next_("terraform apply")
    /\ cloud' = IF sandbox.key /\ sandbox.module /\ ~Exists(Control)
                THEN NAMESPACE_MAIN_TF(Control, "active") ELSE cloud
    /\ UNCHANGED <<sandbox, provision, loopVars, greeting>>

(* A workflow of that id that is still running is the one that is waited for. *)
TpctlApply ==
    /\ Next_("tpctl apply")
    /\ provision' = IF provision = None /\ sandbox.key /\ Exists(Control) THEN sandbox.spec ELSE provision
    /\ UNCHANGED <<sandbox, cloud, loopVars, greeting>>

NewLoop(spec) ==
    [status |-> [reconciles |-> 0, driftsDetected |-> 0, lastDrift |-> "", ok |-> FALSE],
     phase |-> "start", desired |-> spec, signal |-> None]
TpctlSync ==
    /\ Next_("tpctl sync")
    /\ loop' = IF ~sandbox.key \/ ~Exists(Control) \/ sandbox.spec = None THEN loop
               ELSE IF loop = None THEN NewLoop(sandbox.spec)
               ELSE [loop EXCEPT !.signal = sandbox.spec]
    /\ UNCHANGED <<sandbox, cloud, provision, seen, continued, greeting>>

EditRetention ==
    /\ Next_("edit retention")
    /\ cloud' = {IF ns.name = Staging
                 THEN [ns EXCEPT !.retention = EditedRetention, !.state = "updating"] ELSE ns : ns \in cloud}
    /\ UNCHANGED <<sandbox, provision, loopVars, greeting>>

Execute ==
    /\ Next_("execute")
    /\ greeting' = IF greeting = "no" /\ sandbox.credential THEN "started" ELSE greeting
    /\ UNCHANGED <<sandbox, cloud, provision, loopVars>>

Do ==
    \/ WorkshopInit \/ WriteModule \/ TerraformApply
    \/ PlatformUp \/ Uncomment2 \/ Reload \/ TpctlNew \/ TpctlApply \/ BreakRegion \/ MendRegion
    \/ Uncomment3 \/ TpctlSync \/ EditRetention
    \/ WriteGreeting \/ GenConfig \/ Deploy \/ Execute

Forget ==
    /\ todo # <<>>
    /\ Head(todo) \in Skippable
    /\ slips < MaxSlips
    /\ slips' = slips + 1
    /\ todo' = Tail(todo)
    /\ UNCHANGED <<at, systemVars, polls, panel>>

-----------------------------------------------------------------------------
(* The platform.  A workflow whose type the running image has not registered
   waits for an image that has. *)

Registered(blocks) == sandbox.worker # None /\ blocks \subseteq sandbox.worker

(* A region that does not exist fails the apply; otherwise the namespace is as
   the spec says and its key is in Vault.  Where there is something to do, the
   Cloud is at it for a while. *)
Ordered(name) ==
    IF ~Exists(name) THEN NAMESPACE_MAIN_TF(name, "activating")
    ELSE IF \E ns \in cloud : ns.name = name /\ ns.retention = SpecRetention THEN cloud
    ELSE NAMESPACE_MAIN_TF(name, "updating")
Applied(spec) ==
    /\ cloud' = IF spec.region THEN Ordered(Staging) ELSE cloud
    /\ sandbox' = IF spec.region THEN [sandbox EXCEPT !.credential = TRUE] ELSE sandbox

CanProvision == provision # None /\ Registered({"challenge-2"})
Provision ==
    /\ CanProvision
    /\ Applied(provision)
    /\ provision' = None
    /\ UNCHANGED <<loopVars, greeting, studentVars, polls, panel>>

(* The Cloud finishes what it was told to do. *)
Unsettled == {ns \in cloud : ns.state # "active"}
Settle(ns) ==
    /\ cloud' = (cloud \ {ns}) \cup {[ns EXCEPT !.state = "active"]}
    /\ UNCHANGED <<sandbox, provision, loopVars, greeting, studentVars, polls, panel>>

(* The counter goes up before the children start, the environments' status
   changes when they are done. *)
Reconciling(l) == [l EXCEPT !.status.reconciles = 1, !.phase = "reconcile"]
Loops(new, facts) ==
    /\ loop' = new
    /\ seen' = seen \cup facts
    /\ UNCHANGED <<provision, greeting, studentVars, polls, panel>>

CanStart == loop # None /\ loop.phase = "start" /\ Registered({"challenge-3"})
LoopStart ==
    /\ CanStart
    /\ Loops(Reconciling(loop), {"reconciled"})
    /\ UNCHANGED <<sandbox, cloud, continued>>

CanReconcile == loop # None /\ loop.phase = "reconcile" /\ Registered(Blocks)
LoopReconciled ==
    /\ CanReconcile
    /\ Applied(loop.desired)
    /\ Loops([loop EXCEPT !.phase = "idle", !.status.ok = loop.desired.region], {})
    /\ UNCHANGED continued

Idle == loop # None /\ loop.phase = "idle" /\ Registered({"challenge-3"})
CanSignal == Idle /\ loop.signal # None
LoopSignal ==
    /\ CanSignal
    /\ IF loop.signal = loop.desired THEN Loops([loop EXCEPT !.signal = None], {})
       ELSE Loops(Reconciling([loop EXCEPT !.desired = loop.signal, !.signal = None]), {"reconciled"})
    /\ UNCHANGED <<sandbox, cloud, continued>>

(* The history has grown too long: the next run starts with the spec, and with
   nothing counted.  A signal nobody has read goes with this one. *)
LoopContinue ==
    /\ Idle
    /\ continued < MaxContinue
    /\ continued' = continued + 1
    /\ Loops(NewLoop(loop.desired), {})
    /\ UNCHANGED <<sandbox, cloud>>

Drifted == ~\E ns \in cloud : ns.name = Staging /\ ns.retention = SpecRetention
CanTick == Idle /\ Drifted

Drift == IF Exists(Staging) THEN "retention" ELSE "missing"
Detected(l) == [l EXCEPT !.status.driftsDetected = 1, !.status.lastDrift = Drift]
\* Mutant of LoopTick: drift is recorded and left alone.
LoopTickRecord ==
    /\ CanTick
    /\ Loops(Detected(loop), {Drift})
    /\ UNCHANGED <<sandbox, cloud, continued>>
LoopTick ==
    /\ CanTick
    /\ Loops(Reconciling(Detected(loop)), {"reconciled", Drift})
    /\ UNCHANGED <<sandbox, cloud, continued>>

CanGreet == greeting = "started" /\ sandbox.deployed
Greet ==
    /\ CanGreet
    /\ greeting' = "completed"
    /\ UNCHANGED <<sandbox, cloud, provision, loopVars, studentVars, polls, panel>>

(* Another student's platform does for them what ours does for us. *)
NeighbourProvisions(v) ==
    /\ ~Exists(theirs(v))
    /\ cloud' = NAMESPACE_MAIN_TF(theirs(v), "active")
    /\ UNCHANGED <<sandbox, provision, loopVars, greeting, studentVars, polls, panel>>

-----------------------------------------------------------------------------
(* The exit check. *)

ReadInventory(q) ==
    /\ polls[q] = None
    /\ polls' = [polls EXCEPT ![q] = [inventory |-> cloud, answer |-> None]]
    /\ UNCHANGED <<systemVars, studentVars, panel>>

(* A query is answered by a worker that has the workflow registered. *)
queryReconciler == IF loop # None /\ Registered({"challenge-3"}) THEN loop.status ELSE None
completedRun == IF Exists(Staging) THEN greeting = "completed" ELSE None
Graded(inventory, r, ran) == gradeLab(at, Me, inventory, r, ran)

Grade(q, r, ran) ==
    /\ polls[q] # None
    /\ polls[q].answer = None
    /\ polls' = [polls EXCEPT ![q] = [inventory |-> {}, answer |-> Graded(polls[q].inventory, r, ran)]]
    /\ UNCHANGED <<systemVars, studentVars, panel>>

(* Every failure to reach the namespace is the same answer: undefined. *)
Unreachable(q) == Grade(q, None, None)
Reachable(q) == Grade(q, queryReconciler, completedRun)

Answered(q) == polls[q] # None /\ polls[q].answer # None
(* Whichever answer comes last is what the panel shows. *)
Show(q) ==
    /\ Answered(q)
    /\ panel' = polls[q].answer
    /\ polls' = [polls EXCEPT ![q] = None]
    /\ UNCHANGED <<systemVars, studentVars>>

(* An error is shown beside the results there are. *)
ReplyLost(q) ==
    /\ Answered(q)
    /\ polls' = [polls EXCEPT ![q] = None]
    /\ UNCHANGED <<systemVars, studentVars, panel>>

AllGreen == panel # None /\ \A c \in DOMAIN panel : panel[c] = "pass"

(* Another lab's page is another panel. *)
Page(n) ==
    /\ at' = n
    /\ todo' = Command(n)
    /\ panel' = None
    /\ polls' = [q \in Poll |-> None]
    /\ UNCHANGED systemVars

(* Every page links to every lab, whatever is done and whatever is green. *)
Visit(n) ==
    /\ slips < MaxSlips
    /\ slips' = slips + 1
    /\ Page(n)

(* What a student does who reads the exit check: the link at the end of the page,
   once everything is done and green. *)
MoveOn ==
    /\ todo = <<>>
    /\ AllGreen
    /\ at < Len(LABS)
    /\ Page(at + 1)
    /\ UNCHANGED slips

(* A student who is stuck -- nothing is going on any more, the check was asked
   again, and is not green -- goes over the labs again. *)
Quiet ==
    /\ ~CanProvision /\ ~CanGreet /\ ~CanStart /\ ~CanReconcile /\ ~CanSignal /\ Unsettled = {}
    /\ CanTick => ~loop.desired.region
StartOver ==
    /\ todo = <<>>
    /\ Quiet \/ (loop # None /\ ~loop.desired.region)
    /\ panel = Graded(cloud, queryReconciler, completedRun)
    /\ ~AllGreen
    /\ Page(1)
    /\ UNCHANGED slips

Platform ==
    \/ Provision \/ Greet \/ \E ns \in Unsettled : Settle(ns)
    \/ LoopStart \/ LoopReconciled \/ LoopSignal \/ LoopContinue \/ LoopTick
Student == Do \/ MoveOn \/ StartOver
Panel(q) == ReadInventory(q) \/ Unreachable(q) \/ Reachable(q) \/ Show(q) \/ ReplyLost(q)

Next ==
    \/ Student \/ Forget \/ \E n \in Detours \ {at} : Visit(n)
    \/ Platform \/ \E v \in Neighbours : NeighbourProvisions(v)
    \/ \E q \in Poll : Panel(q)

Spec == Init /\ [][Next]_vars

(* The platform goes on, and the loop takes a waiting signal before it starts
   another timer; a student who keeps editing the retention once leaves it
   alone until the timer fires; of the polls some reach everything and are
   answered before anything changes. *)
InTime(q) == Show(q) /\ panel' = Graded(cloud, queryReconciler, completedRun)
FairSpec ==
    /\ Spec
    /\ WF_vars(Do)
    /\ SF_vars(MoveOn)
    /\ SF_vars(StartOver)
    /\ WF_vars(Provision) /\ WF_vars(Greet) /\ WF_vars(\E ns \in Unsettled : Settle(ns))
    /\ WF_vars(LoopStart \/ LoopReconciled) /\ SF_vars(LoopSignal) /\ SF_vars(LoopTick)
    /\ \A q \in Poll : WF_vars(Panel(q)) /\ SF_vars(Reachable(q)) /\ SF_vars(InTime(q))

-----------------------------------------------------------------------------
(* What is so, told without the portal's help: the loop's status says no more of
   what it did before it continued as new. *)
True(c) ==
    CASE c \in lab1Checkpoints -> Exists(Control)
      [] c \in {"environment-provisioned", "namespace-still-healthy"} -> Exists(Staging)
      [] c = "reconciler-running" -> "reconciled" \in seen
      [] c = "retention-drift-corrected" -> "retention" \in seen
      [] c = "greeting-workflow-ran" -> greeting = "completed"

(* The panel marks the checks of the lab that is open, and a check is green only
   for what the student's own platform did, however old the answer is, whichever
   of two polls came last and whoever else is in the account. *)
OwnGreen ==
    panel # None =>
        /\ DOMAIN panel = LABS[at].checkpoints
        /\ \A c \in DOMAIN panel : panel[c] = "pass" => True(c)

(* However the student got to the last lab, past whichever pages and commands:
   when its check is green, all that the last workflow stands on is there and
   was made in the order of the labs. *)
Earned ==
    at = Len(LABS) /\ AllGreen =>
        /\ greeting = "completed"
        /\ Exists(Control) /\ Exists(Staging)
        /\ sandbox.worker # None /\ sandbox.credential /\ sandbox.deployed

(* A row of the instructor's view is a student's, and counts what they have;
   other namespaces make none, however close their names come. *)
RowsAreStudents ==
    readCohort(cloud) =
        {[username |-> u, environments |-> {"staging"}, namespaces |-> 1] :
            u \in {v \in {Me} \cup Neighbours : Exists(physicalNamespace(v, DEFAULT_SPEC, "staging"))}}

(* The drift check turns green when the loop has seen the drift, which is
   before it mended it, and the student may move on at once: what the check was
   green for is mended all the same. *)
DriftGreen == panel # None /\ "retention-drift-corrected" \in DOMAIN panel
              /\ panel["retention-drift-corrected"] = "pass"
PutBack == DriftGreen ~> ~Drifted

(* Whoever follows the labs, forgets a few commands or passes over a few pages,
   and goes over the labs again when stuck, gets to the last one and its exit
   check green. *)
Graduates == <>(at = Len(LABS) /\ todo = <<>> /\ AllGreen)
=============================================================================
