---------------------------- MODULE TerraformRun ----------------------------
(***************************************************************************)
(* ONE TerraformApply activity, attempt by attempt: the server that times  *)
(* attempts out and retries them, the worker that beats, and the terraform *)
(* process each attempt runs (internal/tfactivity, heartbeat, tfworkspace, *)
(* tfexec).  Environments takes an attempt as one step; here it is not,    *)
(* and an attempt the server has given up may still be running, or hang.   *)
(*                                                                         *)
(* The module manages a namespace and the worker's service account (its    *)
(* identity).  ns is the namespace in the Cloud: absent, not as wanted     *)
(* ("old"), or as wanted.  Identities carry the number of the attempt that *)
(* made them; Earlier is the one of an earlier activity.                   *)
(***************************************************************************)
EXTENDS Naturals, FiniteSets

CONSTANTS
  MaxAttempts,  \* RetryPolicy.MaximumAttempts (8 in the code)
  Locking,      \* terraform locks the state file (the local backend does, s3 without
                \* a lock table does not)
  MaxFaults,    \* bound: terraform commands that fail
  MaxCuts       \* bound: workers cut off, processes that hang, runs timed out

ASSUME AttemptsAssumption == MaxAttempts \in Nat \ {0}
ASSUME LockingAssumption == Locking \in BOOLEAN
ASSUME RunBoundAssumption == MaxFaults \in Nat /\ MaxCuts \in Nat

Attempt == 1..MaxAttempts
None == 0
Earlier == MaxAttempts + 1
Identity == Attempt \cup {Earlier}

VARIABLES
  outcome,   \* of the activity, as the server has it
  attempt,   \* the attempt the server waits for
  result,    \* the identity the activity returned
  phase,     \* where each attempt's process is
  beat,      \* its worker reaches the server
  hung,      \* terraform makes no progress, though its worker goes on beating
  stopping,  \* its context is cancelled: terraform has had its SIGINT
  mem,       \* the state as its terraform has it in memory
  ns, ids,   \* the Cloud
  rec,       \* the state file
  lock,      \* the attempt that holds the state lock
  faults, cuts,
  overlap    \* history: an attempt was started while another's process was there

server == <<outcome, attempt, result, overlap>>
worker == <<beat, hung, stopping>>
world == <<ns, ids, rec>>
vars == <<server, phase, worker, mem, world, lock, faults, cuts>>

Record == [ns : {"absent", "old", "want"}, id : Identity \cup {None}]

\* The process has read the state file and is going to write it.
Holding == {"namespace", "identity", "persist"}
Running(a) == phase[a] \notin {"none", "gone"}

TypeOK ==
  /\ outcome \in {"running", "ok", "failed"}
  /\ attempt \in Attempt
  /\ result \in Identity \cup {None}
  /\ phase \in [Attempt -> {"none", "import", "plan", "output", "conflict", "gone"} \cup Holding]
  /\ beat \in [Attempt -> BOOLEAN]
  /\ hung \in [Attempt -> BOOLEAN]
  /\ stopping \in [Attempt -> BOOLEAN]
  /\ mem \in [Attempt -> Record]
  /\ ns \in {"absent", "old", "want"}
  /\ ids \in SUBSET Identity
  /\ rec \in Record
  /\ lock \in Attempt \cup {None}
  /\ faults \in 0..MaxFaults /\ cuts \in 0..MaxCuts
  /\ overlap \in BOOLEAN

\* The first attempt has been dispatched.  An earlier activity may have made both resources
\* and written them to the state file; the file may be lost since, or what it lists.
Init ==
  /\ outcome = "running" /\ attempt = 1 /\ result = None /\ overlap = FALSE
  /\ phase = [a \in Attempt |-> IF a = 1 THEN "import" ELSE "none"]
  /\ beat = [a \in Attempt |-> TRUE]
  /\ hung = [a \in Attempt |-> FALSE]
  /\ stopping = [a \in Attempt |-> FALSE]
  /\ mem = [a \in Attempt |-> [ns |-> "absent", id |-> None]]
  /\ ns \in {"absent", "old", "want"}
  /\ ids \in SUBSET {Earlier}
  /\ rec \in [ns : {"absent", "old", "want"}, id : {None, Earlier}]
  /\ lock = None
  /\ faults = 0 /\ cuts = 0

Fault == faults < MaxFaults /\ faults' = faults + 1
Cutting == cuts < MaxCuts /\ cuts' = cuts + 1

-----------------------------------------------------------------------------
(* The server.                                                             *)

\* Mutant of Retry: the first failure is the last.
RetryNever(gone) ==
  /\ outcome' = "failed"
  /\ phase' = [b \in Attempt |-> IF b \in gone THEN "gone" ELSE phase[b]]
  /\ UNCHANGED <<attempt, result, overlap>>

\* The current attempt is over, and the processes in `gone` with it.  The next attempt is
\* dispatched, unless it was the last.
Retry(gone) ==
  /\ IF attempt < MaxAttempts
     THEN attempt' = attempt + 1 /\ UNCHANGED outcome
     ELSE outcome' = "failed" /\ UNCHANGED attempt
  /\ phase' = [b \in Attempt |-> IF b \in gone THEN "gone"
                                 ELSE IF b = attempt + 1 THEN "import" ELSE phase[b]]
  /\ overlap' = (overlap \/ (attempt < MaxAttempts /\ \E b \in Attempt \ gone : Running(b)))
  /\ UNCHANGED result

\* No heartbeat for 30 seconds.
HeartbeatTimeout ==
  /\ outcome = "running"
  /\ ~beat[attempt]
  /\ Retry({})
  /\ UNCHANGED <<worker, mem, world, lock, faults, cuts>>

\* Half an hour is over: the server and the worker's own deadline say so together, the
\* process gets its SIGINT, and the retry comes after 5 seconds, not after the 20 a
\* process has to unwind.  This comes to every process that hangs, and may come to a slow one.
StartToClose ==
  /\ outcome = "running"
  /\ IF hung[attempt] THEN UNCHANGED cuts ELSE Cutting
  /\ stopping' = [stopping EXCEPT ![attempt] = TRUE]
  /\ Retry({})
  /\ UNCHANGED <<beat, hung, mem, world, lock, faults>>

\* WorkflowRunTimeout: the child's hour is over, whatever the activity is doing.
RunTimeout ==
  /\ outcome = "running"
  /\ Cutting
  /\ outcome' = "failed"
  /\ UNCHANGED <<attempt, result, overlap, phase, worker, mem, world, lock, faults>>

-----------------------------------------------------------------------------
(* The worker.                                                             *)

\* It stops beating: a partition, or the process died.
Cut(a) ==
  /\ Running(a) /\ beat[a]
  /\ Cutting
  /\ beat' = [beat EXCEPT ![a] = FALSE]
  /\ UNCHANGED <<server, phase, hung, stopping, mem, world, lock, faults>>

Heal(a) ==
  /\ Running(a) /\ ~beat[a]
  /\ beat' = [beat EXCEPT ![a] = TRUE]
  /\ UNCHANGED <<server, phase, hung, stopping, mem, world, lock, faults, cuts>>

\* terraform, or a provider's call, does not come back.  The heartbeat is a ticker of the
\* worker and goes on, so no heartbeat timeout tells.
Hang(a) ==
  /\ Running(a) /\ ~hung[a]
  /\ Cutting
  /\ hung' = [hung EXCEPT ![a] = TRUE]
  /\ UNCHANGED <<server, phase, beat, stopping, mem, world, lock, faults>>

\* The context of an attempt the server does not wait for is cancelled.
Cancel(a) ==
  /\ Running(a) /\ ~stopping[a]
  /\ a # attempt \/ outcome # "running"
  /\ stopping' = [stopping EXCEPT ![a] = TRUE]
  /\ UNCHANGED <<server, phase, beat, hung, mem, world, lock, faults, cuts>>

\* Cancellation comes with the answer to a heartbeat, where there is an answer.
Notice(a) == beat[a] /\ Cancel(a)

\* Half an hour is over for the worker as well, whether it reaches the server or not.
Deadline(a) == Cancel(a)

\* The attempt returns an error.  The server hears of it if it still waits for it.
Exit(a) ==
  /\ IF a = attempt /\ beat[a] /\ outcome = "running"
     THEN Retry({a})
     ELSE /\ phase' = [phase EXCEPT ![a] = "gone"]
          /\ UNCHANGED server
  /\ lock' = IF lock = a THEN None ELSE lock

-----------------------------------------------------------------------------
(* The terraform process of attempt a.                                     *)

\* Mutant of Import: AttemptImport is left out.
ImportNothing(a) ==
  /\ phase[a] = "import" /\ ~hung[a]
  /\ phase' = [phase EXCEPT ![a] = "plan"]
  /\ UNCHANGED <<server, worker, mem, world, lock, faults, cuts>>

\* A step of a terraform that does not hang.  terraform import: a namespace the state has never heard of is adopted -- not its
\* identity.  Errors are ignored: nothing to adopt, already there, or locked.
Import(a) ==
  /\ phase[a] = "import" /\ ~hung[a]
  /\ rec' = IF rec.ns = "absent" /\ lock = None THEN [rec EXCEPT !.ns = ns] ELSE rec
  /\ phase' = [phase EXCEPT ![a] = "plan"]
  /\ UNCHANGED <<server, worker, mem, ns, ids, lock, faults, cuts>>

\* An import that could have adopted fails, and that is ignored too.
ImportFails(a) ==
  /\ phase[a] = "import" /\ ~hung[a]
  /\ Fault
  /\ phase' = [phase EXCEPT ![a] = "plan"]
  /\ UNCHANGED <<server, worker, mem, world, lock, cuts>>

\* The identity the state file names, if it still exists.
Alive == IF rec.id \in ids THEN rec.id ELSE None

\* The state file, refreshed from the Cloud.
Refreshed == [ns |-> IF rec.ns = "absent" THEN "absent" ELSE ns, id |-> Alive]

\* Mutant of Plan: the lock is not taken.
PlanUnlocked(a) ==
  /\ phase[a] = "plan" /\ ~hung[a]
  /\ ~stopping[a]
  /\ mem' = [mem EXCEPT ![a] = Refreshed]
  /\ phase' = [phase EXCEPT ![a] = "namespace"]
  /\ UNCHANGED <<server, worker, world, lock, faults, cuts>>

\* terraform apply starts, unless the context is cancelled: it takes the lock, reads the
\* state file and refreshes what it read from the Cloud.
Plan(a) ==
  /\ phase[a] = "plan" /\ ~hung[a]
  /\ ~stopping[a]
  /\ IF Locking THEN lock = None /\ lock' = a ELSE UNCHANGED lock
  /\ mem' = [mem EXCEPT ![a] = Refreshed]
  /\ phase' = [phase EXCEPT ![a] = "namespace"]
  /\ UNCHANGED <<server, worker, world, faults, cuts>>

\* "Error acquiring the state lock".
LockRefused(a) ==
  /\ phase[a] = "plan" /\ ~hung[a]
  /\ Locking /\ lock # None
  /\ Exit(a)
  /\ UNCHANGED <<worker, mem, world, faults, cuts>>

\* The namespace is created or updated.  A name is taken once per account, so creating
\* what exists fails, and so does updating what is gone.
WriteNamespace(a) ==
  /\ phase[a] = "namespace" /\ ~hung[a]
  /\ IF (mem[a].ns = "absent") = (ns = "absent")
     THEN /\ ns' = "want"
          /\ mem' = [mem EXCEPT ![a].ns = "want"]
          /\ phase' = [phase EXCEPT ![a] = "identity"]
     ELSE /\ phase' = [phase EXCEPT ![a] = "conflict"]
          /\ UNCHANGED <<ns, mem>>
  /\ UNCHANGED <<server, worker, ids, rec, lock, faults, cuts>>

\* Mutant of WriteIdentity: a service account is created whether the state has one or not.
WriteIdentityAgain(a) ==
  /\ phase[a] = "identity" /\ ~hung[a]
  /\ ids' = ids \cup {a}
  /\ mem' = [mem EXCEPT ![a].id = a]
  /\ phase' = [phase EXCEPT ![a] = "persist"]
  /\ UNCHANGED <<server, worker, ns, rec, lock, faults, cuts>>

\* The service account is created if the state has none.
WriteIdentity(a) ==
  /\ phase[a] = "identity" /\ ~hung[a]
  /\ IF mem[a].id = None
     THEN /\ ids' = ids \cup {a}
          /\ mem' = [mem EXCEPT ![a].id = a]
     ELSE UNCHANGED <<ids, mem>>
  /\ phase' = [phase EXCEPT ![a] = "persist"]
  /\ UNCHANGED <<server, worker, ns, rec, lock, faults, cuts>>

\* The state file is written whole, and the lock released.
Persist(a) ==
  /\ phase[a] = "persist" /\ ~hung[a]
  /\ rec' = mem[a]
  /\ lock' = IF lock = a THEN None ELSE lock
  /\ phase' = [phase EXCEPT ![a] = "output"]
  /\ UNCHANGED <<server, worker, mem, ns, ids, faults, cuts>>

\* The attempt completes the activity with what it has, if the server still waits for it.
Complete(a) ==
  /\ phase' = [phase EXCEPT ![a] = "gone"]
  /\ IF a = attempt /\ beat[a] /\ outcome = "running"
     THEN outcome' = "ok" /\ result' = rec.id /\ UNCHANGED <<attempt, overlap>>
     ELSE UNCHANGED server
  /\ UNCHANGED lock

\* terraform output reads the state file.  It is an error if the identity is missing,
\* which takes another attempt's write in between.
Output(a) ==
  /\ phase[a] = "output" /\ ~hung[a]
  /\ ~stopping[a]
  /\ IF rec.id # None THEN Complete(a) ELSE Exit(a)
  /\ UNCHANGED <<worker, mem, world, faults, cuts>>

\* terraform reports an error: what it has done is in the state file.
Fails(a) ==
  /\ Running(a) /\ ~hung[a]
  /\ IF phase[a] = "conflict" THEN UNCHANGED faults ELSE Fault
  /\ rec' = IF phase[a] \in Holding \cup {"conflict"} THEN mem[a] ELSE rec
  /\ Exit(a)
  /\ UNCHANGED <<worker, mem, ns, ids, cuts>>

\* SIGINT: terraform unwinds in time and writes the state, which one that hangs may not do;
\* between two commands the context is seen to be done.
Unwind(a) ==
  /\ Running(a) /\ stopping[a]
  /\ rec' = IF phase[a] \in Holding \cup {"conflict"} THEN mem[a] ELSE rec
  /\ Exit(a)
  /\ UNCHANGED <<worker, mem, ns, ids, faults, cuts>>

\* Mutant of Killed: without WaitDelay a process dies with its worker only.
KilledWithWorker(a) ==
  /\ Running(a)
  /\ ~beat[a]
  /\ Exit(a)
  /\ UNCHANGED <<worker, mem, world, faults, cuts>>

\* The process is gone with what it had in memory: killed 20 seconds after its SIGINT,
\* or with its worker.
Killed(a) ==
  /\ Running(a)
  /\ stopping[a] \/ ~beat[a]
  /\ Exit(a)
  /\ UNCHANGED <<worker, mem, world, faults, cuts>>

-----------------------------------------------------------------------------

\* What a terraform that does not hang goes on with.
Progress(a) ==
  \/ Import(a) \/ Plan(a) \/ LockRefused(a) \/ WriteNamespace(a) \/ WriteIdentity(a)
  \/ Persist(a) \/ Output(a)
  \/ phase[a] = "conflict" /\ Fails(a)

Next ==
  \/ HeartbeatTimeout \/ StartToClose \/ RunTimeout
  \/ \E a \in Attempt :
       \/ Cut(a) \/ Heal(a) \/ Hang(a) \/ Notice(a) \/ Deadline(a)
       \/ Progress(a) \/ ImportFails(a) \/ Fails(a) \/ Unwind(a) \/ Killed(a)

Spec == Init /\ [][Next]_vars

(* The server's timers fire, and so do the worker's: the deadline of an    *)
(* attempt and, 20 seconds after a SIGINT, the kill.  A process that does  *)
(* not hang goes on.  Nothing says that a cut heals, that a cancellation   *)
(* is noticed or that terraform unwinds by itself.                         *)
Fairness ==
  /\ WF_vars(HeartbeatTimeout)
  /\ WF_vars(hung[attempt] /\ StartToClose)
  /\ \A a \in Attempt :
       /\ WF_vars(Progress(a))
       /\ WF_vars(Deadline(a))
       /\ WF_vars(stopping[a] /\ Killed(a))

FairSpec == Spec /\ Fairness

-----------------------------------------------------------------------------
(* Properties.                                                             *)

\* One writer per state file: of all attempts, zombies included, at most one has read
\* the state and is going to write it.
OneWriter == \A a, b \in Attempt : phase[a] \in Holding /\ phase[b] \in Holding => a = b

\* A result is real, and stays real: once the activity has succeeded, the Cloud, the
\* state file and the result agree, whatever attempts the server gave up are still doing.
ResultHolds ==
  outcome = "ok" =>
    /\ ns = "want" /\ rec.ns = "want"
    /\ result \in ids /\ rec.id = result

\* The import before the apply is worth its while.  As long as no two processes overlapped,
\* an attempt runs into a namespace it did not know of only if an import failed -- a
\* terraform that was killed between the namespace and the state file leaves one to adopt,
\* not a conflict -- and each retry has cost a failure or a cut.  Without cuts no two
\* overlap, and the activity gives up only after MaxAttempts failures.
NoWastedAttempt ==
  /\ ~overlap =>
       /\ \A a \in Attempt : phase[a] = "conflict" => faults >= 1 /\ faults + cuts >= a
       /\ attempt <= faults + cuts + 1
  /\ cuts = 0 => ~overlap /\ (outcome = "failed" => faults >= MaxAttempts)

\* Attempts outlast failures: without cuts, the activity succeeds when fewer commands
\* fail than there are attempts.
RetriesPrevail == MaxFaults < MaxAttempts /\ [](cuts = 0) => <>(outcome = "ok")

\* Whatever happens, the activity ends and no process is left -- one that hangs, behind a
\* partition or not, included.
EverythingStops == <>[](outcome # "running" /\ \A a \in Attempt : ~Running(a))

(* Refinement.                                                             *)

Activity == INSTANCE TerraformActivity
              WITH cloud <- ns, state <- rec.ns, identity <- Alive

\* However attempts overlap, hang, fail and are cut off, the activity is what Environments
\* takes it for: each step writes at most the wanted namespace and what the Cloud has,
\* the identity in the state file is never replaced while it exists, and success is final --
\* no attempt the server gave up writes anything after it.
Implements == Activity!Spec
=============================================================================
