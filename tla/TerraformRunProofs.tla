------------------------- MODULE TerraformRunProofs -------------------------
(***************************************************************************)
(* What holds of TerraformRun for every number of attempts and faults.     *)
(***************************************************************************)
EXTENDS TerraformRun, TLAPS

Phases == {"none", "import", "plan", "output", "conflict", "gone"} \cup Holding

\* A retry keeps the types, whichever processes are gone.
LEMMA RetryType ==
  ASSUME TypeOK, outcome = "running", NEW E \in SUBSET Attempt, Retry(E)
  PROVE  /\ outcome' \in {"running", "failed"} /\ attempt' \in Attempt
         /\ result' = result /\ overlap' \in BOOLEAN
         /\ phase' \in [Attempt -> Phases]
<1>1. overlap' \in BOOLEAN
  BY DEF TypeOK, Retry
<1> QED BY <1>1, AttemptsAssumption DEF TypeOK, Retry, Attempt, Phases

\* And so does the exit of an attempt.
LEMMA ExitType ==
  ASSUME TypeOK, NEW a \in Attempt, Exit(a)
  PROVE  /\ outcome' \in {"running", "ok", "failed"} /\ attempt' \in Attempt
         /\ result' = result /\ overlap' \in BOOLEAN
         /\ phase' \in [Attempt -> Phases]
         /\ lock' \in Attempt \cup {None}
<1>1. CASE a = attempt /\ beat[a] /\ outcome = "running"
  BY <1>1, RetryType DEF Exit, TypeOK
<1>2. CASE ~(a = attempt /\ beat[a] /\ outcome = "running")
  BY <1>2 DEF Exit, TypeOK, server, Phases
<1> QED BY <1>1, <1>2

\* Every step keeps the types.
LEMMA TypeNext == TypeOK /\ [Next]_vars => TypeOK'
<1> SUFFICES ASSUME TypeOK, [Next]_vars PROVE TypeOK'
  OBVIOUS
<1> USE RunBoundAssumption DEF Phases, Holding, Identity
<1>1. CASE HeartbeatTimeout
  BY <1>1, RetryType DEF HeartbeatTimeout, TypeOK, world, worker
<1>2. CASE StartToClose
  <2>1. cuts' \in 0..MaxCuts
    BY <1>2 DEF StartToClose, Cutting, TypeOK
  <2> QED BY <1>2, <2>1, RetryType DEF StartToClose, TypeOK, world
<1>3. CASE RunTimeout
  BY <1>3 DEF RunTimeout, Cutting, TypeOK, world, worker
<1>4. ASSUME NEW a \in Attempt, Cut(a) \/ Heal(a) \/ Hang(a) \/ Cancel(a) PROVE TypeOK'
  <2>1. cuts' \in 0..MaxCuts
    BY <1>4 DEF Cut, Heal, Hang, Cancel, Cutting, TypeOK
  <2>2. /\ beat' \in [Attempt -> BOOLEAN] /\ hung' \in [Attempt -> BOOLEAN]
        /\ stopping' \in [Attempt -> BOOLEAN]
    BY <1>4, Zenon DEF Cut, Heal, Hang, Cancel, TypeOK
  <2>3. UNCHANGED <<outcome, attempt, result, overlap, phase, mem, ns, ids, rec, lock, faults>>
    BY <1>4 DEF Cut, Heal, Hang, Cancel, server, world
  <2> QED BY <2>1, <2>2, <2>3 DEF TypeOK
<1>5. ASSUME NEW a \in Attempt, Import(a) PROVE TypeOK'
  BY <1>5 DEF Import, TypeOK, server, worker, Record
<1>6. ASSUME NEW a \in Attempt, ImportFails(a) PROVE TypeOK'
  BY <1>6 DEF ImportFails, Fault, TypeOK, server, worker, world
<1>7. ASSUME NEW a \in Attempt, Plan(a) PROVE TypeOK'
  <2>1. Refreshed \in Record
    BY DEF Refreshed, Alive, TypeOK, Record
  <2> QED BY <1>7, <2>1 DEF Plan, TypeOK, server, worker, world
<1>8. ASSUME NEW a \in Attempt, LockRefused(a) \/ Killed(a) PROVE TypeOK'
  BY <1>8, ExitType DEF LockRefused, Killed, TypeOK, worker, world
<1>9. ASSUME NEW a \in Attempt, WriteNamespace(a) PROVE TypeOK'
  BY <1>9 DEF WriteNamespace, TypeOK, server, worker, Record
<1>10. ASSUME NEW a \in Attempt, WriteIdentity(a) PROVE TypeOK'
  BY <1>10 DEF WriteIdentity, TypeOK, server, worker, Record
<1>11. ASSUME NEW a \in Attempt, Persist(a) PROVE TypeOK'
  BY <1>11 DEF Persist, TypeOK, server, worker
<1>12. ASSUME NEW a \in Attempt, Output(a) PROVE TypeOK'
  <2>1. CASE rec.id # None
    BY <1>12, <2>1 DEF Output, Complete, TypeOK, server, worker, world, Record
  <2>2. CASE rec.id = None
    BY <1>12, <2>2, ExitType DEF Output, TypeOK, worker, world
  <2> QED BY <2>1, <2>2
<1>13. ASSUME NEW a \in Attempt, Fails(a) PROVE TypeOK'
  BY <1>13, ExitType DEF Fails, Fault, TypeOK, worker
<1>14. ASSUME NEW a \in Attempt, Unwind(a) PROVE TypeOK'
  BY <1>14, ExitType DEF Unwind, TypeOK, worker
<1>15. CASE UNCHANGED vars
  BY <1>15 DEF TypeOK, vars, server, worker, world
<1> QED BY <1>1, <1>2, <1>3, <1>4, <1>5, <1>6, <1>7, <1>8, <1>9, <1>10, <1>11, <1>12, <1>13,
           <1>14, <1>15 DEF Next, Progress, Notice, Deadline

\* The first dispatch has the types.
LEMMA TypeInit == Init => TypeOK
<1> SUFFICES ASSUME Init PROVE TypeOK
  OBVIOUS
<1>1. ids \in SUBSET Identity /\ rec \in Record
  BY DEF Init, Identity, Record
<1>2. attempt \in Attempt /\ faults \in 0..MaxFaults /\ cuts \in 0..MaxCuts
  BY AttemptsAssumption, RunBoundAssumption DEF Init, Attempt
<1> QED BY <1>1, <1>2 DEF Init, TypeOK, Record, Holding

\* In every reachable state the variables have their types; in particular there is no
\* attempt after the last.
THEOREM TypeCorrect == Spec => []TypeOK
  BY TypeInit, TypeNext, PTL DEF Spec

-----------------------------------------------------------------------------
(* One writer per state file, because of the lock.                         *)

\* Whoever has read the state and may still write it holds the lock.
LockHeld == \A a \in Attempt : phase[a] \in Holding \cup {"conflict"} => lock = a

\* The exit of an attempt gives its lock back, and moves nobody else into Holding.
LEMMA ExitReleases ==
  ASSUME TypeOK, LockHeld, NEW a \in Attempt, Exit(a)
  PROVE  LockHeld'
<1>1. CASE a = attempt /\ beat[a] /\ outcome = "running"
  BY <1>1 DEF Exit, Retry, LockHeld, Holding, TypeOK
<1>2. CASE ~(a = attempt /\ beat[a] /\ outcome = "running")
  BY <1>2 DEF Exit, LockHeld, Holding, TypeOK
<1> QED BY <1>1, <1>2

\* Where terraform locks, every step keeps LockHeld.
LEMMA LockHeldNext ==
  ASSUME Locking
  PROVE  TypeOK /\ LockHeld /\ [Next]_vars => LockHeld'
<1> SUFFICES ASSUME TypeOK, LockHeld, [Next]_vars PROVE LockHeld'
  OBVIOUS
<1>1. CASE HeartbeatTimeout \/ StartToClose \/ RunTimeout
  BY <1>1 DEF HeartbeatTimeout, StartToClose, RunTimeout, Retry, LockHeld, Holding, TypeOK
<1>2. ASSUME NEW a \in Attempt, Cut(a) \/ Heal(a) \/ Hang(a) \/ Cancel(a) PROVE LockHeld'
  BY <1>2 DEF Cut, Heal, Hang, Cancel, LockHeld
<1>3. ASSUME NEW a \in Attempt, Import(a) \/ ImportFails(a) PROVE LockHeld'
  BY <1>3 DEF Import, ImportFails, LockHeld, Holding, TypeOK
<1>4. ASSUME NEW a \in Attempt, Plan(a) PROVE LockHeld'
  <2>1. lock = None /\ lock' = a /\ phase' = [phase EXCEPT ![a] = "namespace"]
    BY <1>4, Locking DEF Plan
  <2>2. \A b \in Attempt : phase[b] \notin Holding \cup {"conflict"}
    BY <2>1 DEF LockHeld, Attempt, None
  <2> QED BY <2>1, <2>2 DEF LockHeld, TypeOK
<1>5. ASSUME NEW a \in Attempt, WriteNamespace(a) \/ WriteIdentity(a) PROVE LockHeld'
  BY <1>5 DEF WriteNamespace, WriteIdentity, LockHeld, Holding, TypeOK
<1>6. ASSUME NEW a \in Attempt, Persist(a) \/ (phase[a] = "output" /\ Complete(a))
      PROVE  LockHeld'
  BY <1>6 DEF Persist, Complete, LockHeld, Holding, TypeOK
<1>7. ASSUME NEW a \in Attempt,
             LockRefused(a) \/ Fails(a) \/ Unwind(a) \/ Killed(a) \/ Exit(a)
      PROVE  LockHeld'
  BY <1>7, ExitReleases DEF LockRefused, Fails, Unwind, Killed
<1>8. CASE UNCHANGED vars
  BY <1>8 DEF vars, LockHeld
<1> QED BY <1>1, <1>2, <1>3, <1>4, <1>5, <1>6, <1>7, <1>8
        DEF Next, Progress, Notice, Deadline, Output

\* With terraform's own lock, the attempts of one activity never write one state file
\* together, however many overlap and wherever each is cut off.  Without the lock they
\* do: the workflow id separates workflows, not the attempts of one.
THEOREM LockSerialises ==
  ASSUME Locking
  PROVE  Spec => []OneWriter
<1>1. Init => TypeOK /\ LockHeld
  BY TypeInit DEF Init, LockHeld, Holding
<1>2. TypeOK /\ LockHeld /\ [Next]_vars => (TypeOK /\ LockHeld)'
  BY TypeNext, LockHeldNext, Locking
<1>3. LockHeld => OneWriter
  BY DEF LockHeld, OneWriter
<1> QED BY <1>1, <1>2, <1>3, PTL DEF Spec

-----------------------------------------------------------------------------
(***************************************************************************)
(* What is written, where terraform locks.  Whoever holds the lock has in  *)
(* memory a state that may be written at any moment: it names the identity *)
(* of the file, if it still exists, and takes the namespace from the       *)
(* Cloud, unless the file has never heard of it.                           *)
(***************************************************************************)

\* Between reading the state file and writing it, or about to report a conflict.
Inside(a) == phase[a] \in Holding \cup {"conflict"}

\* The state file names no identity the Cloud has not got, but one of an earlier activity.
RecInv == rec.id \in ids \cup {None, Earlier}

\* What the terraform of a has in memory, place by place.
Memory(a) ==
  /\ phase[a] \in {"namespace", "conflict"} => mem[a].ns = Refreshed.ns /\ mem[a].id = Alive
  /\ phase[a] = "conflict" => rec.ns = "absent"
  /\ phase[a] = "identity" => mem[a].ns = "want" /\ ns = "want" /\ mem[a].id = Alive
  /\ phase[a] = "persist" =>
       mem[a].ns = "want" /\ ns = "want" /\ mem[a].id \in ids /\ Alive \in {None, mem[a].id}

\* The namespace is as wanted, the state file knows it, and its identity exists.
Settled == ns = "want" /\ rec.ns = "want" /\ rec.id \in ids

\* Only a terraform that has written its state is asked for its output.
OutputInv == (\E a \in Attempt : phase[a] = "output") \/ outcome = "ok" => Settled

\* The result is the state file's identity.
ResultInv == IF outcome = "ok" THEN result = rec.id ELSE result = None

RunInv == RecInv /\ (\A a \in Attempt : Memory(a)) /\ OutputInv /\ ResultInv

\* The attempts that are inside or at their output were there before, and the activity has
\* not just succeeded: what every step does that ends, starts or cuts off attempts.
Quiet ==
  /\ \A a \in Attempt : phase'[a] \in Holding \cup {"conflict", "output"} => phase'[a] = phase[a]
  /\ outcome' = "ok" <=> outcome = "ok"
  /\ result' = result

\* A retry is quiet.
LEMMA RetryQuiet ==
  ASSUME TypeOK, outcome = "running", NEW E \in SUBSET Attempt, Retry(E)
  PROVE  Quiet
  BY DEF Retry, Quiet, Holding, TypeOK

\* The end of an attempt is quiet, and the attempt is gone.
LEMMA ExitQuiet ==
  ASSUME TypeOK, NEW a \in Attempt, Exit(a)
  PROVE  Quiet /\ phase'[a] = "gone"
<1>1. CASE a = attempt /\ beat[a] /\ outcome = "running"
  <2>1. Retry({a})
    BY <1>1 DEF Exit
  <2>2. Quiet
    BY <1>1, <2>1, RetryQuiet
  <2>3. phase'[a] = "gone"
    BY <2>1 DEF Retry
  <2> QED BY <2>2, <2>3
<1>2. CASE ~(a = attempt /\ beat[a] /\ outcome = "running")
  BY <1>2 DEF Exit, Quiet, Holding, TypeOK, server
<1> QED BY <1>1, <1>2

\* A quiet step that writes nothing keeps the invariant.
LEMMA QuietKeeps ==
  ASSUME RunInv, Quiet, UNCHANGED <<mem, ns, ids, rec>>
  PROVE  RunInv'
  BY DEF RunInv, RecInv, Memory, Refreshed, Alive, OutputInv, Settled, ResultInv, Quiet, Holding

\* Two attempts are never inside together.
LEMMA Alone ==
  ASSUME LockHeld, NEW a \in Attempt, NEW b \in Attempt, Inside(a), Inside(b)
  PROVE  a = b
  BY DEF LockHeld, Inside

\* The memory of whoever is inside may be written to the state file as it is: the namespace is
\* the file's or the Cloud's, an identity is never replaced, and what is settled stays.
LEMMA MemoryIsSafe ==
  ASSUME TypeOK, RunInv, NEW a \in Attempt, Inside(a)
  PROVE  /\ mem[a].ns \in {rec.ns, ns}
         /\ mem[a].id \in ids \cup {None}
         /\ Alive # None => mem[a].id = Alive
         /\ Settled => mem[a].ns = "want" /\ mem[a].id = rec.id
         /\ mem[a] \in Record
<1>1. mem[a] \in Record /\ Alive \in ids \cup {None} /\ None \notin Identity
  BY AttemptsAssumption DEF TypeOK, Alive, None, Identity, Attempt, Earlier
<1>2. Memory(a) /\ (Settled => Alive = rec.id /\ rec.id # None)
  BY <1>1 DEF RunInv, Settled, Alive, TypeOK
<1> QED BY <1>1, <1>2 DEF Memory, Refreshed, Settled, Inside, Holding

\* An attempt that ends and writes what it has in memory keeps the invariant.
LEMMA WriteBackKeeps ==
  ASSUME TypeOK, LockHeld, RunInv, NEW a \in Attempt, Exit(a), UNCHANGED <<mem, ns, ids>>,
         rec' = IF Inside(a) THEN mem[a] ELSE rec
  PROVE  RunInv'
<1>1. CASE ~Inside(a)
  BY <1>1, ExitQuiet, QuietKeeps
<1>2. CASE Inside(a)
  <2>1. Quiet /\ phase'[a] = "gone" /\ rec' = mem[a]
    BY <1>2, ExitQuiet
  <2>2. /\ mem[a].id \in ids \cup {None}
        /\ Settled => mem[a].ns = "want" /\ mem[a].id = rec.id
    BY <1>2, MemoryIsSafe
  <2>3. RecInv'
    BY <2>1, <2>2 DEF RecInv
  <2>4. \A b \in Attempt : Memory(b)'
    <3> SUFFICES ASSUME NEW b \in Attempt PROVE Memory(b)'
      OBVIOUS
    <3>1. ~Inside(b)'
      BY <1>2, <2>1, Alone DEF Inside, Quiet, Holding
    <3> QED BY <3>1 DEF Memory, Inside, Holding
  <2>5. Settled => Settled'
    BY <2>1, <2>2 DEF Settled
  <2>6. OutputInv'
    BY <2>1, <2>5 DEF OutputInv, RunInv, Quiet
  <2>7. ResultInv'
    BY <2>1, <2>2 DEF RunInv, OutputInv, ResultInv, Quiet
  <2> QED BY <2>3, <2>4, <2>6, <2>7 DEF RunInv
<1> QED BY <1>1, <1>2

\* Where terraform locks, every step keeps RunInv.
LEMMA RunInvNext ==
  ASSUME Locking
  PROVE  TypeOK /\ LockHeld /\ RunInv /\ [Next]_vars => RunInv'
<1> SUFFICES ASSUME TypeOK, LockHeld, RunInv, [Next]_vars PROVE RunInv'
  OBVIOUS
<1>1. CASE HeartbeatTimeout \/ StartToClose
  BY <1>1, RetryQuiet, QuietKeeps DEF HeartbeatTimeout, StartToClose, world
<1>2. CASE RunTimeout
  BY <1>2, QuietKeeps DEF RunTimeout, Quiet, world
<1>3. ASSUME NEW a \in Attempt, Cut(a) \/ Heal(a) \/ Hang(a) \/ Cancel(a) PROVE RunInv'
  BY <1>3, QuietKeeps DEF Cut, Heal, Hang, Cancel, Quiet, server, world
<1>4. ASSUME NEW a \in Attempt, ImportFails(a) PROVE RunInv'
  BY <1>4, QuietKeeps DEF ImportFails, Quiet, Holding, TypeOK, server, world
<1>5. ASSUME NEW a \in Attempt, LockRefused(a) \/ Killed(a) PROVE RunInv'
  BY <1>5, ExitQuiet, QuietKeeps DEF LockRefused, Killed, world
<1>6. ASSUME NEW a \in Attempt, Fails(a) \/ Unwind(a) PROVE RunInv'
  BY <1>6, WriteBackKeeps DEF Fails, Unwind, Inside
<1>7. ASSUME NEW a \in Attempt, Import(a) PROVE RunInv'
  <2>1. Quiet /\ UNCHANGED <<mem, ns, ids>>
    BY <1>7 DEF Import, Quiet, Holding, TypeOK, server
  <2>2. CASE rec' = rec
    BY <2>1, <2>2, QuietKeeps
  <2>3. CASE rec.ns = "absent" /\ lock = None /\ rec' = [rec EXCEPT !.ns = ns]
    <3>1. \A b \in Attempt : phase'[b] \notin Holding \cup {"conflict"}
      BY <2>1, <2>3 DEF LockHeld, Quiet, Attempt, None
    <3>2. rec'.id = rec.id /\ ~Settled
      BY <2>3 DEF Settled, TypeOK, Record
    <3> QED
      BY <2>1, <3>1, <3>2
         DEF RunInv, RecInv, Memory, Alive, OutputInv, ResultInv, Settled, Quiet, Holding
  <2> QED BY <1>7, <2>2, <2>3 DEF Import
<1>8. ASSUME NEW a \in Attempt, Plan(a) PROVE RunInv'
  <2>1. /\ lock = None /\ phase' = [phase EXCEPT ![a] = "namespace"]
        /\ mem' = [mem EXCEPT ![a] = Refreshed]
        /\ UNCHANGED <<outcome, result, ns, ids, rec>>
    BY <1>8, Locking DEF Plan, server, world
  <2>2. \A b \in Attempt : b # a => phase'[b] \notin Holding \cup {"conflict"}
    BY <2>1 DEF LockHeld, Attempt, None, TypeOK
  <2>3. phase'[a] = "namespace" /\ mem'[a] = Refreshed /\ Refreshed' = Refreshed /\ Alive' = Alive
    BY <2>1 DEF TypeOK, Refreshed, Alive
  <2>4. \A b \in Attempt : Memory(b)'
    BY <2>1, <2>2, <2>3 DEF Memory, Holding, Refreshed
  <2>5. \A b \in Attempt : phase'[b] = "output" => phase[b] = "output"
    BY <2>1 DEF TypeOK
  <2> QED BY <2>1, <2>4, <2>5 DEF RunInv, RecInv, OutputInv, ResultInv, Settled
<1>9. ASSUME NEW a \in Attempt, WriteNamespace(a) PROVE RunInv'
  <2>1. /\ phase[a] = "namespace" /\ phase'[a] \in {"identity", "conflict"}
        /\ \A b \in Attempt : b # a => phase'[b] = phase[b]
        /\ UNCHANGED <<outcome, result, ids, rec>>
    BY <1>9 DEF WriteNamespace, server, TypeOK
  <2>2. \A b \in Attempt : b # a => phase'[b] \notin Holding \cup {"conflict"}
    BY <2>1, Alone DEF Inside, Holding
  <2>3. Memory(a)' /\ (Settled => Settled')
    <3>1. Memory(a) /\ Alive' = Alive
      BY <2>1 DEF RunInv, Alive
    <3> QED BY <1>9, <2>1, <3>1 DEF WriteNamespace, Memory, Refreshed, Settled, TypeOK, Record
  <2>4. \A b \in Attempt : Memory(b)'
    BY <2>2, <2>3 DEF Memory, Holding
  <2> QED BY <2>1, <2>3, <2>4 DEF RunInv, RecInv, OutputInv, ResultInv
<1>10. ASSUME NEW a \in Attempt, WriteIdentity(a) PROVE RunInv'
  <2>1. /\ phase[a] = "identity" /\ phase'[a] = "persist"
        /\ \A b \in Attempt : b # a => phase'[b] = phase[b]
        /\ UNCHANGED <<outcome, result, ns, rec>> /\ ids \subseteq ids'
    BY <1>10 DEF WriteIdentity, server, TypeOK
  <2>2. \A b \in Attempt : b # a => phase'[b] \notin Holding \cup {"conflict"}
    BY <2>1, Alone DEF Inside, Holding
  <2>3. Memory(a)'
    <3>1. /\ Memory(a) /\ rec.id \in ids \cup {None, Earlier}
          /\ Earlier # a /\ None # a /\ None \notin ids
      BY AttemptsAssumption DEF RunInv, RecInv, TypeOK, Earlier, None, Attempt, Identity
    <3>2. CASE mem[a].id = None
      <4>1. Alive = None /\ ids' = ids \cup {a} /\ mem' = [mem EXCEPT ![a].id = a]
        BY <1>10, <2>1, <3>1, <3>2 DEF WriteIdentity, Memory
      <4>2. rec.id \notin ids' \/ rec.id = None
        BY <3>1, <4>1 DEF Alive
      <4> QED BY <2>1, <3>1, <4>1, <4>2 DEF Memory, Alive, TypeOK, Record
    <3>3. CASE mem[a].id # None
      BY <1>10, <2>1, <3>1, <3>3 DEF WriteIdentity, Memory, Alive, TypeOK
    <3> QED BY <3>2, <3>3
  <2>4. \A b \in Attempt : Memory(b)'
    BY <2>2, <2>3 DEF Memory, Holding
  <2> QED BY <2>1, <2>4 DEF RunInv, RecInv, OutputInv, ResultInv, Settled
<1>11. ASSUME NEW a \in Attempt, Persist(a) PROVE RunInv'
  <2>1. /\ phase[a] = "persist" /\ phase'[a] = "output" /\ rec' = mem[a]
        /\ \A b \in Attempt : b # a => phase'[b] = phase[b]
        /\ UNCHANGED <<outcome, result, ns, ids>>
    BY <1>11 DEF Persist, server, TypeOK
  <2>2. \A b \in Attempt : Memory(b)'
    <3>1. \A b \in Attempt : phase'[b] \notin Holding \cup {"conflict"}
      BY <2>1, Alone DEF Inside, Holding
    <3> QED BY <3>1 DEF Memory, Holding
  <2>3. Settled'
    BY <2>1 DEF RunInv, Memory, Settled
  <2>4. outcome = "ok" => rec'.id = rec.id
    BY <2>1, MemoryIsSafe DEF Inside, Holding, RunInv, OutputInv, Settled
  <2> QED BY <2>1, <2>2, <2>3, <2>4 DEF RunInv, RecInv, OutputInv, ResultInv, Settled
<1>12. ASSUME NEW a \in Attempt, Output(a) PROVE RunInv'
  <2>1. Settled /\ UNCHANGED <<mem, ns, ids, rec>>
    BY <1>12 DEF Output, RunInv, OutputInv, world
  <2>2. Complete(a)
    BY <1>12, <2>1, AttemptsAssumption
       DEF Output, Settled, TypeOK, Identity, Attempt, Earlier, None
  <2>3. /\ \A b \in Attempt : phase'[b] # phase[b] => phase'[b] = "gone"
        /\ ResultInv'
    BY <2>1, <2>2 DEF Complete, TypeOK, RunInv, ResultInv, server
  <2>4. \A b \in Attempt : Memory(b)'
    BY <2>1, <2>3 DEF RunInv, Memory, Refreshed, Alive
  <2> QED BY <2>1, <2>3, <2>4 DEF RunInv, RecInv, OutputInv, Settled
<1>13. CASE UNCHANGED vars
  BY <1>13, QuietKeeps DEF Quiet, vars, server, world
<1> QED BY <1>1, <1>2, <1>3, <1>4, <1>5, <1>6, <1>7, <1>8, <1>9, <1>10, <1>11, <1>12, <1>13
        DEF Next, Progress, Notice, Deadline

\* The types, the lock and what may be written hold together in every reachable state.
LEMMA LockedInvariant ==
  ASSUME Locking
  PROVE  Spec => [](TypeOK /\ LockHeld /\ RunInv)
<1>1. Init => TypeOK /\ LockHeld /\ RunInv
  BY TypeInit DEF Init, LockHeld, Holding, RunInv, RecInv, Memory, OutputInv, ResultInv
<1>2. TypeOK /\ LockHeld /\ RunInv /\ [Next]_vars => (TypeOK /\ LockHeld /\ RunInv)'
  BY TypeNext, LockHeldNext, RunInvNext, Locking
<1> QED BY <1>1, <1>2, PTL DEF Spec

\* Once the activity has succeeded, the namespace is as wanted, the state file knows it, and
\* the identity it returned exists and is the state file's -- for good, whatever the attempts
\* the server has given up are still doing.
THEOREM ResultIsReal ==
  ASSUME Locking
  PROVE  Spec => []ResultHolds
<1>1. RunInv => ResultHolds
  BY DEF RunInv, OutputInv, ResultInv, Settled, ResultHolds
<1> QED BY <1>1, LockedInvariant, PTL

-----------------------------------------------------------------------------
(***************************************************************************)
(* As long as no two processes overlapped there is one attempt at a time,  *)
(* and its import has told the state file of the namespace, or has failed. *)
(* This needs no lock: nobody else is there.                               *)
(***************************************************************************)

\* The current attempt is the only one alive; nobody stops it while the activity runs, and
\* the state lock is its own or free.
Only ==
  /\ \A b \in Attempt : b # attempt => ~Running(b)
  /\ \A b \in Attempt : b > attempt => beat[b] /\ ~hung[b] /\ ~stopping[b]
  /\ outcome = "running" => ~stopping[attempt]
  /\ lock # None => lock = attempt /\ phase[attempt] \in Holding \cup {"conflict"}

\* An import of this attempt failed, after everything the earlier attempts have cost.
ImportFailed == faults >= 1 /\ faults + cuts >= attempt

\* After the import, the state file and the Cloud have a namespace or neither has, unless the
\* import failed.
Imported ==
  /\ phase[attempt] = "plan" => (rec.ns = "absent" => ns = "absent") \/ ImportFailed
  /\ phase[attempt] = "namespace" => ((mem[attempt].ns = "absent") = (ns = "absent")) \/ ImportFailed
  /\ phase[attempt] = "conflict" => ImportFailed
  /\ phase[attempt] = "persist" => mem[attempt].id # None
  /\ phase[attempt] = "output" => rec.id # None

\* The current attempt is cut off or hangs.
Suspect == ~beat[attempt] \/ hung[attempt]

\* Every attempt before this one has cost a failure or a cut, and so has this one if it is cut
\* off or hangs.
Paid == attempt <= faults + cuts + 1 /\ (Suspect => attempt <= faults + cuts)

\* Without cuts nothing was ever cut off.
Uncut ==
  /\ ~overlap
  /\ \A b \in Attempt : beat[b] /\ ~hung[b] /\ ~stopping[b]
  /\ outcome = "running" <=> Running(attempt)
  /\ outcome = "failed" => faults >= MaxAttempts

CalmInv == (~overlap => Only /\ Imported /\ Paid) /\ (cuts = 0 => Uncut)

\* The server hears of the end of the attempt it waits for, which has cost something.
Costly == attempt <= faults' + cuts'

LEMMA Growing ==
  \A k, f, c, g, d \in Nat :
    g >= f /\ d >= c =>
      /\ f >= 1 => g >= 1
      /\ f + c >= k => g + d >= k
      /\ k <= f + c => k <= g + d
      /\ k <= f + c + 1 => k <= g + d + 1
      /\ k <= g + d => k <= g + d + 1 /\ k + 1 <= g + d + 1
      /\ k <= f + c + 1 /\ d >= c + 1 => k <= g + d
  OBVIOUS

\* What has been paid for stays so.
LEMMA PaidStays ==
  ASSUME attempt \in Nat, faults \in Nat, cuts \in Nat, faults' \in Nat, cuts' \in Nat,
         attempt' = attempt, faults' >= faults, cuts' >= cuts
  PROVE  /\ ImportFailed => ImportFailed'
         /\ Paid /\ (Suspect' => Suspect) => Paid'
         /\ Paid /\ cuts' >= cuts + 1 => Paid'
         /\ Costly => Paid'
<1>1. /\ faults >= 1 => faults' >= 1
      /\ faults + cuts >= attempt => faults' + cuts' >= attempt
      /\ attempt <= faults + cuts => attempt <= faults' + cuts'
      /\ attempt <= faults + cuts + 1 => attempt <= faults' + cuts' + 1
      /\ attempt <= faults' + cuts' => attempt <= faults' + cuts' + 1
      /\ attempt <= faults + cuts + 1 /\ cuts' >= cuts + 1 => attempt <= faults' + cuts'
  BY Growing
<1> QED BY <1>1, Zenon DEF ImportFailed, Paid, Costly

\* A retry after an attempt that has cost something, with no process left or with an overlap,
\* starts from where the first attempt started.
LEMMA RetryCalm ==
  ASSUME TypeOK, Only, Imported, Paid, Costly, NEW gone \in SUBSET {attempt}, Retry(gone),
         UNCHANGED <<beat, hung, mem, ns>>, rec' = rec \/ attempt \in gone,
         \A b \in Attempt : b # attempt => stopping'[b] = stopping[b],
         lock' = (IF lock \in gone THEN None ELSE lock),
         faults' \in Nat, cuts' \in Nat, faults' >= faults, cuts' >= cuts, ~overlap'
  PROVE  Only' /\ Imported' /\ Paid'
<1> USE DEF TypeOK
<1>0. /\ attempt \in Nat /\ MaxAttempts \in Nat /\ attempt <= MaxAttempts /\ attempt \in Attempt
      /\ faults \in Nat /\ cuts \in Nat
  BY AttemptsAssumption, RunBoundAssumption DEF Attempt
<1>1. CASE attempt < MaxAttempts
  <2>1. /\ attempt' = attempt + 1 /\ attempt + 1 \in Attempt /\ attempt + 1 # attempt
        /\ phase'[attempt + 1] = "import"
        /\ \A b \in Attempt : b # attempt + 1 => phase'[b] = phase[b] \/ phase'[b] = "gone"
        /\ \A b \in Attempt : b \in gone => phase'[b] = "gone"
    BY <1>0, <1>1, AttemptsAssumption DEF Retry, Attempt
  <2>2. \A b \in Attempt \ gone : ~Running(b)
    BY <1>1 DEF Retry
  <2>3. ~Running(attempt) \/ attempt \in gone
    BY <2>2
  <2>4. \A b \in Attempt : b # attempt' => ~Running(b)'
    BY <1>0, <2>1, <2>3 DEF Only, Running
  <2>5. \A b \in Attempt : b > attempt' \/ b = attempt' => beat'[b] /\ ~hung'[b] /\ ~stopping'[b]
    <3> SUFFICES ASSUME NEW b \in Attempt, b > attempt' \/ b = attempt'
                 PROVE  beat'[b] /\ ~hung'[b] /\ ~stopping'[b]
      OBVIOUS
    <3>1. b > attempt /\ b # attempt
      BY <1>0, <2>1 DEF Attempt
    <3> QED BY <1>0, <3>1 DEF Only
  <2>6. lock' = None
    BY <1>0, <2>3 DEF Only, Holding, Running
  <2>7. Paid'
    <3>1. ~Suspect'
      BY <2>1, <2>5 DEF Suspect
    <3>2. attempt' <= faults' + cuts' + 1
      <4>1. attempt + 1 <= faults' + cuts' + 1
        BY <1>0, Growing DEF Costly
      <4> QED BY <2>1, <4>1
    <3> QED BY <3>1, <3>2 DEF Paid
  <2> QED BY <2>1, <2>4, <2>5, <2>6, <2>7 DEF Only, Imported
<1>2. CASE attempt = MaxAttempts
  <2>1. /\ attempt' = attempt /\ outcome' = "failed"
        /\ \A b \in Attempt : phase'[b] = IF b \in gone THEN "gone" ELSE phase[b]
    BY <1>0, <1>2 DEF Retry, Attempt
  <2>2. Only'
    BY <1>0, <2>1, AttemptsAssumption DEF Only, Running, Attempt, None
  <2>3. (ImportFailed => ImportFailed') /\ Paid'
    BY <1>0, <2>1, PaidStays
  <2>4. Imported'
    BY <1>0, <2>1, <2>3 DEF Imported
  <2> QED BY <2>2, <2>3, <2>4
<1> QED BY <1>0, <1>1, <1>2

\* The end of an attempt the server does not hear of.
LEMMA UnheardCalm ==
  ASSUME TypeOK, Only, Imported, Paid, phase' = [phase EXCEPT ![attempt] = "gone"],
         UNCHANGED <<server, beat, hung, stopping, mem>>,
         lock' = (IF lock = attempt THEN None ELSE lock),
         faults' \in Nat, cuts' \in Nat, faults' >= faults, cuts' >= cuts
  PROVE  Only' /\ Imported' /\ Paid'
<1>0. attempt \in Attempt /\ attempt \in Nat /\ faults \in Nat /\ cuts \in Nat /\ attempt' = attempt
  BY AttemptsAssumption, RunBoundAssumption DEF TypeOK, Attempt, server
<1>1. Only'
  BY <1>0 DEF Only, Running, TypeOK, server
<1>2. Imported'
  BY <1>0 DEF Imported, TypeOK
<1>3. Suspect' => Suspect
  BY <1>0 DEF Suspect
<1>4. Paid'
  BY <1>0, <1>3, PaidStays
<1> QED BY <1>1, <1>2, <1>4

\* An overlap is not forgotten.
LEMMA OverlapStays ==
  ASSUME TypeOK, [Next]_vars, overlap
  PROVE  overlap'
<1>1. \A gone : Retry(gone) => overlap'
  BY DEF Retry, TypeOK
<1>2. \A a \in Attempt : Exit(a) \/ Complete(a) => overlap'
  BY <1>1 DEF Exit, Complete, server
<1> QED
  BY <1>1, <1>2
     DEF Next, Progress, Notice, Deadline, HeartbeatTimeout, StartToClose, RunTimeout, Cut, Heal, Hang,
         Cancel, Import, ImportFails, Plan, LockRefused, WriteNamespace, WriteIdentity, Persist,
         Output, Fails, Unwind, Killed, vars, server

\* As long as no two processes overlap, every step keeps what the import and the costs say.
LEMMA AloneNext ==
  ASSUME TypeOK, CalmInv, [Next]_vars, ~overlap'
  PROVE  Only' /\ Imported' /\ Paid'
<1> DEFINE G == Only' /\ Imported' /\ Paid'
<1>0. /\ attempt \in Attempt /\ attempt \in Nat /\ attempt # 0
      /\ faults \in Nat /\ cuts \in Nat /\ Only /\ Imported /\ Paid
  BY OverlapStays, AttemptsAssumption, RunBoundAssumption DEF TypeOK, CalmInv, Attempt
<1>1. CASE HeartbeatTimeout
  <2>1. Costly
    <3>1. Suspect
      BY <1>1 DEF HeartbeatTimeout, Suspect
    <3> QED BY <1>0, <1>1, <3>1 DEF Costly, Paid, HeartbeatTimeout
  <2> QED BY <1>0, <1>1, <2>1, RetryCalm DEF HeartbeatTimeout, worker, world
<1>2. CASE StartToClose
  <2>1. Costly /\ cuts' \in Nat /\ cuts' >= cuts
    <3>1. (Suspect /\ cuts' = cuts) \/ cuts' = cuts + 1
      BY <1>2 DEF StartToClose, Suspect, Cutting
    <3> QED BY <1>0, <1>2, <3>1 DEF Costly, Paid, StartToClose
  <2>2. \A b \in Attempt : b # attempt => stopping'[b] = stopping[b]
    BY <1>2 DEF StartToClose, TypeOK
  <2> QED BY <1>0, <1>2, <2>1, <2>2, RetryCalm DEF StartToClose, world
<1>3. CASE RunTimeout
  <2>1. cuts' = cuts + 1 /\ outcome' = "failed"
        /\ UNCHANGED <<attempt, phase, beat, hung, stopping, mem, ns, rec, lock, faults>>
    BY <1>3 DEF RunTimeout, Cutting, worker, world
  <2>2. (ImportFailed => ImportFailed') /\ Paid'
    BY <1>0, <2>1, PaidStays
  <2>3. Only'
    BY <1>0, <2>1 DEF Only, Running
  <2> QED BY <1>0, <2>1, <2>2, <2>3 DEF Imported
<1>4. ASSUME NEW a \in Attempt, Cut(a) \/ Heal(a) \/ Hang(a) \/ Cancel(a) PROVE G
  <2>1. /\ a = attempt /\ cuts' \in Nat /\ cuts' >= cuts
        /\ UNCHANGED <<outcome, attempt, phase, mem, ns, rec, lock, faults>>
        /\ \A b \in Attempt : b # a => beat'[b] = beat[b] /\ hung'[b] = hung[b] /\ stopping'[b] = stopping[b]
    BY <1>0, <1>4 DEF Cut, Heal, Hang, Cancel, Cutting, Only, TypeOK, server, world
  <2>2. outcome = "running" => stopping'[attempt] = stopping[attempt]
    BY <1>4, <2>1 DEF Cut, Heal, Hang, Cancel
  <2>3. Only'
    <3>1. \A b \in Attempt : b > attempt => b # a
      BY <1>0, <2>1 DEF Attempt
    <3>2. \A b \in Attempt : b > attempt => beat'[b] /\ ~hung'[b] /\ ~stopping'[b]
      BY <1>0, <2>1, <3>1, Zenon DEF Only
    <3> QED BY <1>0, <2>1, <2>2, <3>2, Zenon DEF Only, Running
  <2>4. Imported'
    <3>1. ImportFailed => ImportFailed'
      BY <1>0, <2>1, PaidStays
    <3> QED BY <1>0, <2>1, <3>1 DEF Imported
  <2>5. Paid'
    <3>1. CASE Cut(a) \/ Hang(a)
      <4>1. cuts' >= cuts + 1 /\ faults' = faults
        BY <1>0, <2>1, <3>1 DEF Cut, Hang, Cutting
      <4> QED BY <1>0, <2>1, <4>1, PaidStays
    <3>2. CASE Heal(a) \/ Cancel(a)
      <4>1. Suspect' => Suspect
        BY <1>0, <2>1, <3>2, Zenon DEF Heal, Cancel, Suspect, TypeOK
      <4> QED BY <1>0, <2>1, <4>1, PaidStays
    <3> QED BY <1>4, <3>1, <3>2
  <2> QED BY <2>3, <2>4, <2>5
<1>5. ASSUME NEW a \in Attempt, Running(a) PROVE a = attempt
  BY <1>0, <1>5 DEF Only
\* A terraform that goes on.
<1>6. ASSUME Running(attempt), \A b \in Attempt : b # attempt => phase'[b] = phase[b],
             UNCHANGED <<outcome, attempt, beat, hung, stopping, cuts>>,
             faults' \in Nat, faults' >= faults,
             lock' # None => lock' = attempt /\ phase'[attempt] \in Holding \cup {"conflict"}
      PROVE  Only' /\ Paid'
  <2>1. Only'
    BY <1>0, <1>6 DEF Only, Running
  <2>2. Suspect' => Suspect
    BY <1>6 DEF Suspect
  <2>3. Paid'
    BY <1>0, <1>6, <2>2, PaidStays
  <2> QED BY <2>1, <2>3
<1>7. ASSUME NEW a \in Attempt, Import(a) PROVE G
  <2>1. a = attempt /\ Running(attempt) /\ lock = None
    BY <1>0, <1>5, <1>7 DEF Import, Only, Running, Holding
  <2>2. /\ phase' = [phase EXCEPT ![attempt] = "plan"]
        /\ UNCHANGED <<outcome, attempt, beat, hung, stopping, cuts, faults, lock>>
    BY <1>7, <2>1 DEF Import, server, worker
  <2>3. Only' /\ Paid'
    BY <1>0, <1>6, <2>1, <2>2 DEF TypeOK, Holding
  <2>4. Imported'
    BY <1>0, <1>7, <2>1, <2>2 DEF Import, Imported, TypeOK, Record
  <2> QED BY <2>3, <2>4
<1>8. ASSUME NEW a \in Attempt, ImportFails(a) PROVE G
  <2>1. a = attempt /\ Running(attempt) /\ lock = None
    BY <1>0, <1>5, <1>8 DEF ImportFails, Only, Running, Holding
  <2>2. /\ phase' = [phase EXCEPT ![attempt] = "plan"] /\ faults' = faults + 1
        /\ UNCHANGED <<outcome, attempt, beat, hung, stopping, cuts, lock>>
    BY <1>8, <2>1 DEF ImportFails, Fault, server, worker
  <2>3. Only' /\ Paid'
    BY <1>0, <1>6, <2>1, <2>2 DEF TypeOK, Holding
  <2>4. ImportFailed'
    BY <1>0, <2>2 DEF ImportFailed, Paid
  <2>5. Imported'
    BY <1>0, <2>2, <2>4 DEF Imported, TypeOK
  <2> QED BY <2>3, <2>5
<1>9. ASSUME NEW a \in Attempt, Plan(a) PROVE G
  <2>1. a = attempt /\ Running(attempt) /\ lock = None
    BY <1>0, <1>5, <1>9 DEF Plan, Only, Running, Holding
  <2>2. /\ phase[attempt] = "plan" /\ phase' = [phase EXCEPT ![attempt] = "namespace"]
        /\ mem' = [mem EXCEPT ![attempt] = Refreshed] /\ lock' \in {None, attempt}
        /\ UNCHANGED <<outcome, attempt, beat, hung, stopping, cuts, faults, ns>>
    BY <1>9, <2>1 DEF Plan, server, worker, world
  <2>3. Only' /\ Paid'
    BY <1>0, <1>6, <2>1, <2>2 DEF TypeOK, Holding
  <2>4. Imported'
    BY <1>0, <2>2 DEF Imported, ImportFailed, Refreshed, TypeOK
  <2> QED BY <2>3, <2>4
<1>10. ASSUME NEW a \in Attempt, WriteNamespace(a) PROVE G
  <2>1. a = attempt /\ Running(attempt) /\ phase[attempt] = "namespace"
    BY <1>5, <1>10 DEF WriteNamespace, Running
  <2>2. PICK p \in {"identity", "conflict"} :
          /\ phase' = [phase EXCEPT ![attempt] = p]
          /\ p = "conflict" => (mem[attempt].ns = "absent") # (ns = "absent")
    BY <1>10, <2>1 DEF WriteNamespace
  <2>3. UNCHANGED <<outcome, attempt, beat, hung, stopping, cuts, faults, lock>>
    BY <1>10 DEF WriteNamespace, server, worker
  <2>4. Only' /\ Paid'
    <3>1. lock' # None => lock' = attempt
      BY <1>0, <2>3 DEF Only
    <3>2. phase'[attempt] \in Holding \cup {"conflict"} /\ \A b \in Attempt : b # attempt => phase'[b] = phase[b]
      BY <1>0, <2>2 DEF TypeOK, Holding
    <3> QED BY <1>0, <1>6, <2>1, <2>3, <3>1, <3>2
  <2>5. Imported'
    BY <1>0, <2>1, <2>2, <2>3 DEF Imported, ImportFailed, TypeOK
  <2> QED BY <2>4, <2>5
<1>11. ASSUME NEW a \in Attempt, WriteIdentity(a) PROVE G
  <2>1. a = attempt /\ Running(attempt) /\ phase[attempt] = "identity"
    BY <1>5, <1>11 DEF WriteIdentity, Running
  <2>2. /\ phase' = [phase EXCEPT ![attempt] = "persist"]
        /\ UNCHANGED <<outcome, attempt, beat, hung, stopping, cuts, faults, lock>>
    BY <1>11, <2>1 DEF WriteIdentity, server, worker
  <2>3. Only' /\ Paid'
    <3>1. lock' # None => lock' = attempt
      BY <1>0, <2>2 DEF Only
    <3> QED BY <1>0, <1>6, <2>1, <2>2, <3>1 DEF TypeOK, Holding
  <2>4. mem'[attempt].id # None
    <3>1. mem[attempt] \in Record
      BY <1>0 DEF TypeOK
    <3>2. CASE mem[attempt].id = None
      <4>1. mem' = [mem EXCEPT ![attempt].id = attempt]
        BY <1>11, <2>1, <3>2 DEF WriteIdentity
      <4>2. mem'[attempt].id = attempt
        BY <1>0, <3>1, <4>1 DEF TypeOK, Record
      <4> QED BY <1>0, <4>2 DEF None
    <3>3. CASE mem[attempt].id # None
      BY <1>11, <2>1, <3>3 DEF WriteIdentity
    <3> QED BY <3>2, <3>3
  <2>5. Imported'
    BY <1>0, <2>2, <2>4 DEF Imported, TypeOK
  <2> QED BY <2>3, <2>5
<1>12. ASSUME NEW a \in Attempt, Persist(a) PROVE G
  <2>1. a = attempt /\ Running(attempt) /\ phase[attempt] = "persist"
    BY <1>5, <1>12 DEF Persist, Running
  <2>2. /\ phase' = [phase EXCEPT ![attempt] = "output"] /\ rec' = mem[attempt] /\ lock' = None
        /\ UNCHANGED <<outcome, attempt, beat, hung, stopping, cuts, faults>>
    BY <1>0, <1>12, <2>1 DEF Persist, Only, server, worker
  <2>3. Only' /\ Paid'
    BY <1>0, <1>6, <2>1, <2>2 DEF TypeOK, Holding
  <2>4. Imported'
    BY <1>0, <2>1, <2>2 DEF Imported, TypeOK
  <2> QED BY <2>3, <2>4
<1>13. ASSUME NEW a \in Attempt, Output(a) PROVE G
  <2>1. a = attempt /\ Running(attempt) /\ phase[attempt] = "output" /\ Complete(attempt) /\ lock = None
    BY <1>0, <1>5, <1>13 DEF Output, Imported, Only, Running, Holding
  <2>2. /\ phase' = [phase EXCEPT ![attempt] = "gone"] /\ outcome' \in {outcome, "ok"} /\ lock' = None
        /\ UNCHANGED <<attempt, beat, hung, stopping, mem, faults, cuts>>
    BY <1>13, <2>1 DEF Output, Complete, server, worker
  <2>3. Only'
    BY <1>0, <2>2 DEF Only, Running, TypeOK
  <2>4. Imported'
    BY <1>0, <2>2 DEF Imported, TypeOK
  <2>5. Paid'
    <3>1. Suspect' => Suspect
      BY <2>2 DEF Suspect
    <3> QED BY <1>0, <2>2, <3>1, PaidStays
  <2> QED BY <2>3, <2>4, <2>5
<1>14. ASSUME NEW a \in Attempt, LockRefused(a) PROVE FALSE
  <2>1. a = attempt /\ phase[a] = "plan" /\ lock # None
    BY <1>5, <1>14 DEF LockRefused, Running
  <2> QED BY <1>0, <2>1 DEF Only, Holding
<1>15. ASSUME NEW a \in Attempt, Unwind(a) \/ Killed(a) PROVE G
  <2>1. a = attempt /\ (stopping[a] \/ ~beat[a]) /\ Exit(a)
    BY <1>5, <1>15 DEF Unwind, Killed
  <2>2. ~(beat[a] /\ outcome = "running")
    BY <1>0, <2>1 DEF Only
  <2>3. UNCHANGED <<beat, hung, stopping, mem, faults, cuts>>
    BY <1>15 DEF Unwind, Killed, worker
  <2> QED BY <1>0, <2>1, <2>2, <2>3, UnheardCalm DEF Exit
<1>16. ASSUME NEW a \in Attempt, Fails(a) PROVE G
  <2>1. a = attempt /\ Exit(attempt) /\ UNCHANGED <<beat, hung, stopping, mem, ns, cuts>>
    BY <1>5, <1>16 DEF Fails, worker
  <2>2. faults' \in Nat /\ faults' >= faults /\ Costly
    BY <1>0, <1>16, <2>1 DEF Fails, Fault, Costly, Paid, Imported, ImportFailed
  <2>3. CASE beat[attempt] /\ outcome = "running"
    <3>1. Retry({attempt}) /\ lock' = (IF lock \in {attempt} THEN None ELSE lock)
      BY <2>1, <2>3 DEF Exit
    <3> QED BY <1>0, <2>1, <2>2, <3>1, RetryCalm
  <2>4. CASE ~(beat[attempt] /\ outcome = "running")
    <3>1. /\ phase' = [phase EXCEPT ![attempt] = "gone"] /\ UNCHANGED server
          /\ lock' = IF lock = attempt THEN None ELSE lock
      BY <2>1, <2>4 DEF Exit
    <3> QED BY <1>0, <2>1, <2>2, <3>1, UnheardCalm
  <2> QED BY <2>3, <2>4
<1>17. CASE UNCHANGED vars
  BY <1>0, <1>17 DEF Only, Imported, ImportFailed, Paid, Suspect, Running, vars, server, worker, world
<1> QED
  BY <1>1, <1>2, <1>3, <1>4, <1>7, <1>8, <1>9, <1>10, <1>11, <1>12, <1>13, <1>14, <1>15, <1>16, <1>17
     DEF Next, Progress, Notice, Deadline

\* As long as nothing is cut off, every step is one of the current attempt's terraform, and the
\* server hears of its end.
LEMMA UncutNext ==
  ASSUME TypeOK, CalmInv, [Next]_vars, cuts' = 0
  PROVE  Uncut'
<1>1. cuts = 0
  <2>1. Cutting => cuts' # 0
    BY RunBoundAssumption DEF TypeOK, Cutting
  <2>2. Next => UNCHANGED cuts \/ Cutting
    BY DEF Next, Progress, Notice, Deadline, HeartbeatTimeout, StartToClose, RunTimeout, Cut, Heal,
           Hang, Cancel, Import, ImportFails, Plan, LockRefused, WriteNamespace, WriteIdentity,
           Persist, Output, Fails, Unwind, Killed
  <2> QED BY <2>1, <2>2 DEF vars
<1>2. /\ Uncut /\ Only /\ Imported /\ Paid /\ ~Cutting
      /\ attempt \in Attempt /\ attempt \in Nat /\ faults \in Nat
  BY <1>1, AttemptsAssumption, RunBoundAssumption DEF TypeOK, CalmInv, Uncut, Cutting, Attempt
<1>3. ASSUME NEW a \in Attempt, Running(a)
      PROVE  a = attempt /\ outcome = "running" /\ beat[a] /\ ~hung[a] /\ ~stopping[a]
  BY <1>2, <1>3 DEF Only, Uncut
<1>4. CASE HeartbeatTimeout \/ StartToClose \/ RunTimeout
  BY <1>2, <1>4 DEF HeartbeatTimeout, StartToClose, RunTimeout, Uncut
<1>5. ASSUME NEW a \in Attempt,
             Cut(a) \/ Heal(a) \/ Hang(a) \/ Cancel(a) \/ LockRefused(a) \/ Unwind(a) \/ Killed(a)
      PROVE  FALSE
  BY <1>2, <1>3, <1>5
     DEF Cut, Heal, Hang, Cancel, LockRefused, Unwind, Killed, Running, Only, Holding
<1>6. ASSUME NEW a \in Attempt,
             Import(a) \/ ImportFails(a) \/ Plan(a) \/ WriteNamespace(a) \/ WriteIdentity(a) \/ Persist(a)
      PROVE  Uncut'
  <2>1. /\ a = attempt /\ outcome = "running"
        /\ \E p \in Phases \ {"none", "gone"} : phase' = [phase EXCEPT ![attempt] = p]
    BY <1>3, <1>6
       DEF Import, ImportFails, Plan, WriteNamespace, WriteIdentity, Persist, Running, Phases, Holding
  <2>2. UNCHANGED <<outcome, attempt, overlap, beat, hung, stopping>>
    BY <1>6 DEF Import, ImportFails, Plan, WriteNamespace, WriteIdentity, Persist, server, worker
  <2> QED BY <1>2, <2>1, <2>2 DEF Uncut, Running, TypeOK
<1>7. ASSUME NEW a \in Attempt, Output(a) PROVE Uncut'
  <2>1. a = attempt /\ outcome = "running" /\ beat[a] /\ phase[a] = "output"
    BY <1>3, <1>7 DEF Output, Running
  <2>2. Complete(a) /\ UNCHANGED worker
    BY <1>2, <1>7, <2>1 DEF Output, Imported
  <2>3. outcome' = "ok" /\ phase' = [phase EXCEPT ![attempt] = "gone"]
        /\ UNCHANGED <<attempt, overlap, beat, hung, stopping>>
    BY <2>1, <2>2 DEF Complete, worker
  <2> QED BY <1>2, <2>3 DEF Uncut, Running, TypeOK
<1>8. ASSUME NEW a \in Attempt, Fails(a) PROVE Uncut'
  <2>1. /\ a = attempt /\ outcome = "running" /\ UNCHANGED <<beat, hung, stopping>>
        /\ Retry({attempt}) /\ faults' \in Nat /\ attempt <= faults'
    <3>1. a = attempt /\ outcome = "running" /\ beat[a]
      BY <1>3, <1>8 DEF Fails
    <3>2. Retry({attempt}) /\ UNCHANGED <<beat, hung, stopping>>
      BY <1>8, <3>1 DEF Fails, Exit, worker
    <3>3. (phase[attempt] = "conflict" /\ faults' = faults) \/ faults' = faults + 1
      BY <1>8, <3>1 DEF Fails, Fault
    <3>4. faults' \in Nat /\ attempt <= faults'
      BY <1>1, <1>2, <3>3 DEF Imported, ImportFailed, Paid
    <3> QED BY <3>1, <3>2, <3>4
  <2>2. ~overlap'
    BY <1>2, <2>1 DEF Retry, Uncut, Only
  <2>3. CASE attempt < MaxAttempts
    <3>1. attempt' = attempt + 1 /\ attempt + 1 \in Attempt /\ outcome' = "running"
          /\ phase'[attempt + 1] = "import"
      BY <1>2, <2>1, <2>3, AttemptsAssumption DEF Retry, Attempt
    <3> QED BY <1>2, <2>1, <2>2, <3>1 DEF Uncut, Running
  <2>4. CASE attempt = MaxAttempts
    <3>1. attempt' = attempt /\ outcome' = "failed" /\ phase'[attempt] = "gone" /\ faults' >= MaxAttempts
      BY <1>2, <2>1, <2>4, AttemptsAssumption DEF Retry
    <3> QED BY <1>2, <2>1, <2>2, <3>1 DEF Uncut, Running
  <2> QED BY <1>2, <2>3, <2>4, AttemptsAssumption DEF Attempt
<1>9. CASE UNCHANGED vars
  BY <1>2, <1>9 DEF Uncut, Running, vars, server, worker
<1> QED BY <1>4, <1>5, <1>6, <1>7, <1>8, <1>9 DEF Next, Progress, Notice, Deadline

LEMMA Calm == Spec => [](TypeOK /\ CalmInv)
<1>1. Init => TypeOK /\ CalmInv
  <2> SUFFICES ASSUME Init PROVE CalmInv
    BY TypeInit
  <2>1. 1 \in Attempt /\ attempt = 1 /\ phase[1] = "import"
    BY AttemptsAssumption DEF Init, Attempt
  <2>2. Only /\ Uncut
    BY <2>1 DEF Init, Only, Uncut, Running
  <2>3. Imported /\ Paid
    BY <2>1 DEF Init, Imported, Paid, Suspect
  <2> QED BY <2>2, <2>3 DEF CalmInv
<1>2. TypeOK /\ CalmInv /\ [Next]_vars => (TypeOK /\ CalmInv)'
  BY TypeNext, AloneNext, UncutNext DEF CalmInv
<1> QED BY <1>1, <1>2, PTL DEF Spec

\* As long as no two processes overlap, no attempt tries to create a namespace that exists unless
\* an import failed -- the import before the apply adopts what a terraform left behind that was
\* killed before it wrote its state -- and each retry has cost something.  Without cuts nothing
\* overlaps, and the activity gives up only after MaxAttempts failures.  With or without a lock.
THEOREM ImportAdopts == Spec => []NoWastedAttempt
<1>1. TypeOK /\ CalmInv => NoWastedAttempt
  <2> SUFFICES ASSUME TypeOK, CalmInv PROVE NoWastedAttempt
    OBVIOUS
  <2>1. ASSUME ~overlap
        PROVE  /\ \A a \in Attempt : phase[a] = "conflict" => faults >= 1 /\ faults + cuts >= a
               /\ attempt <= faults + cuts + 1
    <3>1. Only /\ Imported /\ Paid
      BY <2>1 DEF CalmInv
    <3> QED BY <3>1 DEF Only, Imported, ImportFailed, Paid, Running
  <2> QED BY <2>1 DEF CalmInv, Uncut, NoWastedAttempt
<1> QED BY <1>1, Calm, PTL

-----------------------------------------------------------------------------
(* What the progress of the activity rests on, whatever is cut off.        *)

\* The safety half of EverythingStops: the server never waits for nothing.  The attempt it
\* waits for has a process, or a worker it does not hear of, and then HeartbeatTimeout
\* fires.  And no lock outlives its process: whoever holds the state lock is between
\* reading and writing, so that a refusal is never for ever.
NothingWedges ==
  /\ outcome = "running" => Running(attempt) \/ ~beat[attempt]
  /\ lock # None => phase[lock] \in Holding \cup {"conflict"}

\* The attempts after the current one have not begun.
Later == \A b \in Attempt : b > attempt => phase[b] = "none"

\* Leaving the attempts in gone behind keeps both, if their locks go with them.
LEMMA RetryWedges ==
  ASSUME TypeOK, NothingWedges, Later, NEW gone \in SUBSET Attempt, Retry(gone), beat' = beat,
         \A b \in gone : b <= attempt,
         lock' # None => lock' = lock /\ lock' \notin gone
  PROVE  NothingWedges' /\ Later'
<1> USE AttemptsAssumption DEF TypeOK, Attempt, Holding, None
<1>1. outcome' = "running" => attempt' \in Attempt /\ phase'[attempt'] = "import"
  BY DEF Retry
<1>2. ASSUME lock' # None PROVE phase'[lock'] \in Holding \cup {"conflict"}
  <2>1. lock \in Attempt /\ phase[lock] \in Holding \cup {"conflict"} /\ lock \notin gone
    BY <1>2 DEF NothingWedges
  <2>2. lock # attempt + 1
    BY <2>1 DEF Later
  <2> QED BY <1>2, <2>1, <2>2 DEF Retry
<1>3. Later'
  BY DEF Later, Retry
<1> QED BY <1>1, <1>2, <1>3 DEF NothingWedges, Running

LEMMA ExitWedges ==
  ASSUME TypeOK, NothingWedges, Later, NEW a \in Attempt, Running(a), Exit(a), beat' = beat
  PROVE  NothingWedges' /\ Later'
<1>0. a <= attempt
  BY DEF Later, Running, TypeOK, Attempt
<1>1. CASE a = attempt /\ beat[a] /\ outcome = "running"
  <2>1. Retry({a}) /\ (lock' # None => lock' = lock /\ lock' # a)
    BY <1>1 DEF Exit
  <2> QED BY <1>0, <2>1, RetryWedges
<1>2. CASE ~(a = attempt /\ beat[a] /\ outcome = "running")
  <2>1. /\ phase' = [phase EXCEPT ![a] = "gone"] /\ UNCHANGED server
        /\ lock' # None => lock' = lock /\ lock' # a
    BY <1>2 DEF Exit
  <2>2. outcome' = "running" => Running(attempt)' \/ ~beat'[attempt']
    BY <1>2, <2>1 DEF NothingWedges, Running, TypeOK, server
  <2>3. lock' # None => phase'[lock'] \in Holding \cup {"conflict"}
    BY <2>1 DEF NothingWedges, TypeOK
  <2>4. Later'
    BY <1>0, <2>1 DEF Later, TypeOK, server, Attempt
  <2> QED BY <2>2, <2>3, <2>4 DEF NothingWedges
<1> QED BY <1>1, <1>2

LEMMA WedgesNext == TypeOK /\ NothingWedges /\ Later /\ [Next]_vars => NothingWedges' /\ Later'
<1> SUFFICES ASSUME TypeOK, NothingWedges, Later, [Next]_vars PROVE NothingWedges' /\ Later'
  OBVIOUS
<1> DEFINE G == NothingWedges' /\ Later'
\* A process that goes on: at most its own lock moves.
<1>1. ASSUME NEW a \in Attempt, Running(a), UNCHANGED <<server, beat>>,
             NEW p \in Phases \ {"none", "gone"}, phase' = [phase EXCEPT ![a] = p],
             lock' # None => (lock' = a /\ p \in Holding \cup {"conflict"}) \/ (lock' = lock /\ lock # a)
      PROVE  G
  <2>1. outcome' = "running" => Running(attempt)' \/ ~beat'[attempt']
    BY <1>1 DEF NothingWedges, Running, TypeOK, server
  <2>2. lock' # None => phase'[lock'] \in Holding \cup {"conflict"}
    BY <1>1 DEF NothingWedges, TypeOK
  <2>3. Later'
    BY <1>1 DEF Later, Running, TypeOK, server, Attempt
  <2> QED BY <2>1, <2>2, <2>3 DEF NothingWedges
<1>2. ASSUME NEW a \in Attempt, Import(a) \/ ImportFails(a) PROVE G
  <2>1. Running(a) /\ phase' = [phase EXCEPT ![a] = "plan"] /\ UNCHANGED <<server, beat, lock>> /\ lock # a
    BY <1>2 DEF Import, ImportFails, worker, NothingWedges, Running, Holding, None, Attempt
  <2> QED BY <1>1, <2>1 DEF Phases, Holding
<1>3. ASSUME NEW a \in Attempt, Plan(a) PROVE G
  <2>1. /\ Running(a) /\ phase' = [phase EXCEPT ![a] = "namespace"] /\ UNCHANGED <<server, beat>>
        /\ lock' = a \/ (lock' = lock /\ (lock # None => lock # a))
    BY <1>3 DEF Plan, worker, NothingWedges, Running, Holding
  <2> QED BY <1>1, <2>1 DEF Phases, Holding
<1>4. ASSUME NEW a \in Attempt, WriteNamespace(a) \/ WriteIdentity(a) PROVE G
  <2>1. PICK p \in Holding \cup {"conflict"} : phase' = [phase EXCEPT ![a] = p]
    BY <1>4 DEF WriteNamespace, WriteIdentity, Holding
  <2>2. Running(a) /\ UNCHANGED <<server, beat, lock>>
    BY <1>4 DEF WriteNamespace, WriteIdentity, worker, Running
  <2> QED BY <1>1, <2>1, <2>2 DEF Phases, Holding
<1>5. ASSUME NEW a \in Attempt, Persist(a) PROVE G
  BY <1>1, <1>5 DEF Persist, worker, Running, Phases
<1>6. ASSUME NEW a \in Attempt, phase[a] = "output", Complete(a), UNCHANGED beat PROVE G
  <2>1. lock # a \/ lock = None
    BY <1>6 DEF NothingWedges, Holding
  <2>2. lock' = lock /\ phase' = [phase EXCEPT ![a] = "gone"] /\ attempt' = attempt
    BY <1>6 DEF Complete, server
  <2>3. outcome' = "running" => outcome = "running" /\ (a # attempt \/ ~beat[attempt])
    BY <1>6 DEF Complete, server
  <2>4. a <= attempt
    BY <1>6 DEF Later, TypeOK, Attempt
  <2>5. outcome' = "running" => Running(attempt)' \/ ~beat'[attempt']
    BY <1>6, <2>2, <2>3 DEF NothingWedges, Running, TypeOK
  <2>6. lock' # None => phase'[lock'] \in Holding \cup {"conflict"}
    BY <2>1, <2>2 DEF NothingWedges, TypeOK
  <2>7. Later'
    BY <2>2, <2>4 DEF Later, TypeOK, Attempt
  <2> QED BY <2>5, <2>6, <2>7 DEF NothingWedges
<1>7. ASSUME NEW a \in Attempt, phase[a] = "output", Exit(a), UNCHANGED beat PROVE G
  BY <1>7, ExitWedges DEF Running
<1>8. ASSUME NEW a \in Attempt, LockRefused(a) \/ Fails(a) \/ Unwind(a) \/ Killed(a) PROVE G
  BY <1>8, ExitWedges DEF LockRefused, Fails, Unwind, Killed, worker, Running
<1>9. CASE HeartbeatTimeout \/ StartToClose
  BY <1>9, RetryWedges DEF HeartbeatTimeout, StartToClose, worker
<1>10. CASE RunTimeout
  BY <1>10 DEF RunTimeout, worker, NothingWedges, Later
<1>11. ASSUME NEW a \in Attempt, Cut(a) PROVE G
  BY <1>11 DEF Cut, NothingWedges, Later, Running, server, TypeOK
<1>12. ASSUME NEW a \in Attempt, Heal(a) PROVE G
  BY <1>12 DEF Heal, NothingWedges, Later, Running, server, TypeOK
<1>13. ASSUME NEW a \in Attempt, Hang(a) \/ Cancel(a) PROVE G
  BY <1>13 DEF Hang, Cancel, NothingWedges, Later, Running, server
<1>14. CASE UNCHANGED vars
  BY <1>14 DEF vars, worker, NothingWedges, Later, Running, server
<1>15. ASSUME NEW a \in Attempt, Output(a) PROVE G
  BY <1>6, <1>7, <1>15 DEF Output, worker
<1> QED BY <1>2, <1>3, <1>4, <1>5, <1>8, <1>9, <1>10, <1>11, <1>12, <1>13, <1>14, <1>15
        DEF Next, Progress, Notice, Deadline

\* However attempts overlap, fail and are cut off, the server waits for somebody, and the
\* lock is somebody's who will give it back.  With or without locking.
THEOREM NoWedge == Spec => []NothingWedges
<1>1. Init => TypeOK /\ NothingWedges /\ Later
  BY TypeInit, AttemptsAssumption DEF Init, NothingWedges, Later, Running, Attempt, None
<1>2. TypeOK /\ NothingWedges /\ Later /\ [Next]_vars => (TypeOK /\ NothingWedges /\ Later)'
  BY TypeNext, WedgesNext
<1> QED BY <1>1, <1>2, PTL DEF Spec

-----------------------------------------------------------------------------
(* Terraform that locks implements TerraformActivity.                      *)

\* A quiet step that leaves the Cloud and the state file alone is no step of the activity, or
\* its failure.
LEMMA QuietMaps ==
  ASSUME TypeOK, RunInv, Quiet, outcome' \in {outcome, "failed"}, outcome' # outcome => outcome = "running",
         UNCHANGED <<ns, rec, ids>>
  PROVE  [Activity!Next]_(Activity!vars)
<1>0. Alive' = Alive /\ result' = result
  BY DEF Alive, Quiet
<1>1. CASE outcome' = outcome
  BY <1>0, <1>1 DEF Activity!vars
<1>2. CASE outcome' # outcome
  <2>1. Activity!GiveUp
    BY <1>0, <1>2 DEF Activity!GiveUp, Activity!Named, Quiet
  <2> QED BY <2>1 DEF Activity!Next
<1> QED BY <1>1, <1>2

\* What a retry and an exit may do to the outcome.
LEMMA RetryOutcome ==
  ASSUME NEW E, Retry(E), outcome = "running"
  PROVE  outcome' \in {outcome, "failed"}
  BY DEF Retry

LEMMA ExitOutcome ==
  ASSUME NEW a \in Attempt, Exit(a)
  PROVE  outcome' \in {outcome, "failed"} /\ (outcome' # outcome => outcome = "running")
  BY DEF Exit, Retry, server

\* An attempt that ends and writes what it has: a write of the activity, or its failure.
LEMMA WriteBackMaps ==
  ASSUME TypeOK, RunInv, NEW a \in Attempt, Exit(a), UNCHANGED <<ns, ids>>,
         rec' = IF Inside(a) THEN mem[a] ELSE rec
  PROVE  [Activity!Next]_(Activity!vars)
<1>1. Quiet /\ outcome' \in {outcome, "failed"} /\ (outcome' # outcome => outcome = "running")
  BY ExitQuiet, ExitOutcome
<1>2. CASE ~Inside(a)
  BY <1>1, <1>2, QuietMaps
<1>3. CASE Inside(a)
  <2>1. /\ rec'.ns \in {rec.ns, ns}
        /\ Alive' \in Identity \cup {None}
        /\ Alive # None => Alive' = Alive
        /\ Settled => rec'.ns = rec.ns /\ Alive' = Alive
    BY <1>3, MemoryIsSafe DEF TypeOK, Settled, Alive
  <2>2. Activity!Named
    BY <2>1 DEF Activity!Named
  <2>3. CASE outcome = "ok"
    BY <1>1, <2>1, <2>3 DEF RunInv, OutputInv, Quiet, Activity!vars
  <2>4. CASE outcome # "ok" /\ outcome' = outcome
    <3>1. Activity!Write
      BY <1>1, <2>1, <2>2, <2>4 DEF Quiet, Activity!Write
    <3> QED BY <3>1 DEF Activity!Next
  <2>5. CASE outcome' # outcome
    <3>1. Activity!GiveUp
      BY <1>1, <2>1, <2>2, <2>5 DEF Quiet, Activity!GiveUp
    <3> QED BY <3>1 DEF Activity!Next
  <2> QED BY <2>3, <2>4, <2>5
<1> QED BY <1>2, <1>3

\* A step of an attempt that goes on: a write of the activity, or nothing.
LEMMA WriteMaps ==
  ASSUME TypeOK, outcome # "ok", UNCHANGED <<outcome, result>>,
         ns' \in {ns, "want"}, rec'.ns \in {rec.ns, ns'}, Alive' \in Identity \cup {None},
         Alive # None => Alive' = Alive
  PROVE  Activity!Next
  BY DEF Activity!Next, Activity!Write, Activity!Named

\* Every step maps to a step of the activity or to none.
LEMMA ActivityNext ==
  ASSUME Locking
  PROVE  TypeOK /\ LockHeld /\ RunInv /\ [Next]_vars => [Activity!Next]_(Activity!vars)
<1> SUFFICES ASSUME TypeOK, LockHeld, RunInv, [Next]_vars PROVE [Activity!Next]_(Activity!vars)
  OBVIOUS
<1>1. CASE HeartbeatTimeout \/ StartToClose
  BY <1>1, RetryQuiet, RetryOutcome, QuietMaps DEF HeartbeatTimeout, StartToClose, world
<1>2. CASE RunTimeout
  BY <1>2, QuietMaps DEF RunTimeout, Quiet, world
<1>3. ASSUME NEW a \in Attempt,
             Cut(a) \/ Heal(a) \/ Hang(a) \/ Cancel(a) \/ ImportFails(a) \/ Plan(a)
      PROVE  [Activity!Next]_(Activity!vars)
  BY <1>3 DEF Cut, Heal, Hang, Cancel, ImportFails, Plan, server, world, Alive, Activity!vars
<1>4. ASSUME NEW a \in Attempt, LockRefused(a) \/ Killed(a) PROVE [Activity!Next]_(Activity!vars)
  BY <1>4, ExitQuiet, ExitOutcome, QuietMaps DEF LockRefused, Killed, world
<1>5. ASSUME NEW a \in Attempt, Fails(a) \/ Unwind(a) PROVE [Activity!Next]_(Activity!vars)
  BY <1>5, WriteBackMaps DEF Fails, Unwind, Inside
<1>6. ASSUME NEW a \in Attempt, Import(a) PROVE [Activity!Next]_(Activity!vars)
  <2>1. CASE rec' = rec
    BY <1>6, <2>1 DEF Import, server, Alive, Activity!vars
  <2>2. CASE rec.ns = "absent" /\ rec' = [rec EXCEPT !.ns = ns]
    <3>1. outcome # "ok" /\ rec'.ns = ns /\ Alive' = Alive /\ Alive \in Identity \cup {None}
      BY <1>6, <2>2 DEF Import, RunInv, OutputInv, Settled, Alive, TypeOK, Record
    <3> QED BY <1>6, <3>1, WriteMaps DEF Import, server, TypeOK, Record
  <2> QED BY <1>6, <2>1, <2>2 DEF Import
<1>7. ASSUME NEW a \in Attempt, WriteNamespace(a) PROVE [Activity!Next]_(Activity!vars)
  <2>1. /\ ns' \in {ns, "want"} /\ UNCHANGED <<outcome, result, rec>>
        /\ Alive' = Alive /\ Alive \in Identity \cup {None}
    BY <1>7 DEF WriteNamespace, server, Alive, TypeOK
  <2>2. CASE outcome = "ok"
    BY <2>1, <2>2 DEF RunInv, OutputInv, Settled, Activity!vars
  <2>3. CASE outcome # "ok"
    BY <2>1, <2>3, WriteMaps DEF TypeOK, Record
  <2> QED BY <2>2, <2>3
<1>8. ASSUME NEW a \in Attempt, WriteIdentity(a) PROVE [Activity!Next]_(Activity!vars)
  <2>1. Alive' = Alive
    BY <1>8, AttemptsAssumption
       DEF WriteIdentity, RunInv, RecInv, TypeOK, Alive, Identity, Attempt, Earlier, None
  <2> QED BY <1>8, <2>1 DEF WriteIdentity, server, Activity!vars
<1>9. ASSUME NEW a \in Attempt, Persist(a) PROVE [Activity!Next]_(Activity!vars)
  <2>1. /\ rec' = mem[a] /\ Inside(a) /\ UNCHANGED <<outcome, result, ns, ids>>
    BY <1>9 DEF Persist, Inside, Holding, server
  <2>2. /\ rec'.ns \in {rec.ns, ns} /\ Alive' \in Identity \cup {None}
        /\ Alive # None => Alive' = Alive
        /\ Settled => rec'.ns = rec.ns /\ Alive' = Alive
    BY <2>1, MemoryIsSafe DEF TypeOK, Settled, Alive
  <2>3. CASE outcome = "ok"
    BY <2>1, <2>2, <2>3 DEF RunInv, OutputInv, Activity!vars
  <2>4. CASE outcome # "ok"
    BY <2>1, <2>2, <2>4, WriteMaps
  <2> QED BY <2>3, <2>4
<1>10. ASSUME NEW a \in Attempt, Output(a) PROVE [Activity!Next]_(Activity!vars)
  <2>1. Settled /\ UNCHANGED <<ns, rec, ids>>
    BY <1>10 DEF Output, RunInv, OutputInv, world
  <2>2. Complete(a) /\ rec.id # None /\ Alive = rec.id /\ Alive' = Alive
    BY <1>10, <2>1, AttemptsAssumption
       DEF Output, Settled, TypeOK, Identity, Attempt, Earlier, None, Alive
  <2>3. CASE outcome = "running" /\ outcome' = "ok" /\ result' = rec.id
    <3>1. Activity!Succeed
      BY <2>1, <2>2, <2>3 DEF Settled, Activity!Succeed
    <3> QED BY <3>1 DEF Activity!Next
  <2>4. CASE UNCHANGED server
    BY <2>1, <2>2, <2>4 DEF server, Activity!vars
  <2> QED BY <2>2, <2>3, <2>4 DEF Complete
<1>11. CASE UNCHANGED vars
  BY <1>11 DEF vars, server, world, Alive, Activity!vars
<1> QED BY <1>1, <1>2, <1>3, <1>4, <1>5, <1>6, <1>7, <1>8, <1>9, <1>10, <1>11 DEF Next, Progress, Notice, Deadline

\* With terraform's lock, the attempts of an activity -- overlapping, cut off, retried, killed
\* -- are together what Environments takes them for: they write the wanted namespace and nothing
\* else, they never replace a worker's identity that exists, and nothing is written after success.
THEOREM Refinement ==
  ASSUME Locking
  PROVE  Spec => Implements
<1>1. Init => Activity!Init
  BY DEF Init, Identity, Alive, Activity!Init
<1>2. TypeOK /\ LockHeld /\ RunInv /\ [Next]_vars => [Activity!Next]_(Activity!vars)
  BY ActivityNext, Locking
<1> QED BY <1>1, <1>2, LockedInvariant, PTL DEF Spec, Implements, Activity!Spec
=============================================================================
