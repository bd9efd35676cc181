---------------------------- MODULE CourseProofs ----------------------------
(***************************************************************************)
(* What holds of the exit check for any usernames, any number of students  *)
(* and polls, and any commands forgotten and pages passed over: the types, *)
(* that a green check is true of the student's own platform unless another *)
(* student's names begin with theirs, that the last check is green only    *)
(* for what the labs build, and that the instructor sees students.  The    *)
(* argument: nothing the checks look at is ever taken back (Grows), so     *)
(* what a poll read stays true until it is shown.                          *)
(***************************************************************************)
EXTENDS Course, GradingProofs, FiniteSetTheorems

-----------------------------------------------------------------------------
(* The labs and their checks. *)

LEMMA LabsAre ==
    /\ Len(LABS) = 4 /\ DOMAIN LABS = 1..4
    /\ LABS[1].checkpoints = lab1Checkpoints
    /\ LABS[2].checkpoints = lab2Checkpoints
    /\ LABS[3].checkpoints = lab3Checkpoints
    /\ LABS[4].checkpoints = lab4Checkpoints
  BY DEF LABS, LabDef

Marks == {"pass", "fail", "blocked"}

(* Whatever is read, a lab's grade marks the lab's checkpoints. *)
LEMMA GradeMarks ==
    ASSUME NEW n \in 1..4, NEW inventory, NEW r, NEW ran
    PROVE  gradeLab(n, Me, inventory, r, ran) \in [LABS[n].checkpoints -> Marks]
  <1>1. \A ok : Result(ok) \in Marks
    BY DEF Result, Marks
  <1>2. \A cs : blockedAll(cs) \in [cs -> Marks]
    BY DEF blockedAll, Marks
  <1>3. grade1(inventory, Me) \in [lab1Checkpoints -> Marks]
    BY <1>1, <1>2 DEF grade1, lab1Checkpoints, Marks
  <1>4. grade2(inventory, Me) \in [lab2Checkpoints -> Marks]
    BY <1>2 DEF grade2, Marks
  <1>5. grade3(r) \in [lab3Checkpoints -> Marks]
    BY <1>1, <1>2 DEF grade3, lab3Checkpoints
  <1>6. grade4(inventory, Me, ran) \in [lab4Checkpoints -> Marks]
    BY <1>1, <1>2 DEF grade4, lab4Checkpoints, Marks
  <1>7. n = 1 \/ n = 2 \/ n = 3 \/ n = 4
    OBVIOUS
  <1> QED
    BY <1>3, <1>4, <1>5, <1>6, <1>7, LabsAre DEF gradeLab

LEMMA MarksAreResults == ASSUME NEW n \in 1..4 PROVE [LABS[n].checkpoints -> Marks] \subseteq Results
  BY LabsAre DEF Results, Marks

-----------------------------------------------------------------------------
(* Types. *)

ScriptOK ==
    /\ at \in 1..Len(LABS)
    /\ \E i \in 1..Len(Command(at)) + 1 : todo = SubSeq(Command(at), i, Len(Command(at)))
    /\ slips \in 0..MaxSlips
SystemOK ==
    /\ sandbox \in Sandbox
    /\ cloud \in SUBSET Account
    /\ provision \in Spec_ \cup {None}
    /\ loop \in Loop \cup {None}
    /\ seen \subseteq {"reconciled", "missing", "retention"}
    /\ continued \in 0..MaxContinue
    /\ greeting \in {"no", "started", "completed"}
PanelOK ==
    /\ polls \in [Poll -> Reading \cup {None}]
    /\ panel \in Results \cup {None}

LEMMA TypesAre == TypeOK <=> ScriptOK /\ SystemOK /\ PanelOK
  BY DEF TypeOK, ScriptOK, SystemOK, PanelOK

(* What the checks look at only grows. *)
Kept == \A ns \in cloud : \E new \in cloud' : new.name = ns.name
Grows ==
    /\ Kept
    /\ seen \subseteq seen'
    /\ greeting = "completed" => greeting' = "completed"

(* The status says nothing that was not seen. *)
Told(status, facts) ==
    /\ status.reconciles >= 1 => "reconciled" \in facts
    /\ status.lastDrift = "retention" => "retention" \in facts
Remembered == loop # None => Told(loop.status, seen)

SystemInv == SystemOK /\ Remembered
SystemStep == SystemInv' /\ Grows

States == {"activating", "active", "updating"}

LEMMA AppliedIs ==
    ASSUME NEW name \in Names, NEW state \in States, cloud \in SUBSET Account
    PROVE  /\ NAMESPACE_MAIN_TF(name, state) \in SUBSET Account
           /\ \A ns \in cloud : \E new \in NAMESPACE_MAIN_TF(name, state) : new.name = ns.name
           /\ \E new \in NAMESPACE_MAIN_TF(name, state) : new.name = name
  <1> DEFINE ns0 == Namespace(name, SpecRetention, state)
  <1>1. ns0 \in Account /\ ns0.name = name
    BY DEF Namespace, Account, States
  <1>2. NAMESPACE_MAIN_TF(name, state) = {ns \in cloud : ns.name # name} \cup {ns0}
    BY DEF NAMESPACE_MAIN_TF
  <1> HIDE DEF ns0
  <1> QED
    BY <1>1, <1>2

LEMMA OwnNames == Control \in Names /\ Staging \in Names /\ \A v \in Neighbours : theirs(v) \in Names
  BY DEF Names

(* Nothing but the cloud may have changed, and no namespace went. *)
LEMMA CloudStep ==
    ASSUME SystemInv, sandbox' \in Sandbox, UNCHANGED <<loopVars, greeting>>,
           provision' \in Spec_ \cup {None}, cloud' \in SUBSET Account, Kept
    PROVE  SystemStep
  BY DEF SystemStep, SystemInv, SystemOK, Remembered, Grows, loopVars

LEMMA SandboxStep ==
    ASSUME SystemInv, UNCHANGED <<cloud, provision, loopVars, greeting>>, sandbox' \in Sandbox
    PROVE  SystemStep
  BY CloudStep DEF SystemInv, SystemOK, Kept

LEMMA MachineStep ==
    ASSUME SystemInv, NEW c, NEW ready \in BOOLEAN, NEW new \in Sandbox, Machine(c, ready, new)
    PROVE  SystemStep
  <1>1. sandbox' \in Sandbox
    BY DEF Machine, SystemInv, SystemOK
  <1> QED
    BY <1>1, SandboxStep DEF Machine

LEMMA NewLoopType ==
    ASSUME NEW spec \in Spec_
    PROVE  NewLoop(spec) \in Loop /\ \A facts : Told(NewLoop(spec).status, facts)
  <1> DEFINE status == [reconciles |-> 0, driftsDetected |-> 0, lastDrift |-> "", ok |-> FALSE]
  <1>1. status \in ReconcilerStatus
    BY DEF ReconcilerStatus
  <1>2. status.lastDrift = "" /\ ~(status.reconciles >= 1)
    OBVIOUS
  <1> HIDE DEF status
  <1>3. [status |-> status, phase |-> "start", desired |-> spec, signal |-> None] \in Loop
    BY <1>1 DEF Loop
  <1> QED
    BY <1>2, <1>3 DEF NewLoop, Told, status

(* Nothing but the loop changed, and all it says was seen. *)
LEMMA LoopStep ==
    ASSUME SystemInv, UNCHANGED <<sandbox, cloud, provision, greeting>>, loop' \in Loop,
           seen \subseteq seen', seen' \subseteq {"reconciled", "missing", "retention"},
           continued' \in 0..MaxContinue, Told(loop'.status, seen')
    PROVE  SystemStep
  BY NoLoop DEF SystemStep, SystemInv, SystemOK, Remembered, Grows, Kept

LEMMA DoStep == ASSUME SystemInv, Do PROVE SystemStep
  <1> USE DEF Sandbox, Spec_, Blocks
  <1>0. sandbox \in Sandbox
    BY DEF SystemInv, SystemOK
  <1>1. CASE WorkshopInit
    <2>1. [sandbox EXCEPT !.key = TRUE] \in Sandbox
      BY <1>0
    <2> QED
      BY <1>1, <2>1, MachineStep DEF WorkshopInit
  <1>2. CASE WriteModule
    <2>1. [sandbox EXCEPT !.module = TRUE] \in Sandbox
      BY <1>0
    <2> QED
      BY <1>2, <2>1, MachineStep DEF WriteModule
  <1>3. CASE PlatformUp
    <2>1. [sandbox EXCEPT !.worker = sandbox.register] \in Sandbox
      BY <1>0
    <2>2. (sandbox.key /\ Exists(Control)) \in BOOLEAN
      BY DEF Exists
    <2> QED
      BY <1>3, <2>1, <2>2, MachineStep DEF PlatformUp
  <1>4. CASE Uncomment2
    <2>1. [sandbox EXCEPT !.register = @ \cup {"challenge-2"}] \in Sandbox
      BY <1>0
    <2> QED
      BY <1>4, <2>1, MachineStep DEF Uncomment2
  <1>5. CASE Uncomment3
    <2>1. [sandbox EXCEPT !.register = @ \cup {"challenge-3"}] \in Sandbox
      BY <1>0
    <2> QED
      BY <1>5, <2>1, MachineStep DEF Uncomment3
  <1>6. CASE Reload
    <2>1. [sandbox EXCEPT !.worker = sandbox.register] \in Sandbox
      BY <1>0
    <2> QED
      BY <1>6, <2>1, MachineStep DEF Reload
  <1>7. CASE TpctlNew \/ BreakRegion \/ MendRegion
    <2>1. \A b \in BOOLEAN : [sandbox EXCEPT !.spec = [region |-> b]] \in Sandbox
      BY <1>0
    <2> QED
      BY <1>7, <2>1, MachineStep DEF TpctlNew, BreakRegion, MendRegion
  <1>8. CASE WriteGreeting
    <2>1. [sandbox EXCEPT !.code = TRUE] \in Sandbox
      BY <1>0
    <2> QED
      BY <1>8, <2>1, MachineStep DEF WriteGreeting
  <1>9. CASE GenConfig
    <2>1. [sandbox EXCEPT !.config = sandbox.code] \in Sandbox
      BY <1>0
    <2> QED
      BY <1>9, <2>1, MachineStep DEF GenConfig
  <1>10. CASE Deploy
    <2>1. [sandbox EXCEPT !.deployed = sandbox.code] \in Sandbox
      BY <1>0
    <2>2. (sandbox.config /\ sandbox.spec # None /\ sandbox.credential) \in BOOLEAN
      BY <1>0
    <2> QED
      BY <1>10, <2>1, <2>2, MachineStep DEF Deploy
  <1>11. CASE TerraformApply
    <2> HIDE DEF Sandbox, Spec_, Blocks
    <2>1. cloud' = cloud \/ cloud' = NAMESPACE_MAIN_TF(Control, "active")
      BY <1>11 DEF TerraformApply
    <2>2. cloud' \in SUBSET Account /\ Kept
      BY <2>1, AppliedIs, OwnNames DEF SystemInv, SystemOK, Kept, States
    <2> QED
      BY <1>0, <1>11, <2>2, CloudStep DEF TerraformApply, SystemInv, SystemOK
  <1>12. CASE TpctlApply
    <2>1. provision' \in Spec_ \cup {None}
      BY <1>0, <1>12 DEF TpctlApply, SystemInv, SystemOK
    <2> HIDE DEF Sandbox, Spec_, Blocks
    <2> QED
      BY <1>0, <1>12, <2>1, CloudStep DEF TpctlApply, SystemInv, SystemOK, Kept
  <1>13. CASE TpctlSync
    <2>1. UNCHANGED <<sandbox, cloud, provision, greeting, seen, continued>>
      BY <1>13 DEF TpctlSync
    <2>2. loop' = loop \/ (sandbox.spec # None /\ loop = None /\ loop' = NewLoop(sandbox.spec))
          \/ (sandbox.spec # None /\ loop # None /\ loop' = [loop EXCEPT !.signal = sandbox.spec])
      BY <1>13 DEF TpctlSync
    <2>3. CASE loop' = loop
      BY <1>0, <2>1, <2>3, SandboxStep DEF loopVars
    <2>4. CASE sandbox.spec # None /\ loop = None /\ loop' = NewLoop(sandbox.spec)
      <3>1. sandbox.spec \in Spec_
        BY <1>0, <2>4
      <3>2. loop' \in Loop /\ Told(loop'.status, seen')
        BY <2>4, <3>1, NewLoopType
      <3> QED
        BY <2>1, <3>2, LoopStep DEF SystemInv, SystemOK
    <2>5. CASE sandbox.spec # None /\ loop # None /\ loop' = [loop EXCEPT !.signal = sandbox.spec]
      <3>1. sandbox.spec \in Spec_ /\ loop \in Loop
        BY <1>0, <2>5 DEF SystemInv, SystemOK
      <3>2. loop' \in Loop /\ loop'.status = loop.status
        BY <2>5, <3>1 DEF Loop
      <3>3. Told(loop'.status, seen')
        BY <2>1, <2>5, <3>2 DEF SystemInv, Remembered
      <3> QED
        BY <2>1, <3>2, <3>3, LoopStep DEF SystemInv, SystemOK
    <2> QED
      BY <2>2, <2>3, <2>4, <2>5
  <1>14. CASE EditRetention
    <2> HIDE DEF Sandbox, Spec_, Blocks
    <2> DEFINE Edited(ns) == IF ns.name = Staging
                             THEN [ns EXCEPT !.retention = EditedRetention, !.state = "updating"] ELSE ns
    <2>1. cloud' = {Edited(ns) : ns \in cloud}
      BY <1>14 DEF EditRetention
    <2>2. \A ns \in Account : Edited(ns) \in Account /\ Edited(ns).name = ns.name
      BY DEF Account
    <2> HIDE DEF Edited
    <2>3. cloud' \in SUBSET Account /\ Kept
      BY <2>1, <2>2 DEF SystemInv, SystemOK, Kept
    <2> QED
      BY <1>0, <1>14, <2>3, CloudStep DEF EditRetention, SystemInv, SystemOK
  <1>15. CASE Execute
    <2> HIDE DEF Sandbox, Spec_, Blocks
    <2>1. UNCHANGED <<sandbox, cloud, provision, loopVars>>
          /\ greeting' \in {"no", "started", "completed"} /\ (greeting = "completed" => greeting' = "completed")
      BY <1>15 DEF Execute, SystemInv, SystemOK
    <2> QED
      BY <2>1 DEF SystemStep, SystemInv, SystemOK, Remembered, Grows, Kept, loopVars
  <1> QED
    BY <1>1, <1>2, <1>3, <1>4, <1>5, <1>6, <1>7, <1>8, <1>9, <1>10, <1>11, <1>12, <1>13, <1>14, <1>15 DEF Do

LEMMA OrderedIs ==
    ASSUME NEW name \in Names, cloud \in SUBSET Account
    PROVE  /\ Ordered(name) \in SUBSET Account
           /\ \A ns \in cloud : \E new \in Ordered(name) : new.name = ns.name
           /\ \E new \in Ordered(name) : new.name = name
  <1>1. CASE Ordered(name) = cloud /\ Exists(name)
    BY <1>1 DEF Exists
  <1>2. ASSUME NEW state \in States, Ordered(name) = NAMESPACE_MAIN_TF(name, state)
        PROVE  /\ Ordered(name) \in SUBSET Account
               /\ \A ns \in cloud : \E new \in Ordered(name) : new.name = ns.name
               /\ \E new \in Ordered(name) : new.name = name
    <2>1. /\ NAMESPACE_MAIN_TF(name, state) \in SUBSET Account
          /\ \A ns \in cloud : \E new \in NAMESPACE_MAIN_TF(name, state) : new.name = ns.name
          /\ \E new \in NAMESPACE_MAIN_TF(name, state) : new.name = name
      BY AppliedIs
    <2> QED
      BY <1>2, <2>1
  <1>3. \/ Ordered(name) = cloud /\ Exists(name)
        \/ \E state \in States : Ordered(name) = NAMESPACE_MAIN_TF(name, state)
    BY DEF Ordered, States
  <1> QED
    BY <1>1, <1>2, <1>3

LEMMA AppliedStep ==
    ASSUME SystemInv, NEW spec \in Spec_, Applied(spec)
    PROVE  /\ sandbox' \in Sandbox
           /\ cloud' \in SUBSET Account
           /\ Kept
  <1>1. cloud' = cloud \/ cloud' = Ordered(Staging)
    BY DEF Applied
  <1>2. [sandbox EXCEPT !.credential = TRUE] \in Sandbox
    BY DEF SystemInv, SystemOK, Sandbox
  <1>3. sandbox' \in Sandbox
    BY <1>2 DEF Applied, SystemInv, SystemOK
  <1> QED
    BY <1>1, <1>3, OrderedIs, OwnNames DEF SystemInv, SystemOK, Kept

(* The loop as the fields a step may change. *)
LEMMA LoopFields ==
    ASSUME NEW l \in Loop
    PROVE  /\ DOMAIN l = {"status", "phase", "desired", "signal"}
           /\ l.status \in ReconcilerStatus
           /\ l.phase \in {"start", "idle", "reconcile"}
           /\ l.desired \in Spec_
           /\ l.signal \in Spec_ \cup {None}
           /\ l = [status |-> l.status, phase |-> l.phase, desired |-> l.desired, signal |-> l.signal]
  BY DEF Loop

LEMMA StatusFields ==
    ASSUME NEW st \in ReconcilerStatus
    PROVE  /\ \A n \in 0..1 : [st EXCEPT !.reconciles = n] \in ReconcilerStatus
           /\ \A n \in 0..1, d \in {"", "missing", "retention"} :
                 [st EXCEPT !.driftsDetected = n, !.lastDrift = d] \in ReconcilerStatus
           /\ \A b \in BOOLEAN : [st EXCEPT !.ok = b] \in ReconcilerStatus
  <1> DEFINE Bit == 0..1
             Kinds == {"", "missing", "retention"}
             Truth == BOOLEAN
  <1>1. ReconcilerStatus = [reconciles : Bit, driftsDetected : Bit, lastDrift : Kinds, ok : Truth]
    BY DEF ReconcilerStatus
  <1> HIDE DEF Bit, Kinds, Truth
  <1>2. \A n \in Bit : [st EXCEPT !.reconciles = n] \in ReconcilerStatus
    BY <1>1
  <1>3. \A n \in Bit, d \in Kinds : [st EXCEPT !.driftsDetected = n, !.lastDrift = d] \in ReconcilerStatus
    BY <1>1
  <1>4. \A b \in Truth : [st EXCEPT !.ok = b] \in ReconcilerStatus
    BY <1>1
  <1> QED
    BY <1>2, <1>3, <1>4 DEF Bit, Kinds, Truth

LEMMA ReconcilingType ==
    ASSUME NEW l \in Loop
    PROVE  /\ Reconciling(l) \in Loop
           /\ Reconciling(l).status.reconciles = 1
           /\ Reconciling(l).status.lastDrift = l.status.lastDrift
  <1> DEFINE status == [l.status EXCEPT !.reconciles = 1]
  <1>1. l.status \in ReconcilerStatus
    BY LoopFields
  <1>2. status \in ReconcilerStatus /\ status.reconciles = 1 /\ status.lastDrift = l.status.lastDrift
    <2>1. status \in ReconcilerStatus
      <3>1. 1 \in 0..1
        OBVIOUS
      <3> QED
        BY <1>1, <3>1, StatusFields, Zenon
    <2>2. status.reconciles = 1
      BY <1>1 DEF ReconcilerStatus
    <2>3. status.lastDrift = l.status.lastDrift
      BY <1>1 DEF ReconcilerStatus
    <2> QED
      BY <2>1, <2>2, <2>3
  <1>3. Reconciling(l) = [l EXCEPT !.status = status, !.phase = "reconcile"]
    BY DEF Reconciling
  <1> HIDE DEF status
  <1>4. Reconciling(l) \in Loop
    BY <1>2, <1>3 DEF Loop
  <1>5. Reconciling(l).status = status
    BY <1>3 DEF Loop
  <1> QED
    BY <1>2, <1>4, <1>5

LEMMA DetectedType ==
    ASSUME NEW l \in Loop
    PROVE  /\ Detected(l) \in Loop
           /\ Detected(l).status.reconciles = l.status.reconciles
           /\ Detected(l).status.lastDrift = Drift
  <1>0. Drift \in {"", "missing", "retention"}
    BY DEF Drift
  <1> DEFINE status == [l.status EXCEPT !.driftsDetected = 1, !.lastDrift = Drift]
  <1>1. l.status \in ReconcilerStatus
    BY LoopFields
  <1>2. status \in ReconcilerStatus /\ status.reconciles = l.status.reconciles /\ status.lastDrift = Drift
    <2>1. status \in ReconcilerStatus
      <3>1. 1 \in 0..1
        OBVIOUS
      <3> QED
        BY <1>0, <1>1, <3>1, StatusFields, Zenon
    <2>2. status.reconciles = l.status.reconciles
      BY <1>1 DEF ReconcilerStatus
    <2>3. status.lastDrift = Drift
      BY <1>1 DEF ReconcilerStatus
    <2> QED
      BY <2>1, <2>2, <2>3
  <1>3. Detected(l) = [l EXCEPT !.status = status]
    BY DEF Detected
  <1> HIDE DEF status
  <1>4. Detected(l) \in Loop
    BY <1>2, <1>3 DEF Loop
  <1>5. Detected(l).status = status
    BY <1>3 DEF Loop
  <1> QED
    BY <1>2, <1>4, <1>5

LEMMA PlatformStep == ASSUME SystemInv, Platform PROVE SystemStep
  <1>1. CASE Provision
    <2>1. provision \in Spec_ /\ provision' = None
      BY <1>1 DEF Provision, CanProvision, SystemInv, SystemOK
    <2> QED
      BY <1>1, <2>1, AppliedStep, CloudStep DEF Provision
  <1>2. CASE \E ns \in Unsettled : Settle(ns)
    <2>1. PICK ns \in cloud : Settle(ns)
      BY <1>2 DEF Unsettled
    <2>2. ns \in Account
      BY DEF SystemInv, SystemOK
    <2> DEFINE settled == [ns EXCEPT !.state = "active"]
    <2>3. settled \in Account /\ settled.name = ns.name
      BY <2>2 DEF Account
    <2>4. cloud' = (cloud \ {ns}) \cup {settled}
      BY <2>1 DEF Settle
    <2> HIDE DEF settled
    <2>5. cloud' \in SUBSET Account /\ Kept
      BY <2>3, <2>4 DEF SystemInv, SystemOK, Kept
    <2> QED
      BY <2>1, <2>5, CloudStep DEF Settle, SystemInv, SystemOK
  <1>3. CASE LoopStart
    <2>1. loop \in Loop /\ loop # None /\ loop' = Reconciling(loop)
      BY <1>3 DEF LoopStart, Loops, CanStart, SystemInv, SystemOK
    <2>2. loop' \in Loop /\ loop'.status.lastDrift = loop.status.lastDrift
      BY <2>1, ReconcilingType
    <2>3. seen' = seen \cup {"reconciled"} /\ continued' = continued
      BY <1>3 DEF LoopStart, Loops
    <2>4. Told(loop'.status, seen')
      BY <2>1, <2>2, <2>3 DEF SystemInv, Remembered, Told
    <2> QED
      BY <1>3, <2>2, <2>3, <2>4, LoopStep DEF LoopStart, Loops, SystemInv, SystemOK
  <1>4. CASE LoopReconciled
    <2>1. loop \in Loop /\ loop # None /\ loop.desired \in Spec_
      BY <1>4, LoopFields DEF LoopReconciled, CanReconcile, SystemInv, SystemOK
    <2>2. sandbox' \in Sandbox /\ cloud' \in SUBSET Account /\ Kept
      BY <1>4, <2>1, AppliedStep DEF LoopReconciled
    <2> DEFINE status == [loop.status EXCEPT !.ok = loop.desired.region]
    <2>3. loop.desired.region \in BOOLEAN /\ loop.status \in ReconcilerStatus
      BY <2>1, LoopFields DEF Spec_
    <2>4. status \in ReconcilerStatus /\ status.reconciles = loop.status.reconciles
          /\ status.lastDrift = loop.status.lastDrift
      BY <2>3 DEF ReconcilerStatus
    <2>5. loop' = [loop EXCEPT !.phase = "idle", !.status = status] /\ seen' = seen
      BY <1>4 DEF LoopReconciled, Loops
    <2> HIDE DEF status
    <2>6. loop' \in Loop
      BY <2>1, <2>4, <2>5 DEF Loop
    <2>7. loop'.status = status
      BY <2>1, <2>5 DEF Loop
    <2>8. Told(loop'.status, seen')
      BY <2>1, <2>4, <2>5, <2>7 DEF SystemInv, Remembered, Told
    <2>9. UNCHANGED <<provision, greeting, continued>>
      BY <1>4 DEF LoopReconciled, Loops
    <2>10. SystemOK'
      BY <2>2, <2>5, <2>6, <2>9 DEF SystemInv, SystemOK
    <2>11. Remembered'
      BY <2>8 DEF Remembered
    <2>12. Grows
      BY <2>2, <2>5, <2>9 DEF Grows
    <2> QED
      BY <2>10, <2>11, <2>12 DEF SystemStep, SystemInv
  <1>5. CASE LoopSignal
    <2> DEFINE quiet == [loop EXCEPT !.signal = None]
               desired == [loop EXCEPT !.desired = loop.signal, !.signal = None]
    <2>1. loop \in Loop /\ loop # None /\ loop.signal \in Spec_
      BY <1>5, LoopFields DEF LoopSignal, CanSignal, Idle, SystemInv, SystemOK
    <2>2. quiet \in Loop /\ quiet.status = loop.status
      BY <2>1 DEF Loop
    <2>3. desired \in Loop /\ desired.status = loop.status
      BY <2>1 DEF Loop
    <2>4. \/ loop' = quiet /\ seen' = seen
          \/ loop' = Reconciling(desired) /\ seen' = seen \cup {"reconciled"}
      BY <1>5 DEF LoopSignal, Loops
    <2>5. UNCHANGED <<sandbox, cloud, provision, greeting, continued>>
      BY <1>5 DEF LoopSignal, Loops
    <2> HIDE DEF quiet, desired
    <2>6. loop' \in Loop /\ loop'.status.lastDrift = loop.status.lastDrift
      BY <2>2, <2>3, <2>4, ReconcilingType
    <2>7. Told(loop'.status, seen')
      BY <2>1, <2>2, <2>4, <2>6 DEF SystemInv, Remembered, Told
    <2>8. seen \subseteq seen' /\ seen' \subseteq {"reconciled", "missing", "retention"}
      BY <2>4 DEF SystemInv, SystemOK
    <2> QED
      BY <2>5, <2>6, <2>7, <2>8, LoopStep DEF SystemInv, SystemOK
  <1>6. CASE LoopContinue
    <2>1. loop \in Loop /\ loop.desired \in Spec_
      BY <1>6, LoopFields DEF LoopContinue, Idle, SystemInv, SystemOK
    <2>2. loop' = NewLoop(loop.desired) /\ seen' = seen /\ continued' = continued + 1
          /\ UNCHANGED <<sandbox, cloud, provision, greeting>>
      BY <1>6 DEF LoopContinue, Loops
    <2>3. loop' \in Loop /\ Told(loop'.status, seen')
      BY <2>1, <2>2, NewLoopType
    <2>4. continued' \in 0..MaxContinue
      BY <1>6, <2>2, BoundsNat DEF LoopContinue, SystemInv, SystemOK
    <2> QED
      BY <2>2, <2>3, <2>4, LoopStep DEF SystemInv, SystemOK
  <1>7. CASE LoopTick
    <2>1. loop \in Loop /\ loop # None /\ loop' = Reconciling(Detected(loop))
      BY <1>7 DEF LoopTick, Loops, CanTick, Idle, SystemInv, SystemOK
    <2>2. Detected(loop) \in Loop /\ Detected(loop).status.lastDrift = Drift
      BY <2>1, DetectedType
    <2>3. loop' \in Loop /\ loop'.status.lastDrift = Drift
      BY <2>1, <2>2, ReconcilingType
    <2>4. seen' = seen \cup {"reconciled", Drift} /\ UNCHANGED <<sandbox, cloud, provision, greeting, continued>>
      BY <1>7 DEF LoopTick, Loops
    <2>5. Told(loop'.status, seen')
      BY <2>3, <2>4 DEF Told
    <2>6. seen \subseteq seen' /\ seen' \subseteq {"reconciled", "missing", "retention"}
      BY <2>4 DEF SystemInv, SystemOK, Drift
    <2> QED
      BY <2>3, <2>4, <2>5, <2>6, LoopStep DEF SystemInv, SystemOK
  <1>8. CASE Greet
    <2>1. UNCHANGED <<sandbox, cloud, provision, loopVars>> /\ greeting' = "completed"
      BY <1>8 DEF Greet
    <2> QED
      BY <2>1 DEF SystemStep, SystemInv, SystemOK, Remembered, Grows, Kept, loopVars
  <1> QED
    BY <1>1, <1>2, <1>3, <1>4, <1>5, <1>6, <1>7, <1>8 DEF Platform

LEMMA NeighbourStep == ASSUME SystemInv, NEW v \in Neighbours, NeighbourProvisions(v) PROVE SystemStep
  <1>1. cloud' \in SUBSET Account /\ Kept
    BY AppliedIs, OwnNames DEF NeighbourProvisions, SystemInv, SystemOK, Kept, States
  <1> QED
    BY <1>1, CloudStep DEF NeighbourProvisions, SystemInv, SystemOK

LEMMA SystemStays ==
    ASSUME SystemInv, UNCHANGED systemVars PROVE SystemStep
  BY SandboxStep DEF systemVars, SystemInv, SystemOK

-----------------------------------------------------------------------------
(* The script. *)

LEMMA CommandsTyped == \A n \in 1..4 : Command(n) \in Seq(STRING)
  BY Commands, LabsAre

LEMMA TailOfScript ==
    ASSUME NEW s \in Seq(STRING), NEW i \in 1..Len(s) + 1, SubSeq(s, i, Len(s)) # <<>>
    PROVE  \E j \in 1..Len(s) + 1 : Tail(SubSeq(s, i, Len(s))) = SubSeq(s, j, Len(s))
  <1>1. Len(s) \in Nat
    BY LenProperties
  <1>2. i <= Len(s)
    BY <1>1, SubSeqEmpty
  <1>3. i \in 1..Len(s) /\ Len(s) \in i..Len(s)
    BY <1>1, <1>2
  <1>4. Tail(SubSeq(s, i, Len(s))) = SubSeq(s, i + 1, Len(s))
    BY <1>3, HeadTailOfSubSeq
  <1>5. i + 1 \in 1..Len(s) + 1
    BY <1>1, <1>3
  <1> QED
    BY <1>4, <1>5

LEMMA TailStep ==
    ASSUME ScriptOK, todo # <<>>, todo' = Tail(todo), at' = at, slips' \in 0..MaxSlips
    PROVE  ScriptOK'
  <1>1. at \in 1..4
    BY LabsAre DEF ScriptOK
  <1>2. PICK i \in 1..Len(Command(at)) + 1 : todo = SubSeq(Command(at), i, Len(Command(at)))
    BY DEF ScriptOK
  <1>3. \E j \in 1..Len(Command(at)) + 1 : todo' = SubSeq(Command(at), j, Len(Command(at)))
    BY <1>1, <1>2, CommandsTyped, TailOfScript
  <1> QED
    BY <1>3 DEF ScriptOK

LEMMA PageScript == ASSUME ScriptOK, NEW n \in 1..4, Page(n), slips' \in 0..MaxSlips PROVE ScriptOK'
  <1>1. Command(n) \in Seq(STRING)
    BY CommandsTyped
  <1>2. SubSeq(Command(n), 1, Len(Command(n))) = Command(n) /\ Len(Command(n)) \in Nat
    BY <1>1, SubSeqFull, LenProperties
  <1>3. 1 \in 1..Len(Command(n)) + 1
    BY <1>2
  <1>4. at' = n /\ todo' = Command(n)
    BY DEF Page
  <1>5. \E i \in 1..Len(Command(n)) + 1 : Command(n) = SubSeq(Command(n), i, Len(Command(n)))
    BY <1>2, <1>3
  <1> QED
    BY <1>4, <1>5, LabsAre DEF ScriptOK

LEMMA NextPage ==
    ASSUME ScriptOK, MoveOn \/ StartOver \/ \E n \in Detours : Visit(n)
    PROVE  slips' \in 0..MaxSlips /\ \E n \in 1..4 : Page(n)
  <1>1. CASE MoveOn
    BY <1>1, LabsAre DEF ScriptOK, MoveOn
  <1>2. CASE StartOver
    BY <1>2, LabsAre DEF ScriptOK, StartOver
  <1>3. CASE \E n \in Detours : Visit(n)
    <2>1. PICK n \in 1..4 : Visit(n)
      BY <1>3, SomeLabs, LabsAre
    <2>2. slips' \in 0..MaxSlips
      BY <2>1, BoundsNat DEF Visit, ScriptOK
    <2> QED
      BY <2>1, <2>2 DEF Visit
  <1> QED
    BY <1>1, <1>2, <1>3

(* The platform moves neither the student nor the panel. *)
LEMMA PlatformElsewhere ==
    ASSUME Platform \/ \E v \in Neighbours : NeighbourProvisions(v)
    PROVE  UNCHANGED <<studentVars, polls, panel>>
  BY DEF Platform, Provision, Settle, Loops, LoopStart, LoopReconciled, LoopSignal, LoopContinue, LoopTick,
                Greet, NeighbourProvisions

LEMMA ScriptStep == ASSUME ScriptOK, [Next]_vars PROVE ScriptOK'
  <1>1. CASE Do
    <2>1. \E c : Next_(c)
      BY <1>1 DEF Do, WorkshopInit, WriteModule, TerraformApply, PlatformUp, Uncomment2, Reload, TpctlNew,
                  TpctlApply, BreakRegion, MendRegion, Uncomment3, TpctlSync, EditRetention, WriteGreeting,
                  GenConfig, Deploy, Execute, Machine
    <2> QED
      BY <2>1, TailStep DEF Next_, ScriptOK
  <1>2. CASE MoveOn \/ StartOver \/ \E n \in Detours : Visit(n)
    BY <1>2, NextPage, PageScript
  <1>4. CASE Forget
    <2>1. slips' \in 0..MaxSlips
      BY <1>4, BoundsNat DEF Forget, ScriptOK
    <2> QED
      BY <1>4, <2>1, TailStep DEF Forget
  <1>5. CASE UNCHANGED studentVars
    BY <1>5 DEF studentVars, ScriptOK
  <1>6. CASE Platform \/ \E v \in Neighbours : NeighbourProvisions(v)
    BY <1>5, <1>6, PlatformElsewhere DEF studentVars
  <1>7. CASE \E q \in Poll : Panel(q)
    BY <1>5, <1>7 DEF Panel, ReadInventory, Unreachable, Reachable, Grade, Show, ReplyLost
  <1>8. CASE UNCHANGED vars
    BY <1>5, <1>8 DEF vars, studentVars
  <1> QED
    BY <1>1, <1>2, <1>4, <1>6, <1>7, <1>8 DEF Next, Student

LEMMA SystemNext == ASSUME SystemInv, [Next]_vars PROVE SystemStep
  <1>1. CASE Do \/ Platform \/ \E v \in Neighbours : NeighbourProvisions(v)
    BY <1>1, DoStep, PlatformStep, NeighbourStep
  <1>2. CASE UNCHANGED systemVars
    BY <1>2, SystemStays
  <1>3. CASE MoveOn \/ StartOver \/ Forget \/ \E n \in Detours : Visit(n)
    BY <1>2, <1>3 DEF MoveOn, StartOver, Visit, Page, Forget
  <1>4. CASE \E q \in Poll : Panel(q)
    BY <1>2, <1>4 DEF Panel, ReadInventory, Unreachable, Reachable, Grade, Show, ReplyLost
  <1>5. CASE UNCHANGED vars
    BY <1>2, <1>5 DEF vars, systemVars
  <1> QED
    BY <1>1, <1>3, <1>4, <1>5 DEF Next, Student

(* What the last workflow stands on, in the order of the labs. *)
Built ==
    /\ sandbox.worker # None => Exists(Control)
    /\ sandbox.credential => Exists(Staging) /\ sandbox.worker # None
    /\ sandbox.deployed => sandbox.credential /\ sandbox.code
    /\ greeting = "completed" => sandbox.deployed

LEMMA ExistsStays ==
    ASSUME Grows, NEW name, Exists(name) PROVE Exists(name)'
  <1>1. PICK ns \in cloud : ns.name = name
    BY DEF Exists
  <1>2. PICK new \in cloud' : new.name = ns.name
    BY DEF Grows, Kept
  <1> QED
    BY <1>1, <1>2 DEF Exists

LEMMA BuiltStays ==
    ASSUME Built, Grows, UNCHANGED greeting,
           sandbox'.worker # None => sandbox.worker # None \/ Exists(Control),
           sandbox.worker # None => sandbox'.worker # None,
           sandbox.credential => sandbox'.credential,
           sandbox'.credential => sandbox.credential \/ (Exists(Staging)' /\ sandbox.worker # None),
           sandbox.code => sandbox'.code,
           sandbox.deployed /\ sandbox.code => sandbox'.deployed,
           sandbox'.deployed => sandbox.deployed \/ (sandbox'.code /\ sandbox.credential)
    PROVE  Built'
  <1>1. (Exists(Control) => Exists(Control)') /\ (Exists(Staging) => Exists(Staging)')
    BY ExistsStays DEF Control, Staging
  <1> QED
    BY <1>1 DEF Built

LEMMA AppliedBuilt ==
    ASSUME SystemOK, Built, Grows, UNCHANGED greeting, NEW spec, Applied(spec), sandbox.worker # None
    PROVE  Built'
  <1>1. CASE spec.region
    <2>1. sandbox' = [sandbox EXCEPT !.credential = TRUE] /\ cloud' = Ordered(Staging)
      BY <1>1 DEF Applied
    <2>2. Exists(Staging)'
      BY <2>1, OrderedIs, OwnNames DEF SystemOK, Exists, Staging
    <2>3. /\ sandbox'.worker = sandbox.worker /\ sandbox'.code = sandbox.code
          /\ sandbox'.deployed = sandbox.deployed /\ sandbox'.credential
      BY <2>1 DEF SystemOK, Sandbox
    <2> QED
      BY <2>2, <2>3, BuiltStays
  <1>2. CASE ~spec.region
    <2>1. sandbox' = sandbox
      BY <1>2 DEF Applied
    <2> QED
      BY <2>1, BuiltStays
  <1> QED
    BY <1>1, <1>2

LEMMA BuiltDo == ASSUME SystemInv, Built, Grows, Do PROVE Built'
  <1>0. sandbox \in Sandbox /\ greeting \in {"no", "started", "completed"}
    BY DEF SystemInv, SystemOK
  <1>1. CASE PlatformUp \/ Reload
    <2>1. /\ sandbox' = sandbox \/ (sandbox' = [sandbox EXCEPT !.worker = sandbox.register]
                                      /\ (Exists(Control) \/ sandbox.worker # None))
          /\ greeting' = greeting
      BY <1>1 DEF PlatformUp, Reload, Machine
    <2>2. sandbox.register # None
      BY <1>0, NoImage DEF Sandbox
    <2>3. CASE sandbox' = sandbox
      BY <2>1, <2>3, BuiltStays
    <2>4. CASE sandbox' = [sandbox EXCEPT !.worker = sandbox.register]
               /\ (Exists(Control) \/ sandbox.worker # None)
      <3>1. /\ sandbox'.worker = sandbox.register /\ sandbox'.code = sandbox.code
            /\ sandbox'.deployed = sandbox.deployed /\ sandbox'.credential = sandbox.credential
        BY <1>0, <2>4 DEF Sandbox
      <3> QED
        BY <2>1, <2>2, <2>4, <3>1, BuiltStays
    <2> QED
      BY <2>1, <2>3, <2>4
  <1>2. CASE Deploy
    <2>1. sandbox' = sandbox \/ (sandbox' = [sandbox EXCEPT !.deployed = sandbox.code] /\ sandbox.credential)
      BY <1>2 DEF Deploy, Machine
    <2>2. greeting' = greeting
      BY <1>2 DEF Deploy, Machine
    <2>3. CASE sandbox' = sandbox
      BY <2>2, <2>3, BuiltStays
    <2>4. CASE sandbox' = [sandbox EXCEPT !.deployed = sandbox.code] /\ sandbox.credential
      <3>1. /\ sandbox'.worker = sandbox.worker /\ sandbox'.code = sandbox.code
            /\ sandbox'.deployed = sandbox.code /\ sandbox'.credential = sandbox.credential
        BY <1>0, <2>4 DEF Sandbox
      <3> QED
        BY <2>2, <2>4, <3>1, BuiltStays
    <2> QED
      BY <2>1, <2>3, <2>4
  <1>3. CASE Execute
    <2>1. sandbox' = sandbox /\ cloud' = cloud /\ (greeting' = "completed" => greeting = "completed")
      BY <1>3 DEF Execute
    <2> QED
      BY <2>1 DEF Built, Exists, Control, Staging
  <1>4. ASSUME greeting' = greeting,
               /\ sandbox'.worker = sandbox.worker /\ (sandbox.code => sandbox'.code)
               /\ sandbox'.deployed = sandbox.deployed /\ sandbox'.credential = sandbox.credential
        PROVE  Built'
    BY <1>4, BuiltStays
  <1>5. CASE WorkshopInit \/ WriteModule \/ Uncomment2 \/ Uncomment3 \/ TpctlNew \/ BreakRegion \/ MendRegion
             \/ WriteGreeting \/ GenConfig
    <2>1. greeting' = greeting
      BY <1>5 DEF WorkshopInit, WriteModule, Uncomment2, Uncomment3, TpctlNew, BreakRegion, MendRegion,
                  WriteGreeting, GenConfig, Machine
    <2>2. \/ sandbox' = sandbox
          \/ \E x : \/ sandbox' = [sandbox EXCEPT !.key = x]
                   \/ sandbox' = [sandbox EXCEPT !.module = x]
                   \/ sandbox' = [sandbox EXCEPT !.register = x]
                   \/ sandbox' = [sandbox EXCEPT !.spec = x]
                   \/ sandbox' = [sandbox EXCEPT !.config = x]
          \/ sandbox' = [sandbox EXCEPT !.code = TRUE]
      BY <1>5, Zenon DEF WorkshopInit, WriteModule, Uncomment2, Uncomment3, TpctlNew, BreakRegion, MendRegion,
                  WriteGreeting, GenConfig, Machine
    <2>3. /\ sandbox'.worker = sandbox.worker /\ (sandbox.code => sandbox'.code)
          /\ sandbox'.deployed = sandbox.deployed /\ sandbox'.credential = sandbox.credential
      BY <1>0, <2>2 DEF Sandbox
    <2> QED
      BY <1>4, <2>1, <2>3
  <1>6. CASE TerraformApply \/ TpctlApply \/ TpctlSync \/ EditRetention
    <2>1. greeting' = greeting /\ sandbox' = sandbox
      BY <1>6 DEF TerraformApply, TpctlApply, TpctlSync, EditRetention
    <2> QED
      BY <1>4, <2>1
  <1> QED
    BY <1>1, <1>2, <1>3, <1>5, <1>6 DEF Do

LEMMA BuiltNext == ASSUME SystemInv, Built, [Next]_vars PROVE Built'
  <1>0. Grows /\ SystemOK
    BY SystemNext DEF SystemStep, SystemInv
  <1>1. ASSUME UNCHANGED <<sandbox, greeting>> PROVE Built'
    BY <1>0, <1>1, BuiltStays
  <1>2. CASE Do
    BY <1>0, <1>2, BuiltDo
  <1>3. CASE Provision
    BY <1>0, <1>3, AppliedBuilt DEF Provision, CanProvision, Registered
  <1>4. CASE LoopReconciled
    <2>1. Applied(loop.desired) /\ sandbox.worker # None /\ greeting' = greeting
      BY <1>4 DEF LoopReconciled, Loops, CanReconcile, Registered
    <2> QED
      BY <1>0, <2>1, AppliedBuilt
  <1>5. CASE Greet
    <2>1. sandbox' = sandbox /\ cloud' = cloud /\ sandbox.deployed
      BY <1>5 DEF Greet, CanGreet
    <2> QED
      BY <2>1 DEF Built, Exists, Control, Staging
  <1>6. CASE \/ \E ns \in Unsettled : Settle(ns)
             \/ LoopStart \/ LoopSignal \/ LoopContinue \/ LoopTick
             \/ \E v \in Neighbours : NeighbourProvisions(v)
    BY <1>1, <1>6 DEF Settle, Loops, LoopStart, LoopSignal, LoopContinue, LoopTick, NeighbourProvisions
  <1>7. CASE MoveOn \/ StartOver \/ Forget \/ \E n \in Detours : Visit(n)
    BY <1>1, <1>7 DEF MoveOn, StartOver, Visit, Page, Forget, systemVars
  <1>8. CASE \E q \in Poll : Panel(q)
    BY <1>1, <1>8 DEF Panel, ReadInventory, Unreachable, Reachable, Grade, Show, ReplyLost, systemVars
  <1>9. CASE UNCHANGED vars
    BY <1>1, <1>9 DEF vars, systemVars
  <1> QED
    BY <1>2, <1>3, <1>4, <1>5, <1>6, <1>7, <1>8, <1>9 DEF Next, Student, Platform

-----------------------------------------------------------------------------
(* The polls and the panel. *)

(* A step leaves them alone, opens another page, or is one of a poll. *)
LEMMA PanelSteps ==
    ASSUME ScriptOK, [Next]_vars
    PROVE  \/ UNCHANGED <<at, polls, panel>>
           \/ \E n \in 1..4 : Page(n)
           \/ \E q \in Poll : Panel(q) /\ UNCHANGED <<systemVars, studentVars>>
  <1>1. CASE Do \/ Forget
    BY <1>1 DEF Do, WorkshopInit, WriteModule, TerraformApply, PlatformUp, Uncomment2, Reload, TpctlNew,
                TpctlApply, BreakRegion, MendRegion, Uncomment3, TpctlSync, EditRetention, WriteGreeting,
                GenConfig, Deploy, Execute, Machine, Next_, Forget
  <1>2. CASE MoveOn \/ StartOver \/ \E n \in Detours : Visit(n)
    BY <1>2, NextPage
  <1>3. CASE Platform \/ \E v \in Neighbours : NeighbourProvisions(v)
    BY <1>3, PlatformElsewhere DEF studentVars
  <1>4. CASE \E q \in Poll : Panel(q)
    BY <1>4 DEF Panel, ReadInventory, Unreachable, Reachable, Grade, Show, ReplyLost
  <1>5. CASE UNCHANGED vars
    BY <1>5 DEF vars, studentVars
  <1> QED
    BY <1>1, <1>2, <1>3, <1>4, <1>5 DEF Next, Student

LEMMA GradedIs ==
    ASSUME ScriptOK, NEW inventory, NEW r, NEW ran
    PROVE  /\ Graded(inventory, r, ran) \in [LABS[at].checkpoints -> Marks]
           /\ Graded(inventory, r, ran) \in Results
  <1>1. at \in 1..4
    BY LabsAre DEF ScriptOK
  <1>2. Graded(inventory, r, ran) \in [LABS[at].checkpoints -> Marks]
    BY <1>1, GradeMarks DEF Graded
  <1> QED
    BY <1>1, <1>2, MarksAreResults

(* What poll q has read or been answered, after a step of poll q. *)
LEMMA PollStep ==
    ASSUME ScriptOK, SystemOK, PanelOK, NEW q \in Poll, Panel(q)
    PROVE  \/ /\ polls' = [polls EXCEPT ![q] = [inventory |-> cloud, answer |-> None]]
              /\ panel' = panel
           \/ \E r \in {None, queryReconciler}, ran \in {None, completedRun} :
                /\ polls[q] # None
                /\ polls' = [polls EXCEPT ![q] =
                       [inventory |-> {}, answer |-> Graded(polls[q].inventory, r, ran)]]
                /\ panel' = panel
           \/ /\ Answered(q)
              /\ polls' = [polls EXCEPT ![q] = None]
              /\ panel' \in {panel, polls[q].answer}
  BY DEF Panel, ReadInventory, Unreachable, Reachable, Grade, Show, ReplyLost

LEMMA PanelType == ASSUME ScriptOK, SystemOK, PanelOK, [Next]_vars PROVE PanelOK'
  <1>1. CASE UNCHANGED <<at, polls, panel>>
    BY <1>1 DEF PanelOK
  <1>2. ASSUME NEW n, Page(n) PROVE PanelOK'
    BY <1>2 DEF Page, PanelOK
  <1>3. ASSUME NEW q \in Poll, Panel(q) PROVE PanelOK'
    <2> DEFINE Answers == Results \cup {None}
    <2>1. Reading = [inventory : SUBSET Account, answer : Answers]
      BY DEF Reading
    <2>2. None \in Answers /\ \A inventory, r, ran : Graded(inventory, r, ran) \in Answers
      BY GradedIs
    <2>3. panel \in Answers
      BY DEF PanelOK
    <2>4. Answered(q) => polls[q].answer \in Answers
      BY <2>1 DEF PanelOK, Answered
    <2> HIDE DEF Answers
    <2>5. CASE /\ polls' = [polls EXCEPT ![q] = [inventory |-> cloud, answer |-> None]]
               /\ panel' = panel
      <3>1. [inventory |-> cloud, answer |-> None] \in Reading
        BY <2>1, <2>2 DEF SystemOK
      <3> QED
        BY <2>5, <3>1 DEF PanelOK
    <2>6. ASSUME NEW r, NEW ran,
                 polls' = [polls EXCEPT ![q] =
                    [inventory |-> {}, answer |-> Graded(polls[q].inventory, r, ran)]],
                 panel' = panel
          PROVE  PanelOK'
      <3>1. [inventory |-> {}, answer |-> Graded(polls[q].inventory, r, ran)] \in Reading
        BY <2>1, <2>2
      <3> QED
        BY <2>6, <3>1 DEF PanelOK
    <2>7. CASE /\ Answered(q)
               /\ polls' = [polls EXCEPT ![q] = None]
               /\ panel' \in {panel, polls[q].answer}
      <3>1. panel' \in Answers
        BY <2>3, <2>4, <2>7
      <3> QED
        BY <2>7, <3>1 DEF PanelOK, Answers
    <2> QED
      BY <1>3, <2>5, <2>6, <2>7, PollStep
  <1> QED
    BY <1>1, <1>2, <1>3, PanelSteps

-----------------------------------------------------------------------------
(* What the polls and the panel know. *)

(* A namespace that was read is still there. *)
ReadStill ==
    \A q \in Poll : polls[q] # None => polls[q].inventory \subseteq Account
                                       /\ \A ns \in polls[q].inventory : Exists(ns.name)
(* Answers and panel are of the lab the student is on. *)
OfLab ==
    /\ \A q \in Poll : Answered(q) => DOMAIN polls[q].answer = LABS[at].checkpoints
    /\ panel # None => DOMAIN panel = LABS[at].checkpoints

(* Nobody else's namespace is named as if it were the student's. *)
Apart == \A v \in Neighbours : ~IsStrictPrefix(Me, v \o DEFAULT_SPEC)
(* The checks that no neighbour can turn green: two look a namespace up by name. *)
Sure == IF Apart THEN Checks ELSE Checks \ {"environment-provisioned", "namespace-still-healthy"}
(* No answer on its way is green for what is not so, and the panel neither. *)
Green(results) == \A c \in DOMAIN results \cap Sure : results[c] = "pass" => True(c)
Honest ==
    /\ \A q \in Poll : Answered(q) => Green(polls[q].answer)
    /\ panel # None => Green(panel)

CourseInv == TypeOK /\ Remembered /\ Built /\ ReadStill /\ OfLab
ExitInv == CourseInv /\ Honest

LEMMA ReadNext == ASSUME CourseInv, [Next]_vars PROVE ReadStill'
  <1>0. ScriptOK /\ SystemOK /\ PanelOK /\ Grows
    BY TypesAre, SystemNext DEF CourseInv, SystemInv, SystemStep
  <1>1. \A name : Exists(name) => Exists(name)'
    BY <1>0, ExistsStays
  <1>2. CASE UNCHANGED <<at, polls, panel>>
    BY <1>1, <1>2 DEF CourseInv, ReadStill
  <1>3. ASSUME NEW n, Page(n) PROVE ReadStill'
    BY <1>3 DEF Page, ReadStill
  <1>4. ASSUME NEW q \in Poll, Panel(q) PROVE ReadStill'
    <2>1. CASE polls' = [polls EXCEPT ![q] = [inventory |-> cloud, answer |-> None]]
      <3> DEFINE reading == [inventory |-> cloud, answer |-> None]
      <3>1. reading.inventory = cloud /\ cloud \subseteq Account
        BY <1>0 DEF SystemOK
      <3>2. \A ns \in cloud : Exists(ns.name)'
        <4>1. \A ns \in cloud : Exists(ns.name)
          BY DEF Exists
        <4> QED
          BY <1>1, <4>1
      <3> HIDE DEF reading
      <3>3. polls' = [polls EXCEPT ![q] = reading]
        BY <2>1 DEF reading
      <3>4. \A p \in Poll : polls'[p] = IF p = q THEN reading ELSE polls[p]
        BY <1>0, <3>3 DEF PanelOK
      <3>5. ASSUME NEW p \in Poll, polls'[p] # None
            PROVE  polls'[p].inventory \subseteq Account /\ \A ns \in polls'[p].inventory : Exists(ns.name)'
        <4>1. CASE p = q
          BY <3>1, <3>2, <3>4, <4>1
        <4>2. CASE p # q
          <5>1. polls'[p] = polls[p] /\ polls[p] # None
            BY <3>4, <3>5, <4>2
          <5> QED
            BY <1>1, <5>1 DEF CourseInv, ReadStill
        <4> QED
          BY <4>1, <4>2
      <3> QED
        BY <3>5 DEF ReadStill
    <2>2. ASSUME NEW answer, polls' = [polls EXCEPT ![q] = [inventory |-> {}, answer |-> answer]]
          PROVE  ReadStill'
      <3> DEFINE reading == [inventory |-> {}, answer |-> answer]
      <3>1. reading.inventory = {}
        OBVIOUS
      <3> HIDE DEF reading
      <3>2. \A p \in Poll : polls'[p] = IF p = q THEN reading ELSE polls[p]
        BY <1>0, <2>2 DEF PanelOK, reading
      <3> QED
        BY <1>1, <3>1, <3>2 DEF CourseInv, ReadStill
    <2>3. CASE polls' = [polls EXCEPT ![q] = None]
      <3>1. \A p \in Poll : polls'[p] = IF p = q THEN None ELSE polls[p]
        BY <1>0, <2>3 DEF PanelOK
      <3> QED
        BY <1>1, <3>1 DEF CourseInv, ReadStill
    <2> QED
      BY <1>0, <1>4, <2>1, <2>2, <2>3, PollStep
  <1> QED
    BY <1>0, <1>2, <1>3, <1>4, PanelSteps

(* What holds of a grade made now holds of every answer on its way and of the
   panel: the one argument for OfLab and for Honest. *)
LEMMA AnswersNext ==
    ASSUME ScriptOK, SystemOK, PanelOK, NEW Good, NEW q \in Poll, Panel(q),
           \A p \in Poll : Answered(p) => polls[p].answer \in Good,
           panel # None => panel \in Good,
           polls[q] # None => \A r \in {None, queryReconciler}, ran \in {None, completedRun} :
               Graded(polls[q].inventory, r, ran) \in Good
    PROVE  /\ \A p \in Poll : polls'[p] # None /\ polls'[p].answer # None => polls'[p].answer \in Good
           /\ panel' # None => panel' \in Good
  <1>0. DOMAIN polls = Poll
    BY DEF PanelOK
  <1>1. CASE /\ polls' = [polls EXCEPT ![q] = [inventory |-> cloud, answer |-> None]]
             /\ panel' = panel
    <2> DEFINE reading == [inventory |-> cloud, answer |-> None]
    <2>1. reading.answer = None
      OBVIOUS
    <2> HIDE DEF reading
    <2>2. \A p \in Poll : polls'[p] = IF p = q THEN reading ELSE polls[p]
      BY <1>0, <1>1 DEF reading
    <2> QED
      BY <1>1, <2>1, <2>2 DEF Answered
  <1>2. ASSUME NEW answer \in Good, polls' = [polls EXCEPT ![q] = [inventory |-> {}, answer |-> answer]],
               panel' = panel
        PROVE  /\ \A p \in Poll : polls'[p] # None /\ polls'[p].answer # None => polls'[p].answer \in Good
               /\ panel' # None => panel' \in Good
    <2> DEFINE reading == [inventory |-> {}, answer |-> answer]
    <2>1. reading.answer = answer
      OBVIOUS
    <2> HIDE DEF reading
    <2>2. \A p \in Poll : polls'[p] = IF p = q THEN reading ELSE polls[p]
      BY <1>0, <1>2 DEF reading
    <2> QED
      BY <1>2, <2>1, <2>2 DEF Answered
  <1>3. CASE /\ Answered(q)
             /\ polls' = [polls EXCEPT ![q] = None]
             /\ panel' \in {panel, polls[q].answer}
    <2>1. \A p \in Poll : polls'[p] = IF p = q THEN None ELSE polls[p]
      BY <1>0, <1>3
    <2> QED
      BY <1>3, <2>1 DEF Answered
  <1> QED
    BY <1>1, <1>2, <1>3, PollStep

LEMMA OfLabNext == ASSUME CourseInv, [Next]_vars PROVE OfLab'
  <1>0. ScriptOK /\ SystemOK /\ PanelOK
    BY TypesAre DEF CourseInv
  <1>1. CASE UNCHANGED <<at, polls, panel>>
    BY <1>1 DEF CourseInv, OfLab, Answered
  <1>2. ASSUME NEW n, Page(n) PROVE OfLab'
    BY <1>2 DEF Page, OfLab, Answered
  <1>3. ASSUME NEW q \in Poll, Panel(q), UNCHANGED studentVars PROVE OfLab'
    <2> DEFINE Good == {results \in Results : DOMAIN results = LABS[at].checkpoints}
    <2>1. \A p \in Poll : Answered(p) => polls[p].answer \in Good
      <3>1. \A p \in Poll : Answered(p) => polls[p].answer \in Results
        BY <1>0 DEF PanelOK, Reading, Answered
      <3> QED
        BY <3>1 DEF CourseInv, OfLab
    <2>2. panel # None => panel \in Good
      BY <1>0 DEF PanelOK, CourseInv, OfLab
    <2>3. \A inventory, r, ran : Graded(inventory, r, ran) \in Good
      BY <1>0, GradedIs
    <2> HIDE DEF Good
    <2>4. /\ \A p \in Poll : polls'[p] # None /\ polls'[p].answer # None => polls'[p].answer \in Good
          /\ panel' # None => panel' \in Good
      BY <1>0, <1>3, <2>1, <2>2, <2>3, AnswersNext
    <2>5. at' = at
      BY <1>3 DEF studentVars
    <2> QED
      BY <2>4, <2>5 DEF OfLab, Answered, Good
  <1> QED
    BY <1>0, <1>1, <1>2, <1>3, PanelSteps

LEMMA CourseStep == CourseInv /\ [Next]_vars => CourseInv'
  <1> SUFFICES ASSUME CourseInv, [Next]_vars PROVE CourseInv'
    OBVIOUS
  <1>1. ScriptOK' /\ SystemOK' /\ PanelOK' /\ Remembered' /\ Built'
    BY TypesAre, ScriptStep, SystemNext, PanelType, BuiltNext DEF CourseInv, SystemInv, SystemStep
  <1>2. TypeOK'
    BY <1>1 DEF TypeOK, ScriptOK, SystemOK, PanelOK
  <1> QED
    BY <1>1, <1>2, ReadNext, OfLabNext DEF CourseInv

LEMMA CourseInit == Init => CourseInv
  <1> SUFFICES ASSUME Init PROVE CourseInv
    OBVIOUS
  <1>1. ScriptOK
    <2>1. Command(1) \in Seq(STRING)
      BY CommandsTyped
    <2>2. SubSeq(Command(1), 1, Len(Command(1))) = Command(1) /\ Len(Command(1)) \in Nat
      BY <2>1, SubSeqFull, LenProperties
    <2>3. 1 \in 1..Len(Command(1)) + 1
      BY <2>2
    <2>4. \E i \in 1..Len(Command(1)) + 1 : Command(1) = SubSeq(Command(1), i, Len(Command(1)))
      BY <2>2, <2>3
    <2> QED
      BY <2>4, LabsAre, BoundsNat DEF Init, ScriptOK
  <1>2. SystemOK
    <2>1. \A name \in Strays : Namespace(name, EditedRetention, "active") \in Account
      BY DEF Namespace, Account, Names
    <2>2. cloud \in SUBSET Account
      BY <2>1 DEF Init
    <2>3. sandbox \in Sandbox
      BY DEF Init, Sandbox
    <2> QED
      BY <2>2, <2>3, BoundsNat DEF Init, SystemOK
  <1>3. PanelOK
    BY DEF Init, PanelOK
  <1>4. Built
    BY DEF Init, Built
  <1> QED
    BY <1>1, <1>2, <1>3, <1>4, TypesAre DEF Init, CourseInv, Remembered, ReadStill, OfLab, Answered

LEMMA CourseAlways == Spec => []CourseInv
  BY CourseInit, CourseStep, PTL DEF Spec

-----------------------------------------------------------------------------
(* What the names say, in this account. *)

LEMMA UsersAre ==
    /\ \A v \in {Me} \cup Neighbours : v \in User /\ v \in Name
    /\ "orders" \in Part /\ DEFAULT_SPEC = <<"orders">> /\ DEFAULT_SPEC \in Name /\ DEFAULT_SPEC # <<>>
    /\ "staging" \in Environment
  <1>1. \A v \in {Me} \cup Neighbours : v \in User
    BY Usernames, StringNames, Zenon DEF User
  <1>2. "orders" \in Part /\ "staging" \in Environment
    BY Words DEF Environment
  <1>3. DEFAULT_SPEC = <<"orders">> /\ DEFAULT_SPEC \in Name /\ DEFAULT_SPEC # <<>>
    BY <1>2, Single, EmptySeq DEF DEFAULT_SPEC
  <1> QED
    BY <1>1, <1>2, <1>3, Zenon DEF User

(* Nobody's environments are not the student's: nothing is before the spec, or an empty name. *)
LEMMA StraysAreNobodys ==
    ASSUME NEW name \in Strays PROVE parsePhysicalName(name, Me) = {} /\ splitPhysicalName(name) = {}
  <1>0. PICK v \in Nobody : name = physicalNamespace(v, DEFAULT_SPEC, "staging")
    BY Zenon DEF Strays, theirs, Nobody
  <1>1. v \in Name
    BY NobodysNames
  <1>2. ~IsStrictPrefix(Me, v \o DEFAULT_SPEC)
    BY UsersAre, NobodyBegins
  <1>3. parsePhysicalName(name, Me) = {}
    BY <1>0, <1>1, <1>2, UsersAre, TakenFor
  <1>4. splitPhysicalName(name) = {}
    BY <1>0, UsersAre, SplitFindsNobody
  <1> QED
    BY <1>3, <1>4

LEMMA AccountNames ==
    /\ parsePhysicalName(Control, Me) = {}
    /\ Apart => \A v \in Neighbours : parsePhysicalName(theirs(v), Me) = {}
    /\ parsePhysicalName(Staging, Me) = {[user |-> Me, spec |-> DEFAULT_SPEC, env |-> "staging"]}
  <1>1. ~Matches(Control)
    BY UsersAre, ControlMatchesNot DEF Control
  <1>2. Apart => \A v \in Neighbours : parsePhysicalName(theirs(v), Me) = {}
    BY UsersAre, TakenFor DEF theirs, Apart
  <1>3. parsePhysicalName(Staging, Me) = {[user |-> Me, spec |-> DEFAULT_SPEC, env |-> "staging"]}
    BY UsersAre, OwnNamesParse DEF Staging
  <1> QED
    BY <1>1, <1>2, <1>3 DEF parsePhysicalName

(* An environment found for the student is the student's. *)
LEMMA MineIsMine ==
    ASSUME Apart, NEW inventory \in SUBSET Account, NEW e, NEW ns \in env(inventory, Me, e)
    PROVE  ns \in inventory /\ ns.name = Staging
  <1>1. ns \in inventory /\ parsePhysicalName(ns.name, Me) # {}
    BY DEF env, mine
  <1>2. ns.name \in Names
    BY <1>1 DEF Account
  <1> QED
    BY <1>1, <1>2, AccountNames, StraysAreNobodys DEF Names

(* A grade of what is there and of what the reconciler and the workflow said is
   green only for what is so. *)
LEMMA GradesAreTrue ==
    ASSUME SystemInv, NEW n \in 1..4, NEW inventory \in SUBSET Account,
           \A ns \in inventory : Exists(ns.name),
           NEW r \in {None, queryReconciler}, NEW ran \in {None, completedRun}
    PROVE  Green(gradeLab(n, Me, inventory, r, ran))
  <1>2. \A cs : \A c \in cs : blockedAll(cs)[c] # "pass"
    BY DEF blockedAll
  <1>3. Apart /\ (\E e : env(inventory, Me, e) # {}) => Exists(Staging)
    BY MineIsMine
  <1>10. ~Apart => \A c \in Sure : c \notin {"environment-provisioned", "namespace-still-healthy"}
    BY DEF Sure
  <1>4. r # None => Told(r, seen)
    BY DEF queryReconciler, SystemInv, Remembered
  <1>5. ran = TRUE => greeting = "completed"
    BY Undefined DEF completedRun
  <1>6. ASSUME n = 1 PROVE Green(gradeLab(n, Me, inventory, r, ran))
    <2>1. gradeLab(n, Me, inventory, r, ran) = grade1(inventory, Me)
      BY <1>6 DEF gradeLab
    <2>2. control(inventory, Me) # {} => Exists(Control)
      BY DEF control, Control
    <2>3. control(inventory, Me) = {} => grade1(inventory, Me) = blockedAll(lab1Checkpoints)
      BY DEF grade1
    <2>4. DOMAIN grade1(inventory, Me) = lab1Checkpoints
      BY <1>6, <2>1, GradeMarks, LabsAre
    <2>5. ASSUME NEW c \in lab1Checkpoints, grade1(inventory, Me)[c] = "pass" PROVE True(c)
      <3>1. Exists(Control)
        BY <1>2, <2>2, <2>3, <2>5
      <3> QED
        BY <3>1 DEF True, lab1Checkpoints
    <2> QED
      BY <2>1, <2>4, <2>5 DEF Green
  <1>7. ASSUME n = 2 PROVE Green(gradeLab(n, Me, inventory, r, ran))
    <2>1. gradeLab(n, Me, inventory, r, ran) = grade2(inventory, Me)
      BY <1>7 DEF gradeLab
    <2>2. Apart /\ ~Exists(Staging) => grade2(inventory, Me) = blockedAll(lab2Checkpoints)
      BY <1>3 DEF grade2
    <2>3. DOMAIN grade2(inventory, Me) = lab2Checkpoints
      BY <1>7, <2>1, GradeMarks, LabsAre
    <2>4. ASSUME NEW c \in lab2Checkpoints \cap Sure, grade2(inventory, Me)[c] = "pass" PROVE True(c)
      <3>1. Exists(Staging)
        BY <1>2, <1>10, <2>2, <2>4 DEF lab2Checkpoints
      <3> QED
        BY <3>1 DEF True, lab2Checkpoints, lab1Checkpoints
    <2> QED
      BY <2>1, <2>3, <2>4 DEF Green
  <1>8. ASSUME n = 3 PROVE Green(gradeLab(n, Me, inventory, r, ran))
    <2>1. gradeLab(n, Me, inventory, r, ran) = grade3(r)
      BY <1>8 DEF gradeLab
    <2>2. r = None => grade3(r) = blockedAll(lab3Checkpoints)
      BY DEF grade3
    <2>3. DOMAIN grade3(r) = lab3Checkpoints
      BY <1>8, <2>1, GradeMarks, LabsAre
    <2>4. ASSUME NEW c \in lab3Checkpoints, grade3(r)[c] = "pass" PROVE True(c)
      <3>1. r # None
        BY <1>2, <2>2, <2>4
      <3>2. c = "reconciler-running" => r.reconciles >= 1
        BY <2>4, <3>1 DEF grade3, Result, lab3Checkpoints
      <3>3. c = "retention-drift-corrected" => r.lastDrift = "retention"
        BY <2>4, <3>1 DEF grade3, Result, lab3Checkpoints
      <3> QED
        BY <1>4, <3>1, <3>2, <3>3 DEF True, Told, lab3Checkpoints, lab1Checkpoints
    <2> QED
      BY <2>1, <2>3, <2>4 DEF Green
  <1>9. ASSUME n = 4 PROVE Green(gradeLab(n, Me, inventory, r, ran))
    <2>1. gradeLab(n, Me, inventory, r, ran) = grade4(inventory, Me, ran)
      BY <1>9 DEF gradeLab
    <2>2. Apart /\ ~Exists(Staging) => grade4(inventory, Me, ran) = blockedAll(lab4Checkpoints)
      BY <1>3 DEF grade4
    <2>3. DOMAIN grade4(inventory, Me, ran) = lab4Checkpoints
      BY <1>9, <2>1, GradeMarks, LabsAre
    <2>4. ASSUME NEW c \in lab4Checkpoints \cap Sure, grade4(inventory, Me, ran)[c] = "pass" PROVE True(c)
      <3>1. c = "namespace-still-healthy" => Exists(Staging)
        BY <1>2, <1>10, <2>2, <2>4
      <3>2. c = "greeting-workflow-ran" => ran = TRUE
        BY <1>2, <2>4 DEF grade4, Result, lab4Checkpoints
      <3> QED
        BY <1>5, <3>1, <3>2, <2>4 DEF True, lab4Checkpoints, lab1Checkpoints
    <2> QED
      BY <2>1, <2>3, <2>4 DEF Green
  <1> QED
    BY <1>6, <1>7, <1>8, <1>9

(* What is so stays so. *)
LEMMA TrueStays == ASSUME Grows, NEW c \in Checks, True(c) PROVE True(c)'
  <1>1. /\ Exists(Control) => Exists(Control)'
        /\ Exists(Staging) => Exists(Staging)'
    BY ExistsStays DEF Control, Staging
  <1>2. CASE c \in lab1Checkpoints
    BY <1>1, <1>2 DEF True, lab1Checkpoints
  <1>3. CASE c \in {"environment-provisioned", "namespace-still-healthy"}
    BY <1>1, <1>3 DEF True, lab1Checkpoints
  <1>4. CASE c = "reconciler-running"
    BY <1>4 DEF True, lab1Checkpoints, Grows
  <1>5. CASE c = "retention-drift-corrected"
    BY <1>5 DEF True, lab1Checkpoints, Grows
  <1>6. CASE c = "greeting-workflow-ran"
    BY <1>6 DEF True, lab1Checkpoints, Grows
  <1> QED
    BY <1>2, <1>3, <1>4, <1>5, <1>6 DEF Checks, lab2Checkpoints, lab3Checkpoints, lab4Checkpoints

LEMMA LabChecks == \A n \in 1..4 : LABS[n].checkpoints \subseteq Checks
  BY LabsAre DEF Checks

LEMMA HonestNext == ASSUME ExitInv, [Next]_vars PROVE Honest'
  <1>0. ScriptOK /\ SystemInv /\ SystemOK /\ PanelOK /\ Grows /\ at \in 1..4
    BY TypesAre, SystemNext, LabsAre DEF ExitInv, CourseInv, SystemInv, SystemStep, ScriptOK
  <1>1. CASE UNCHANGED <<at, polls, panel>>
    <2>1. ASSUME NEW q \in Poll, Answered(q)' PROVE Green(polls[q].answer)'
      <3>1. Answered(q) /\ polls'[q] = polls[q]
        BY <1>1, <2>1 DEF Answered
      <3>2. Green(polls[q].answer) /\ DOMAIN polls[q].answer \subseteq Checks
        BY <1>0, <3>1, LabChecks DEF ExitInv, CourseInv, Honest, OfLab
      <3>3. \A c \in DOMAIN polls[q].answer \cap Sure : polls[q].answer[c] = "pass" => True(c)'
        BY <1>0, <3>2, TrueStays DEF Green
      <3> QED
        BY <3>1, <3>3 DEF Green
    <2>2. ASSUME panel' # None PROVE Green(panel)'
      <3>1. Green(panel) /\ DOMAIN panel \subseteq Checks /\ panel' = panel
        BY <1>0, <1>1, <2>2, LabChecks DEF ExitInv, CourseInv, Honest, OfLab
      <3>2. \A c \in DOMAIN panel \cap Sure : panel[c] = "pass" => True(c)'
        BY <1>0, <3>1, TrueStays DEF Green
      <3> QED
        BY <3>1, <3>2 DEF Green
    <2> QED
      BY <2>1, <2>2 DEF Honest
  <1>2. ASSUME NEW n, Page(n) PROVE Honest'
    BY <1>2 DEF Page, Honest, Answered
  <1>3. ASSUME NEW q \in Poll, Panel(q), UNCHANGED <<systemVars, studentVars>> PROVE Honest'
    <2> DEFINE Good == {results \in Results : Green(results)}
    <2>1. \A p \in Poll : Answered(p) => polls[p].answer \in Good
      <3>1. \A p \in Poll : Answered(p) => polls[p].answer \in Results
        BY <1>0 DEF PanelOK, Reading, Answered
      <3> QED
        BY <3>1 DEF ExitInv, Honest
    <2>2. panel # None => panel \in Good
      BY <1>0 DEF PanelOK, ExitInv, Honest
    <2>3. ASSUME polls[q] # None, NEW r \in {None, queryReconciler}, NEW ran \in {None, completedRun}
          PROVE  Graded(polls[q].inventory, r, ran) \in Good
      <3>1. polls[q].inventory \in SUBSET Account /\ \A ns \in polls[q].inventory : Exists(ns.name)
        BY <2>3 DEF ExitInv, CourseInv, ReadStill
      <3>2. Green(Graded(polls[q].inventory, r, ran))
        BY <1>0, <3>1, GradesAreTrue DEF Graded
      <3> QED
        BY <1>0, <3>2, GradedIs
    <2>4. \A results : Green(results)' <=> Green(results)
      BY <1>3 DEF Green, True, Exists, Control, Staging, systemVars
    <2> HIDE DEF Good
    <2>5. /\ \A p \in Poll : polls'[p] # None /\ polls'[p].answer # None => polls'[p].answer \in Good
          /\ panel' # None => panel' \in Good
      BY <1>0, <1>3, <2>1, <2>2, <2>3, AnswersNext
    <2>6. \A results \in Good : Green(results)'
      BY <2>4 DEF Good
    <2>7. ASSUME NEW p \in Poll, Answered(p)' PROVE Green(polls[p].answer)'
      <3>1. polls'[p].answer \in Good
        BY <2>5, <2>7 DEF Answered
      <3>2. \A c \in DOMAIN polls'[p].answer \cap Sure : polls'[p].answer[c] = "pass" => True(c)'
        BY <2>6, <3>1 DEF Green
      <3> QED
        BY <3>2 DEF Green
    <2>8. ASSUME panel' # None PROVE Green(panel)'
      <3>1. \A c \in DOMAIN panel' \cap Sure : panel'[c] = "pass" => True(c)'
        BY <2>5, <2>6, <2>8 DEF Green
      <3> QED
        BY <3>1 DEF Green
    <2> QED
      BY <2>7, <2>8 DEF Honest
  <1> QED
    BY <1>0, <1>1, <1>2, <1>3, PanelSteps

LEMMA ExitStep == ExitInv /\ [Next]_vars => ExitInv'
  BY CourseStep, HonestNext DEF ExitInv

LEMMA ExitInit == Init => ExitInv
  BY CourseInit DEF Init, Honest, Answered, ExitInv

LEMMA ExitAlways == Spec => []ExitInv
  BY ExitInit, ExitStep, PTL DEF Spec

-----------------------------------------------------------------------------
(* The instructor's rows, in this account. *)

LEMMA AccountSplits ==
    /\ splitPhysicalName(Control) = {}
    /\ \A v \in {Me} \cup Neighbours :
          splitPhysicalName(physicalNamespace(v, DEFAULT_SPEC, "staging")) =
             {[user |-> v, spec |-> DEFAULT_SPEC, env |-> "staging"]}
  <1>1. ~Matches(Control)
    BY UsersAre, ControlMatchesNot DEF Control
  <1>2. ASSUME NEW v \in {Me} \cup Neighbours
        PROVE  splitPhysicalName(physicalNamespace(v, DEFAULT_SPEC, "staging")) =
                  {[user |-> v, spec |-> DEFAULT_SPEC, env |-> "staging"]}
    <2>1. v \in User
      BY UsersAre
    <2> QED
      BY <2>1, UsersAre, SplitFindsStudent
  <1> QED
    BY <1>1, <1>2, Zenon DEF splitPhysicalName

LEMMA RowsOfAccount == ASSUME cloud \in SUBSET Account PROVE RowsAreStudents
  <1> DEFINE Students_ == {Me} \cup Neighbours
             Parse(v) == [user |-> v, spec |-> DEFAULT_SPEC, env |-> "staging"]
             name(v) == physicalNamespace(v, DEFAULT_SPEC, "staging")
             here == {v \in Students_ : Exists(name(v))}
             parsed == UNION {splitPhysicalName(ns.name) : ns \in cloud}
             Row(u) == [username |-> u, environments |-> {p.env : p \in {q \in parsed : q.user = u}},
                        namespaces |-> Cardinality({q \in parsed : q.user = u})]
  <1>1. readCohort(cloud) = {Row(u) : u \in {p.user : p \in parsed}}
    BY Zenon DEF readCohort
  <1>2. \A ns \in cloud : ns.name = Control \/ ns.name \in Strays \/ \E v \in Students_ : ns.name = name(v)
    <2>1. \A ns \in cloud : ns.name \in Names
      BY DEF Account
    <2> QED
      BY <2>1, Zenon DEF Names, Staging, theirs
  <1>3. \A v \in here : \E ns \in cloud : ns.name = name(v)
    BY Zenon DEF Exists
  <1>4. \A ns \in cloud, v \in Students_ : ns.name = name(v) => v \in here
    BY Zenon DEF Exists
  <1>5. /\ splitPhysicalName(Control) = {} /\ \A stray \in Strays : splitPhysicalName(stray) = {}
        /\ \A v \in Students_ : splitPhysicalName(name(v)) = {Parse(v)}
    BY AccountSplits, StraysAreNobodys, Zenon
  <1>6. here \subseteq Students_
    OBVIOUS
  <1>7. \A v, w : Parse(v).user = v /\ Parse(v).env = "staging" /\ (Parse(v) = Parse(w) => v = w)
    OBVIOUS
  <1> HIDE DEF name, here, Parse, Students_
  <1>8. \A q : q \in parsed <=> \E v \in here : q = Parse(v)
    <2>1. ASSUME NEW q, NEW ns \in cloud, q \in splitPhysicalName(ns.name)
          PROVE  \E v \in here : q = Parse(v)
      <3>1. PICK v \in Students_ : ns.name = name(v)
        BY <1>2, <1>5, <2>1
      <3> QED
        BY <1>4, <1>5, <2>1, <3>1
    <2>2. ASSUME NEW v \in here PROVE \E ns \in cloud : Parse(v) \in splitPhysicalName(ns.name)
      BY <1>3, <1>5, <1>6
    <2> QED
      BY <2>1, <2>2
  <1> HIDE DEF parsed
  <1>9. {p.user : p \in parsed} = here
    BY <1>7, <1>8
  <1>10. ASSUME NEW u \in here
         PROVE  Row(u) = [username |-> u, environments |-> {"staging"}, namespaces |-> 1]
    <2>1. {q \in parsed : q.user = u} = {Parse(u)}
      BY <1>7, <1>8
    <2>2. {p.env : p \in {Parse(u)}} = {"staging"}
      BY <1>7
    <2>3. Cardinality({Parse(u)}) = 1
      BY FS_Singleton
    <2> QED
      BY <2>1, <2>2, <2>3
  <1> HIDE DEF Row
  <1>11. readCohort(cloud) =
           {[username |-> u, environments |-> {"staging"}, namespaces |-> 1] : u \in here}
    BY <1>1, <1>9, <1>10
  <1> QED
    BY <1>11 DEF RowsAreStudents, here, name, Students_

-----------------------------------------------------------------------------
(* Every reachable state of the course has its types: what is left to do is
   always the rest of the lab's commands, and the panel is one of the labs'. *)
THEOREM CourseTypeCorrect == Spec => []TypeOK
  <1>1. CourseInv => TypeOK
    BY DEF CourseInv
  <1> QED
    BY CourseAlways, <1>1, PTL

(* As long as no other student's names begin with the student's, a check that is
   green on the panel is true of the student's own platform, whatever became
   stale between the reads, the answer and the panel. *)
THEOREM GreenIsOwn == ASSUME Apart PROVE Spec => []OwnGreen
  <1>1. ExitInv => OwnGreen
    <2>1. Sure = Checks
      BY DEF Sure
    <2>2. CourseInv => (panel # None => DOMAIN panel = LABS[at].checkpoints /\ DOMAIN panel \subseteq Checks)
      BY TypesAre, LabsAre, LabChecks DEF CourseInv, OfLab, ScriptOK
    <2> QED
      BY <2>1, <2>2 DEF ExitInv, Honest, Green, OwnGreen
  <1> QED
    BY ExitAlways, <1>1, PTL

(* Whoever else is in the account, and whichever pages and commands the student
   passed over: when the last lab's checks are all green, the last workflow ran
   on a worker that was deployed with the credential of the student's namespace,
   made by a platform that stands on the control namespace. *)
THEOREM LastCheckEarned == Spec => []Earned
  <1>1. ExitInv => Earned
    <2> SUFFICES ASSUME ExitInv, at = Len(LABS), AllGreen PROVE
                    /\ greeting = "completed" /\ Exists(Control) /\ Exists(Staging)
                    /\ sandbox.worker # None /\ sandbox.credential /\ sandbox.deployed
      BY DEF Earned
    <2>1. panel # None /\ DOMAIN panel = lab4Checkpoints
      BY LabsAre DEF AllGreen, ExitInv, CourseInv, OfLab
    <2>2. "greeting-workflow-ran" \in lab4Checkpoints \cap Sure
      BY DEF lab4Checkpoints, Sure, Checks
    <2>3. True("greeting-workflow-ran")
      BY <2>1, <2>2 DEF AllGreen, ExitInv, Honest, Green
    <2>4. greeting = "completed"
      BY <2>3 DEF True, lab1Checkpoints
    <2> QED
      BY <2>4 DEF ExitInv, CourseInv, Built
  <1> QED
    BY ExitAlways, <1>1, PTL

(* The instructor's rows are exactly the students with a provisioned platform,
   each with its one environment: neither a control namespace nor a name that
   has no username in it makes a row, and nobody's names are read as another's,
   however many students there are and however alike their usernames. *)
THEOREM InstructorSeesStudents == Spec => []RowsAreStudents
  <1>1. CourseInv => RowsAreStudents
    BY TypesAre, RowsOfAccount DEF CourseInv, SystemOK
  <1> QED
    BY CourseAlways, <1>1, PTL
=============================================================================
