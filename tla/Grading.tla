------------------------------- MODULE Grading -------------------------------
(***************************************************************************)
(* The exit check: what src/portal/src/course/grading.ts and the labs'     *)
(* grade() functions make of the Cloud account, of the reconciler's status *)
(* query and of the last lab's workflow, for one username; and the rows of *)
(* the instructor's view.  A name is the sequence of its parts between     *)
(* hyphens, since a username may itself contain hyphens.                   *)
(***************************************************************************)
EXTENDS Labs, FiniteSets, SequencesExt

CONSTANT None                   \* undefined: nothing there, or nothing reached
ASSUME Undefined == None # TRUE
DEFAULT_SPEC == <<"orders">>
Environment == {"staging", "prod"}

controlNamespace(user) == <<"ws">> \o user \o <<"control">>
physicalNamespace(user, spec, env) == <<"ws">> \o user \o spec \o <<env>>

(* ws-<middle>-<environment>. *)
Matches(name) == Len(name) >= 3 /\ Head(name) = "ws" /\ Last(name) \in Environment
Middle(name) == SubSeq(name, 2, Len(name) - 1)

\* Mutant of parsePhysicalName: whatever stands between prefix and environment will do.
parsePhysicalNameAny(name, user) ==
    IF Matches(name) THEN {[user |-> user, spec |-> Middle(name), env |-> Last(name)]} ELSE {}

(* With a username to anchor on: the set of the one parse, or nothing. *)
parsePhysicalName(name, user) ==
    IF Matches(name) /\ IsStrictPrefix(user, Middle(name))
    THEN {[user |-> user, spec |-> SubSeq(Middle(name), Len(user) + 1, Len(Middle(name))),
           env |-> Last(name)]}
    ELSE {}

\* Mutant of splitPhysicalName: any last hyphen will do (cut < 0 for cut <= 0).
splitPhysicalNameBare(name) ==
    IF Matches(name) /\ Len(Middle(name)) >= 2
    THEN {[user |-> Front(Middle(name)), spec |-> <<Last(Middle(name))>>, env |-> Last(name)]}
    ELSE {}

(* Without one: split at the last hyphen, unless there is none or nothing is
   before it. *)
splitPhysicalName(name) ==
    IF Matches(name) /\ Len(Middle(name)) >= 2 /\ Front(Middle(name)) # <<"">>
    THEN {[user |-> Front(Middle(name)), spec |-> <<Last(Middle(name))>>, env |-> Last(name)]}
    ELSE {}

-----------------------------------------------------------------------------
(* The checks.  An inventory is a set of namespaces; nothing tags them any
   more, so a namespace is the student's by its name. *)

mine(inventory, user) == {ns \in inventory : parsePhysicalName(ns.name, user) # {}}
env(inventory, user, e) ==
    {ns \in mine(inventory, user) : \E p \in parsePhysicalName(ns.name, user) : p.env = e}
control(inventory, user) == {ns \in inventory : ns.name = controlNamespace(user)}

Result(ok) == IF ok THEN "pass" ELSE "fail"
blockedAll(checkpoints) == [c \in checkpoints |-> "blocked"]

grade1(inventory, user) ==
    IF control(inventory, user) = {} THEN blockedAll(lab1Checkpoints)
    ELSE LET ns == CHOOSE x \in control(inventory, user) : TRUE IN
         [c \in lab1Checkpoints |->
             CASE c = "control-namespace-exists" -> "pass"
               [] c = "api-key-auth" -> Result(ns.apiKeyAuth)
               [] c = "retention-set" -> Result(ns.retention \in 1..90)]

\* Mutant of grade2: only prod counts.
grade2Prod(inventory, user) ==
    IF env(inventory, user, "prod") = {} THEN blockedAll(lab2Checkpoints)
    ELSE [c \in lab2Checkpoints |-> "pass"]

grade2(inventory, user) ==
    IF env(inventory, user, "staging") \cup env(inventory, user, "prod") = {}
    THEN blockedAll(lab2Checkpoints)
    ELSE [c \in lab2Checkpoints |-> "pass"]

(* `ok` says whether some environment's last reconcile succeeded. *)
grade3(r) ==
    IF r = None THEN blockedAll(lab3Checkpoints)
    ELSE [c \in lab3Checkpoints |->
             CASE c = "reconciler-running" -> Result(r.reconciles >= 1)
               [] c = "retention-drift-corrected" ->
                      Result(r.driftsDetected >= 1 /\ r.lastDrift = "retention" /\ r.ok)]

(* The states that have "activ" in their name: an update under way has not. *)
Activ == {"active", "activating"}

\* Mutant of grade4: a namespace that cannot be asked is as good as one that ran it.
grade4Unasked(inventory, user, ran) ==
    IF env(inventory, user, "staging") = {} THEN blockedAll(lab4Checkpoints)
    ELSE LET staging == CHOOSE ns \in env(inventory, user, "staging") : TRUE IN
         [c \in lab4Checkpoints |->
             CASE c = "namespace-still-healthy" -> Result(staging.state \in Activ)
               [] c = "greeting-workflow-ran" -> Result(ran # FALSE)]

grade4(inventory, user, ran) ==
    IF env(inventory, user, "staging") = {} THEN blockedAll(lab4Checkpoints)
    ELSE LET staging == CHOOSE ns \in env(inventory, user, "staging") : TRUE IN
         [c \in lab4Checkpoints |->
             CASE c = "namespace-still-healthy" -> Result(staging.state \in Activ)
               [] c = "greeting-workflow-ran" -> Result(ran = TRUE)]

gradeLab(n, user, inventory, reconciler, ran) ==
    CASE n = 1 -> grade1(inventory, user)
      [] n = 2 -> grade2(inventory, user)
      [] n = 3 -> grade3(reconciler)
      [] n = 4 -> grade4(inventory, user, ran)

-----------------------------------------------------------------------------
(* The instructor's rows: username, environments, number of namespaces. *)
readCohort(inventory) ==
    LET parsed == UNION {splitPhysicalName(ns.name) : ns \in inventory} IN
    {[username |-> u,
      environments |-> {p.env : p \in {q \in parsed : q.user = u}},
      namespaces |-> Cardinality({q \in parsed : q.user = u})] : u \in {p.user : p \in parsed}}
=============================================================================
