-------------------------------- MODULE Labs --------------------------------
(***************************************************************************)
(* The four labs as the portal defines them (src/portal/src/course/labs):  *)
(* what each step has the student do that changes something, the snippets  *)
(* it shows in place, the checkpoint it says it satisfies; the snippets    *)
(* and the checkpoints.  The prose is left out.                            *)
(***************************************************************************)
EXTENDS Naturals, Sequences

LabStep(does, claims, grades) == [does |-> does, claims |-> claims, grades |-> grades]
Nothing == "-"                  \* a step that grades no checkpoint

(* A snippet with a path is a file snippets:emit writes; a hidden one is
   written and not shown. *)
File(path) == [key |-> path, path |-> TRUE, hidden |-> FALSE]
HiddenFile(path) == [key |-> path, path |-> TRUE, hidden |-> TRUE]
Excerpt(id) == [key |-> id, path |-> FALSE, hidden |-> FALSE]
snippetKey(snippet) == snippet.key

-----------------------------------------------------------------------------
lab1Steps ==
    << LabStep(<<"init">>, {}, Nothing),
       LabStep(<<"write module">>, {"main.tf", "outputs.tf"}, Nothing),
       LabStep(<<>>, {}, Nothing),                             \* validate
       LabStep(<<>>, {}, Nothing),                             \* workshop check
       LabStep(<<"terraform apply">>, {}, Nothing),
       LabStep(<<>>, {}, "control-namespace-exists") >>        \* namespace get
lab1Snippets == <<File("main.tf"), File("outputs.tf")>>
lab1Checkpoints == {"control-namespace-exists", "api-key-auth", "retention-set"}

lab2Reading ==
    << LabStep(<<"platform-up">>, {}, Nothing),
       LabStep(<<>>, {}, Nothing),                             \* k9s
       LabStep(<<>>, {"spec-example"}, Nothing),
       LabStep(<<>>, {}, Nothing),                             \* register.go
       LabStep(<<>>, {"environment-workflow"}, Nothing),
       LabStep(<<>>, {"environment-return"}, Nothing) >>
lab2Doing ==
    << LabStep(<<"uncomment 2", "reload">>, {"register-challenge-2"}, Nothing),
       LabStep(<<"tpctl new">>, {"tpctl-new-output"}, Nothing),
       LabStep(<<"tpctl apply">>, {}, "environment-provisioned"),
       LabStep(<<>>, {}, Nothing),                             \* the Cloud UI
       LabStep(<<>>, {}, Nothing),                             \* vault kv get
       LabStep(<<"break region", "tpctl apply", "mend region">>, {}, Nothing) >>
lab2Snippets ==
    << Excerpt("spec-example"), Excerpt("tpctl-new-output"), Excerpt("environment-workflow"),
       Excerpt("environment-return"), Excerpt("register-challenge-2"), HiddenFile("register.go") >>
lab2Checkpoints == {"environment-provisioned"}

lab3Steps ==
    << LabStep(<<>>, {"reconciler-switch"}, Nothing),
       LabStep(<<>>, {"wait-select"}, Nothing),
       LabStep(<<"uncomment 3", "reload", "tpctl sync">>, {"register-challenge-3"}, "reconciler-running"),
       LabStep(<<"tpctl sync">>, {}, Nothing),
       LabStep(<<"edit retention">>, {}, Nothing),
       LabStep(<<>>, {}, "retention-drift-corrected") >>       \* tpctl status
\* Mutant of lab3Snippets: the excerpt a step claims has gone.
lab3SnippetsShort == <<Excerpt("reconciler-switch"), Excerpt("register-challenge-3")>>
lab3Snippets == <<Excerpt("reconciler-switch"), Excerpt("wait-select"), Excerpt("register-challenge-3")>>
lab3Checkpoints == {"reconciler-running", "retention-drift-corrected"}

lab4Writing ==
    << LabStep(<<"write greeting">>, {"greeting.py"}, Nothing),
       LabStep(<<>>, {"worker-layout"}, Nothing),
       LabStep(<<>>, {}, Nothing) >>                           \* pytest
lab4Running ==
    << LabStep(<<"gen-config">>, {}, Nothing),
       LabStep(<<>>, {}, Nothing),                             \* worker manifest
       LabStep(<<"deploy">>, {}, Nothing),
       LabStep(<<"execute">>, {}, Nothing),
       LabStep(<<>>, {}, Nothing) >>                           \* the Cloud UI
lab4Snippets == <<Excerpt("worker-layout"), File("greeting.py")>>
lab4Checkpoints == {"namespace-still-healthy", "greeting-workflow-ran"}

-----------------------------------------------------------------------------
LabDef(steps, snippets, checkpoints) ==
    [steps |-> steps, snippets |-> snippets, checkpoints |-> checkpoints]

LABS == << LabDef(lab1Steps, lab1Snippets, lab1Checkpoints),
           LabDef(lab2Reading \o lab2Doing, lab2Snippets, lab2Checkpoints),
           LabDef(lab3Steps, lab3Snippets, lab3Checkpoints),
           LabDef(lab4Writing \o lab4Running, lab4Snippets, lab4Checkpoints) >>
=============================================================================
