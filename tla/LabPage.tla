------------------------------ MODULE LabPage ------------------------------
(***************************************************************************)
(* The life of a lab definition: its author edits it, `make verify` would  *)
(* check it and compile the answers it emits, a release puts it on the     *)
(* portal whether or not it was verified, and lab pages render it for      *)
(* several students at once, one highlighter and one cache between them    *)
(* (src/portal/scripts, src/portal/Dockerfile, lab/[n]/page.tsx,           *)
(* lib/Snippet.tsx, lib/highlight.ts).                                     *)
(***************************************************************************)
EXTENDS Labs, SequencesExt

CONSTANTS
    None,       \* undefined
    Key,        \* what a snippet may be called; "" is a snippet without a name
    Code,       \* what may stand in a snippet, as it is written for the example student
    Broken,     \* the code that does not compile so
    Checkpoint, \* what a lab may grade
    Student,
    Request,    \* page requests that may be under way at once
    MaxEdits,   \* bound: edits of the definition
    MaxSnippets \* bound: snippets of a definition

ASSUME BrokenIsCode == Broken \in Code
ASSUME SampleNames == {"main.tf", "outputs.tf"} \subseteq Key /\ "built" \in Checkpoint
ASSUME BoundsNat == MaxEdits \in Nat /\ MaxSnippets \in Nat

VARIABLES
    draft,      \* the definition in the author's editor
    edits,
    deployed,   \* the definition the portal runs, or None
    highlighter, \* "none", "loading", "ready" or "failed"
    created,    \* how many highlighters this process has asked for
    cache,      \* highlighted blocks, [key, html]
    pages       \* pages[r]: None, Thrown, or the page being rendered

vars == <<draft, edits, deployed, highlighter, created, cache, pages>>
process == <<highlighter, created, cache, pages>>

Snippet == [key : Key, path : BOOLEAN, hidden : BOOLEAN, code : Code]
Steps == [does : {<<>>}, claims : SUBSET Key, grades : Checkpoint \cup {Nothing}]
Definition == [steps : Seq(Steps), snippets : Seq(Snippet), checkpoints : SUBSET Checkpoint]
(* A snippet in its place: inside step number `where`, or after the steps. *)
Block == [where : Nat, snippet : Snippet]
Html == Code \X Student
Thrown == [error |-> TRUE]      \* a page that ended in an error
ASSUME Distinct == None # Thrown
IsPage(page) ==
    /\ DOMAIN page = {"student", "waiting", "awaiting", "shown"}
    /\ page.student \in Student
    /\ page.waiting \subseteq Block /\ page.awaiting \subseteq Block
    /\ page.shown \subseteq [block : Block, html : Html]
    /\ page.waiting \cap page.awaiting = {}

keys(def) == {snippetKey(sn) : sn \in ToSet(def.snippets)}
claimed(def) == UNION {step.claims : step \in ToSet(def.steps)}
Numbers(def, k) == {i \in DOMAIN def.snippets : snippetKey(def.snippets[i]) = k}
Unique(def, k) == \A i, j \in Numbers(def, k) : i = j
(* A Map, and a file written twice, keep the last of the snippets of one key:
   what is left of the snippets numbered in S. *)
Latest(def, S) ==
    {def.snippets[i] : i \in {n \in S : \A m \in S \ {n} :
        snippetKey(def.snippets[m]) = snippetKey(def.snippets[n]) => m < n}}
byKey(def) == Latest(def, DOMAIN def.snippets)

TypeOK ==
    /\ draft \in Definition
    /\ edits \in 0..MaxEdits
    /\ deployed # None => deployed \in Definition
    /\ highlighter \in {"none", "loading", "ready", "failed"}
    /\ created \in Nat
    /\ cache \subseteq [key : Html, html : Html]
    /\ DOMAIN pages = Request
    /\ \A r \in Request : pages[r] \notin {None, Thrown} => IsPage(pages[r])

Sample(code) ==
    [steps |-> <<LabStep(<<>>, {"main.tf"}, "built")>>,
     snippets |-> <<[key |-> "main.tf", path |-> TRUE, hidden |-> FALSE, code |-> code],
                    [key |-> "outputs.tf", path |-> TRUE, hidden |-> FALSE, code |-> code]>>,
     checkpoints |-> {"built"}]
Fresh == highlighter = "none" /\ created = 0 /\ cache = {} /\ pages = [r \in Request |-> None]
Init ==
    /\ draft \in {Sample(c) : c \in Code \ {Broken}}
    /\ edits = 0
    /\ deployed = None
    /\ Fresh
-----------------------------------------------------------------------------
(* The author. *)

Edit(def) ==
    /\ edits < MaxEdits
    /\ edits' = edits + 1
    /\ draft' = def
    /\ UNCHANGED <<deployed, process>>
AddSnippet(sn) ==
    /\ Len(draft.snippets) < MaxSnippets
    /\ Edit([draft EXCEPT !.snippets = Append(@, sn)])
RewriteSnippet(i, sn) == i \in DOMAIN draft.snippets /\ Edit([draft EXCEPT !.snippets[i] = sn])
Claim(claims) == Edit([draft EXCEPT !.steps[1].claims = claims])
Declare(checkpoints) == Edit([draft EXCEPT !.checkpoints = checkpoints])
(* One thing of a snippet at a time. *)
Near(sn) ==
    {[sn EXCEPT !.key = k] : k \in Key} \cup {[sn EXCEPT !.hidden = h] : h \in BOOLEAN}
    \cup {[sn EXCEPT !.code = c] : c \in Code} \cup {[sn EXCEPT !.path = p] : p \in BOOLEAN}

Author ==
    \/ \E sn \in Snippet : sn.path /\ ~sn.hidden /\ sn.code # Broken /\ AddSnippet(sn)
    \/ \E i \in DOMAIN draft.snippets : \E sn \in Near(draft.snippets[i]) : RewriteSnippet(i, sn)
    \/ \E ks \in SUBSET (Key \ {""}) : Claim(ks)
    \/ \E cs \in SUBSET Checkpoint : Declare(cs)

\* Mutant of SnippetsCheck: the claims are not looked up.
SnippetsCheckNames(def) == \A sn \in ToSet(def.snippets) : snippetKey(sn) # ""
(* Every snippet has a name, and every claim and every grade resolves. *)
SnippetsCheck(def) ==
    /\ \A sn \in ToSet(def.snippets) : snippetKey(sn) # ""
    /\ \A step \in ToSet(def.steps) :
         /\ step.claims \subseteq keys(def)
         /\ step.grades # Nothing => step.grades \in def.checkpoints

PathBacked(def) == {i \in DOMAIN def.snippets : def.snippets[i].path}
\* Mutant of Emit: what is not shown is not written.
EmitShown(def) == Latest(def, {i \in PathBacked(def) : ~def.snippets[i].hidden})
(* The tree `make solve` leaves: every path-backed snippet in its file. *)
Emit(def) == Latest(def, PathBacked(def))

(* `make verify`: of the definition, and of its code for the example student. *)
Verify(def) ==
    /\ SnippetsCheck(def)
    /\ Emit(def) # {}
    /\ \A sn \in Emit(def) : sn.code # Broken

(* A release builds the portal with what is there and starts the process again;
   nothing in the build runs the checks. *)
Release ==
    /\ deployed' = draft
    /\ highlighter' = "none" /\ created' = 0 /\ cache' = {} /\ pages' = [r \in Request |-> None]
    /\ UNCHANGED <<draft, edits>>
-----------------------------------------------------------------------------
(* The page. *)

\* Mutant of unclaimed: only an example falls to the bottom, a file does not.
unclaimedExamples(def) ==
    {sn \in ToSet(def.snippets) : ~sn.hidden /\ ~sn.path /\ snippetKey(sn) \notin claimed(def)}
unclaimed(def) == {sn \in ToSet(def.snippets) : ~sn.hidden /\ snippetKey(sn) \notin claimed(def)}

InStep(def, j) ==
    {[where |-> j, snippet |-> sn] : sn \in {x \in byKey(def) : snippetKey(x) \in def.steps[j].claims}}
AfterSteps(def) == {[where |-> 0, snippet |-> sn] : sn \in unclaimed(def)}
LabPage(def) == (UNION {InStep(def, j) : j \in DOMAIN def.steps}) \cup AfterSteps(def)

Rendering(r) == pages[r] # None /\ pages[r] # Thrown
(* A claim of a snippet that is not there throws. *)
Open(r, u) ==
    /\ deployed # None
    /\ pages[r] = None
    /\ pages' = [pages EXCEPT ![r] =
           IF claimed(deployed) \subseteq keys(deployed)
           THEN [student |-> u, waiting |-> LabPage(deployed), awaiting |-> {}, shown |-> {}]
           ELSE Thrown]
    /\ UNCHANGED <<draft, edits, deployed, highlighter, created, cache>>

(* The code of a snippet is written for the student. *)
codeToHtml(sn, u) == <<sn.code, u>>
\* Mutant of highlightKey: a block is cached under its text as the author wrote it.
highlightKeyText(sn, u) == <<sn.code, CHOOSE v \in Student : TRUE>>
highlightKey(sn, u) == <<sn.code, u>>
hits(sn, u) == {entry \in cache : entry.key = highlightKey(sn, u)}

Shown(page, b, html) ==
    [page EXCEPT !.waiting = @ \ {b}, !.awaiting = @ \ {b},
                 !.shown = @ \cup {[block |-> b, html |-> html]}]

\* Mutant of Highlighter: what is kept is the highlighter, not the promise of one.
HighlighterKept ==
    IF highlighter \in {"none", "loading"} THEN highlighter' = "loading" /\ created' = created + 1
    ELSE UNCHANGED <<highlighter, created>>
(* The promise is kept from the first call on, whatever becomes of it. *)
Highlighter ==
    IF highlighter = "none" THEN highlighter' = "loading" /\ created' = created + 1
    ELSE UNCHANGED <<highlighter, created>>

Hit(r, b) ==
    /\ \E entry \in hits(b.snippet, pages[r].student) :
         pages' = [pages EXCEPT ![r] = Shown(@, b, entry.html)]
    /\ UNCHANGED <<draft, edits, deployed, highlighter, created, cache>>
Miss(r, b) ==
    /\ hits(b.snippet, pages[r].student) = {}
    /\ Highlighter
    /\ pages' = [pages EXCEPT ![r].waiting = @ \ {b}, ![r].awaiting = @ \cup {b}]
    /\ UNCHANGED <<draft, edits, deployed, cache>>

HighlighterReady ==
    /\ highlighter = "loading"
    /\ highlighter' = "ready"
    /\ UNCHANGED <<draft, edits, deployed, created, cache, pages>>
HighlighterFails ==
    /\ highlighter = "loading"
    /\ highlighter' = "failed"
    /\ UNCHANGED <<draft, edits, deployed, created, cache, pages>>

Highlight(r, b) ==
    /\ highlighter = "ready"
    /\ LET html == codeToHtml(b.snippet, pages[r].student)
           key == highlightKey(b.snippet, pages[r].student)
       IN /\ cache' = {entry \in cache : entry.key # key} \cup {[key |-> key, html |-> html]}
          /\ pages' = [pages EXCEPT ![r] = Shown(@, b, html)]
    /\ UNCHANGED <<draft, edits, deployed, highlighter, created>>
\* Mutant of Rejected: a rejected promise is caught and nothing is rendered.
RejectedQuiet(r) ==
    /\ pages[r].awaiting # {} /\ highlighter = "failed" /\ pages[r].waiting # {}
    /\ pages' = [pages EXCEPT ![r] = Thrown]
    /\ UNCHANGED <<draft, edits, deployed, highlighter, created, cache>>
Rejected(r) ==
    /\ pages[r].awaiting # {} /\ highlighter = "failed"
    /\ pages' = [pages EXCEPT ![r] = Thrown]
    /\ UNCHANGED <<draft, edits, deployed, highlighter, created, cache>>

Whole(r) == Rendering(r) /\ pages[r].waiting = {} /\ pages[r].awaiting = {}
Close(r) ==
    /\ pages[r] = Thrown \/ Whole(r)
    /\ pages' = [pages EXCEPT ![r] = None]
    /\ UNCHANGED <<draft, edits, deployed, highlighter, created, cache>>

Render(r) ==
    /\ Rendering(r)
    /\ \/ \E b \in pages[r].waiting : Hit(r, b) \/ Miss(r, b)
       \/ \E b \in pages[r].awaiting : Highlight(r, b)
       \/ Rejected(r)
Portal ==
    \/ HighlighterReady \/ HighlighterFails
    \/ \E r \in Request : Render(r) \/ Close(r) \/ \E u \in Student : Open(r, u)
Next == Author \/ Release \/ Portal
Spec == Init /\ [][Next]_vars
FairSpec ==
    /\ Spec
    /\ WF_vars(HighlighterReady \/ HighlighterFails)
    /\ \A r \in Request : WF_vars(Render(r))
-----------------------------------------------------------------------------
(* check-snippets.ts:14, "neither throws until somebody opens that page, which is
   why this runs in CI": a page fails only because the highlighter did.  So it is
   of a definition the check accepts; of what is deployed it is not, since the
   release does not ask the check. *)
Verified == deployed # None /\ Verify(deployed)
DeployedRenders == \A r \in Request : pages[r] = Thrown => highlighter = "failed"
ReleasedRenders == Verified => DeployedRenders

(* page.tsx:68-70: "a snippet can never end up invisible".  A snippet whose name
   is its own and which is not hidden is in the steps that claim it and
   nowhere else, or after the steps when none does. *)
Places(def, sn) ==
    LET steps == {j \in DOMAIN def.steps : snippetKey(sn) \in def.steps[j].claims}
    IN IF steps = {} THEN {0} ELSE steps
InPlace(def, blocks) ==
    \A sn \in ToSet(def.snippets) :
        Unique(def, snippetKey(sn)) /\ ~sn.hidden
            => {b.where : b \in {x \in blocks : x.snippet = sn}} = Places(def, sn)
NothingLost ==
    \A r \in Request : Whole(r) => InPlace(deployed, {s.block : s \in pages[r].shown})

(* What is copied is the block that is read, and the student's own. *)
OwnCode ==
    \A r \in Request : Rendering(r) =>
        \A s \in pages[r].shown : s.html = <<s.block.snippet.code, pages[r].student>>

(* highlight.ts:23: "one instance per process", however many pages ask at once. *)
OneHighlighter == created <= 1

(* emit-snippets.ts:7: a snippet that stops compiling fails CI rather than a
   student's paste -- where `make verify` is run before the release, and for the
   files no other snippet has the name of. *)
Pasted == UNION {{s.block.snippet : s \in pages[r].shown} : r \in {q \in Request : Rendering(q)}}
PasteCompiles ==
    Verified => \A sn \in Pasted : sn.path /\ Unique(deployed, snippetKey(sn)) => sn.code # Broken
(* The labs as they are pass the check, and show all they do not hide. *)
LabsAsWritten ==
    edits = 0 => \A n \in DOMAIN LABS :
        /\ SnippetsCheck(LABS[n])
        /\ \A k \in keys(LABS[n]) : Unique(LABS[n], k)
        /\ InPlace(LABS[n], LabPage(LABS[n]))

(* A page that was opened is shown, or its error is, or it is gone with the
   process. *)
Answered == \A r \in Request : Rendering(r) ~> (Whole(r) \/ ~Rendering(r))
=============================================================================
