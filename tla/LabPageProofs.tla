--------------------------- MODULE LabPageProofs ---------------------------
(***************************************************************************)
(* What holds of the lab page for every definition an author may write,    *)
(* verified or not, however many students and pages there are.  Each       *)
(* property follows from PageInv: a page failed because the highlighter    *)
(* did or because a claim has no snippet, the promise of the highlighter   *)
(* is made once and kept, a cache entry holds what its key says, and the   *)
(* blocks of a page, wherever they are on their way, are the blocks        *)
(* LabPage gives it.                                                       *)
(***************************************************************************)
EXTENDS LabPage, TLAPS

Fields == {"student", "waiting", "awaiting", "shown"}
Blocks(page) == {s.block : s \in page.shown}
PageOk(page) ==
    /\ DOMAIN page = Fields
    /\ page.waiting \cup page.awaiting \cup Blocks(page) = LabPage(deployed)
    /\ \A s \in page.shown : s.html = <<s.block.snippet.code, page.student>>

Promise == created <= 1 /\ created \in Nat /\ (highlighter = "none" <=> created = 0)
Kept == \A entry \in cache : entry.html = entry.key
Resolves(def) == claimed(def) \subseteq keys(def)
Errors == \A r \in Request : pages[r] = Thrown => highlighter = "failed" \/ ~Resolves(deployed)
Rendered ==
    \A r \in Request : Rendering(r) => deployed # None /\ PageOk(pages[r])
PageInv ==
    /\ DOMAIN pages = Request
    /\ Promise /\ Kept /\ Errors /\ Rendered

-----------------------------------------------------------------------------
(* Facts about a definition. *)

(* A name of its own keeps its snippet, in the Map and in the tree. *)
LEMMA UniqueStays ==
    ASSUME NEW def, NEW S, S \subseteq DOMAIN def.snippets,
           NEW i \in S, Unique(def, snippetKey(def.snippets[i]))
    PROVE  def.snippets[i] \in Latest(def, S)
  BY DEF Latest, Unique, Numbers

LEMMA LatestAre ==
    ASSUME NEW def, NEW S, S \subseteq DOMAIN def.snippets
    PROVE  Latest(def, S) \subseteq ToSet(def.snippets)
  BY DEF Latest, ToSet

(* A block of a page is a claimed snippet in its step or an unclaimed one
   after the steps. *)
LEMMA PageBlock ==
    ASSUME NEW def, NEW b
    PROVE  b \in LabPage(def) <=>
             \/ \E j \in DOMAIN def.steps : \E sn \in byKey(def) :
                  snippetKey(sn) \in def.steps[j].claims /\ b = [where |-> j, snippet |-> sn]
             \/ \E sn \in unclaimed(def) : b = [where |-> 0, snippet |-> sn]
  <1>1. b \in LabPage(def) <=>
            (\E j \in DOMAIN def.steps : b \in InStep(def, j)) \/ b \in AfterSteps(def)
    BY DEF LabPage
  <1>2. ASSUME NEW j \in DOMAIN def.steps
        PROVE  b \in InStep(def, j) <=> \E sn \in byKey(def) :
                  snippetKey(sn) \in def.steps[j].claims /\ b = [where |-> j, snippet |-> sn]
    <2> DEFINE These == {x \in byKey(def) : snippetKey(x) \in def.steps[j].claims}
    <2>1. \A sn : sn \in These <=> sn \in byKey(def) /\ snippetKey(sn) \in def.steps[j].claims
      OBVIOUS
    <2>2. b \in InStep(def, j) <=> \E sn \in These : b = [where |-> j, snippet |-> sn]
      BY DEF InStep
    <2> HIDE DEF These
    <2> QED
      BY <2>1, <2>2
  <1>3. b \in AfterSteps(def) <=> \E sn \in unclaimed(def) : b = [where |-> 0, snippet |-> sn]
    BY DEF AfterSteps
  <1> QED
    BY <1>1, <1>2, <1>3

LEMMA Claimed ==
    ASSUME NEW def, NEW k
    PROVE  k \in claimed(def) <=> \E j \in DOMAIN def.steps : k \in def.steps[j].claims
  <1>1. k \in claimed(def) <=> \E step \in ToSet(def.steps) : k \in step.claims
    BY DEF claimed
  <1> QED
    BY <1>1 DEF ToSet

(* The steps that claim a snippet are the places it is shown in. *)
LEMMA PageInPlace ==
    ASSUME NEW def PROVE InPlace(def, LabPage(def))
  <1> SUFFICES ASSUME NEW sn \in ToSet(def.snippets), Unique(def, snippetKey(sn)), ~sn.hidden
               PROVE  {b.where : b \in {x \in LabPage(def) : x.snippet = sn}} = Places(def, sn)
    BY DEF InPlace
  <1> DEFINE Claims == {j \in DOMAIN def.steps : snippetKey(sn) \in def.steps[j].claims}
             Here == {x \in LabPage(def) : x.snippet = sn}
  <1>1. sn \in byKey(def)
    BY UniqueStays DEF byKey, ToSet
  <1>2. \A j \in Claims : [where |-> j, snippet |-> sn] \in Here
    BY <1>1, PageBlock
  <1>3. snippetKey(sn) \in claimed(def) <=> Claims # {}
    BY Claimed
  <1>4. \A b \in Here : b.where \in Claims \/ (b.where = 0 /\ Claims = {})
    <2> SUFFICES ASSUME NEW b \in LabPage(def), b.snippet = sn
                 PROVE  b.where \in Claims \/ (b.where = 0 /\ Claims = {})
      OBVIOUS
    <2>1. CASE \E j \in DOMAIN def.steps : \E x \in byKey(def) :
                  snippetKey(x) \in def.steps[j].claims /\ b = [where |-> j, snippet |-> x]
      BY <2>1
    <2>2. CASE \E x \in unclaimed(def) : b = [where |-> 0, snippet |-> x]
      BY <1>3, <2>2 DEF unclaimed
    <2> QED
      BY <2>1, <2>2, PageBlock
  <1>5. Claims = {} => [where |-> 0, snippet |-> sn] \in Here
    BY <1>3, PageBlock DEF unclaimed
  <1> HIDE DEF Here, Claims
  <1>6. CASE Claims = {}
    <2>1. Places(def, sn) = {0}
      BY <1>6 DEF Places, Claims
    <2> QED
      BY <1>4, <1>5, <1>6, <2>1 DEF Here
  <1>7. CASE Claims # {}
    <2>1. Places(def, sn) = Claims
      BY <1>7 DEF Places, Claims
    <2>2. \A j \in Claims : \E b \in Here : b.where = j
      <3> SUFFICES ASSUME NEW j \in Claims PROVE \E b \in Here : b.where = j
        OBVIOUS
      <3>1. [where |-> j, snippet |-> sn] \in Here
        BY <1>2
      <3> QED
        BY <3>1
    <2>3. \A b \in Here : b.where \in Claims
      BY <1>4, <1>7
    <2>4. {b.where : b \in Here} = Claims
      BY <2>2, <2>3
    <2> QED
      BY <2>1, <2>4 DEF Here
  <1> QED
    BY <1>6, <1>7

(* What a page shows is a snippet of the definition. *)
LEMMA BlocksAre ==
    ASSUME NEW def, NEW b \in LabPage(def)
    PROVE  b.snippet \in ToSet(def.snippets)
  <1>1. byKey(def) \subseteq ToSet(def.snippets)
    BY LatestAre DEF byKey
  <1>2. unclaimed(def) \subseteq ToSet(def.snippets)
    BY DEF unclaimed
  <1> QED
    BY <1>1, <1>2, PageBlock

(* Every claim of a definition that passed the check can be looked up. *)
LEMMA ClaimsResolve ==
    ASSUME NEW def, Verify(def) PROVE claimed(def) \subseteq keys(def)
  BY DEF Verify, SnippetsCheck, claimed

-----------------------------------------------------------------------------
(* A block that is shown moves from one set of its page to another. *)
LEMMA ShownOk ==
    ASSUME NEW page, NEW b, NEW html, PageOk(page), b \in page.waiting \cup page.awaiting,
           html = <<b.snippet.code, page.student>>
    PROVE  PageOk(Shown(page, b, html))
  <1> DEFINE after == Shown(page, b, html)
  <1>0. DOMAIN page = {"student", "waiting", "awaiting", "shown"}
    BY DEF PageOk, Fields
  <1>1. after.waiting = page.waiting \ {b}
    BY <1>0 DEF Shown
  <1>2. after.awaiting = page.awaiting \ {b}
    BY <1>0 DEF Shown
  <1>3. after.shown = page.shown \cup {[block |-> b, html |-> html]}
    BY <1>0 DEF Shown
  <1>4. DOMAIN after = Fields /\ after.student = page.student
    BY <1>0 DEF Shown, Fields
  <1> HIDE DEF after
  <1>5. Blocks(after) = Blocks(page) \cup {b}
    <2>1. \A s \in after.shown : s \in page.shown \/ s.block = b
      BY <1>3
    <2>2. \E s \in after.shown : s.block = b
      <3>1. [block |-> b, html |-> html] \in after.shown
        BY <1>3
      <3>2. [block |-> b, html |-> html].block = b
        OBVIOUS
      <3> QED
        BY <3>1, <3>2
    <2>3. page.shown \subseteq after.shown
      BY <1>3
    <2>4. Blocks(page) \subseteq Blocks(after) /\ b \in Blocks(after)
      BY <2>2, <2>3 DEF Blocks
    <2>5. Blocks(after) \subseteq Blocks(page) \cup {b}
      BY <2>1 DEF Blocks
    <2> QED
      BY <2>4, <2>5
  <1>6. after.waiting \cup after.awaiting \cup Blocks(after) = LabPage(deployed)
    BY <1>1, <1>2, <1>5 DEF PageOk
  <1>7. \A s \in after.shown : s.html = <<s.block.snippet.code, after.student>>
    BY <1>3, <1>4 DEF PageOk
  <1> QED
    BY <1>4, <1>6, <1>7 DEF PageOk, after

(* A page is not an error page. *)
LEMMA PageNotThrown ==
    ASSUME NEW page, DOMAIN page = Fields PROVE page # Thrown
  BY DEF Fields, Thrown

LEMMA InitPage == Init => PageInv
  BY Distinct DEF Init, Fresh, PageInv, Promise, Kept, Errors, Rendered, Rendering

(* One page changes and stays in order. *)
LEMMA OnePage ==
    ASSUME PageInv, NEW r \in Request, NEW page,
           pages' = [pages EXCEPT ![r] = page], deployed' = deployed,
           highlighter = "failed" => highlighter' = "failed",
           page = Thrown => highlighter = "failed" \/ ~Resolves(deployed),
           page # None /\ page # Thrown => deployed # None /\ PageOk(page)
    PROVE  DOMAIN pages' = Request /\ Errors' /\ Rendered'
  <1>1. \A q \in Request : pages'[q] = IF q = r THEN page ELSE pages[q]
    BY DEF PageInv
  <1>2. \A p : PageOk(p)' <=> PageOk(p)
    BY DEF PageOk, LabPage, Blocks
  <1>3. Errors'
    BY <1>1 DEF PageInv, Errors, Resolves
  <1>4. ASSUME NEW q \in Request, Rendering(q)'
        PROVE  deployed' # None /\ PageOk(pages[q])'
    <2>1. CASE q = r
      <3>1. pages'[q] = page /\ deployed # None /\ PageOk(page)
        BY <1>1, <1>4, <2>1 DEF Rendering
      <3> QED
        BY <3>1 DEF PageOk
    <2>2. CASE q # r
      <3>1. pages'[q] = pages[q] /\ deployed # None /\ PageOk(pages[q])
        BY <1>1, <1>4, <2>2 DEF Rendering, PageInv, Rendered
      <3> QED
        BY <3>1 DEF PageOk
    <2> QED
      BY <2>1, <2>2
  <1> QED
    BY <1>3, <1>4 DEF PageInv, Rendered

LEMMA OpenInv == ASSUME PageInv, NEW r \in Request, NEW u, Open(r, u) PROVE PageInv'
  <1> DEFINE page == [student |-> u, waiting |-> LabPage(deployed), awaiting |-> {}, shown |-> {}]
  <1>2. pages' = [pages EXCEPT ![r] = IF Resolves(deployed) THEN page ELSE Thrown]
    BY DEF Open, Resolves
  <1>3. DOMAIN page = Fields /\ Blocks(page) = {}
    BY DEF Fields, Blocks
  <1>4. PageOk(page)
    BY <1>3 DEF PageOk
  <1>5. page # Thrown
    BY <1>3, PageNotThrown
  <1> HIDE DEF page
  <1>6. DOMAIN pages' = Request /\ Errors' /\ Rendered'
    <2>1. CASE Resolves(deployed)
      BY <1>2, <1>4, <1>5, <2>1, OnePage DEF Open
    <2>2. CASE ~Resolves(deployed)
      BY <1>2, <2>2, OnePage DEF Open
    <2> QED
      BY <2>1, <2>2
  <1> QED
    BY <1>6 DEF Open, PageInv, Promise, Kept

LEMMA RenderInv == ASSUME PageInv, NEW r \in Request, Render(r) PROVE PageInv'
  <1> DEFINE page == pages[r]
  <1>0. PageOk(page) /\ deployed # None /\ deployed' = deployed
    BY DEF Render, PageInv, Rendered, Hit, Miss, Highlight, Rejected
  <1>1. ASSUME NEW b \in page.waiting, Hit(r, b) PROVE PageInv'
    <2>1. PICK entry \in hits(b.snippet, page.student) : pages' = [pages EXCEPT ![r] = Shown(@, b, entry.html)]
      BY <1>1 DEF Hit
    <2>2. pages' = [pages EXCEPT ![r] = Shown(page, b, entry.html)]
      BY <2>1 DEF PageInv
    <2>3. entry.html = <<b.snippet.code, page.student>>
      BY DEF hits, highlightKey, PageInv, Kept
    <2>4. PageOk(Shown(page, b, entry.html))
      BY <1>0, <2>3, ShownOk
    <2>5. Shown(page, b, entry.html) # Thrown
      BY <2>4, PageNotThrown DEF PageOk
    <2>6. DOMAIN pages' = Request /\ Errors' /\ Rendered'
      BY <1>0, <1>1, <2>2, <2>4, <2>5, OnePage DEF Hit
    <2> QED
      BY <1>1, <2>6 DEF Hit, PageInv, Promise, Kept
  <1>2. ASSUME NEW b \in page.waiting, Miss(r, b) PROVE PageInv'
    <2> DEFINE after == [page EXCEPT !.waiting = @ \ {b}, !.awaiting = @ \cup {b}]
    <2>1. pages' = [pages EXCEPT ![r] = after]
      BY <1>2 DEF Miss, PageInv
    <2>2. DOMAIN page = {"student", "waiting", "awaiting", "shown"}
      BY <1>0 DEF PageOk, Fields
    <2>3. /\ DOMAIN after = DOMAIN page
          /\ after.waiting = page.waiting \ {b}
          /\ after.awaiting = page.awaiting \cup {b}
          /\ after.shown = page.shown
          /\ after.student = page.student
      BY <2>2
    <2> HIDE DEF after
    <2>4. PageOk(after)
      BY <1>0, <1>2, <2>3 DEF PageOk, Blocks
    <2>5. after # Thrown
      BY <2>4, PageNotThrown DEF PageOk
    <2>6. Promise' /\ (highlighter = "failed" => highlighter' = "failed")
      BY <1>2 DEF Miss, Highlighter, PageInv, Promise
    <2>7. DOMAIN pages' = Request /\ Errors' /\ Rendered'
      BY <1>0, <2>1, <2>4, <2>5, <2>6, OnePage
    <2> QED
      BY <1>2, <2>6, <2>7 DEF Miss, PageInv, Kept
  <1>3. ASSUME NEW b \in page.awaiting, Highlight(r, b) PROVE PageInv'
    <2> DEFINE html == codeToHtml(b.snippet, page.student)
    <2>1. html = <<b.snippet.code, page.student>> /\ highlightKey(b.snippet, page.student) = html
      BY DEF codeToHtml, highlightKey
    <2>2. /\ pages' = [pages EXCEPT ![r] = Shown(page, b, html)]
          /\ \A entry \in cache' : entry \in cache \/ entry = [key |-> html, html |-> html]
      BY <1>3, <2>1 DEF Highlight, PageInv
    <2> HIDE DEF html
    <2>3. Kept'
      BY <2>2 DEF PageInv, Kept
    <2>4. PageOk(Shown(page, b, html))
      BY <1>0, <2>1, ShownOk
    <2>5. Shown(page, b, html) # Thrown
      BY <2>4, PageNotThrown DEF PageOk
    <2>6. DOMAIN pages' = Request /\ Errors' /\ Rendered'
      BY <1>0, <1>3, <2>2, <2>4, <2>5, OnePage DEF Highlight
    <2> QED
      BY <1>3, <2>3, <2>6 DEF Highlight, PageInv, Promise
  <1>4. CASE Rejected(r)
    <2>1. DOMAIN pages' = Request /\ Errors' /\ Rendered'
      BY <1>0, <1>4, OnePage DEF Rejected
    <2> QED
      BY <1>4, <2>1 DEF Rejected, PageInv, Promise, Kept
  <1> QED
    BY <1>1, <1>2, <1>3, <1>4 DEF Render

LEMMA CloseInv == ASSUME PageInv, NEW r \in Request, Close(r) PROVE PageInv'
  <1>1. DOMAIN pages' = Request /\ Errors' /\ Rendered'
    BY Distinct, OnePage DEF Close
  <1> QED
    BY <1>1 DEF Close, PageInv, Promise, Kept

LEMMA ReleaseInv == ASSUME PageInv, Release PROVE PageInv'
  <1>1. \A r \in Request : pages'[r] = None
    BY DEF Release
  <1> QED
    BY <1>1, Distinct DEF Release, PageInv, Promise, Kept, Errors, Rendered, Rendering

(* What the page reads and writes did not change. *)
LEMMA SameProcess == ASSUME PageInv, UNCHANGED <<deployed, process>> PROVE PageInv'
  <1>1. Resolves(deployed)' <=> Resolves(deployed)
    BY DEF Resolves
  <1>2. \A r \in Request : PageOk(pages[r])' <=> PageOk(pages[r])
    BY DEF PageOk, LabPage, Blocks, process
  <1> QED
    BY <1>1, <1>2 DEF PageInv, Promise, Kept, Errors, Rendered, Rendering, process

LEMMA PageStep == PageInv /\ [Next]_vars => PageInv'
  <1> SUFFICES ASSUME PageInv, [Next]_vars PROVE PageInv'
    OBVIOUS
  <1>1. CASE Author
    BY <1>1, SameProcess DEF Author, AddSnippet, RewriteSnippet, Claim, Declare, Edit
  <1>2. CASE Release
    BY <1>2, ReleaseInv
  <1>3. CASE HighlighterReady \/ HighlighterFails
    <2>1. \A r \in Request : PageOk(pages[r])' <=> PageOk(pages[r])
      BY <1>3 DEF HighlighterReady, HighlighterFails, PageOk, LabPage, Blocks
    <2>2. highlighter # "none" /\ highlighter' # "none" /\ highlighter # "failed"
      BY <1>3 DEF HighlighterReady, HighlighterFails
    <2>3. Resolves(deployed)' <=> Resolves(deployed)
      BY <1>3 DEF HighlighterReady, HighlighterFails, Resolves
    <2> QED
      BY <1>3, <2>1, <2>2, <2>3
         DEF HighlighterReady, HighlighterFails, PageInv, Promise, Kept, Errors, Rendered, Rendering
  <1>4. ASSUME NEW r \in Request, Render(r) PROVE PageInv'
    BY <1>4, RenderInv
  <1>5. ASSUME NEW r \in Request, Close(r) PROVE PageInv'
    BY <1>5, CloseInv
  <1>6. ASSUME NEW r \in Request, NEW u \in Student, Open(r, u) PROVE PageInv'
    BY <1>6, OpenInv
  <1>7. CASE UNCHANGED vars
    BY <1>7, SameProcess DEF vars, process
  <1> QED
    BY <1>1, <1>2, <1>3, <1>4, <1>5, <1>6, <1>7 DEF Next, Portal

LEMMA PageAlways == Spec => []PageInv
  BY InitPage, PageStep, PTL DEF Spec
-----------------------------------------------------------------------------
(* Types. *)

LEMMA Elements ==
    ASSUME NEW S, NEW seq \in Seq(S), NEW i \in DOMAIN seq PROVE seq[i] \in S
  OBVIOUS

LEMMA Rewritten ==
    ASSUME NEW S, NEW seq \in Seq(S), NEW i, NEW e, i \in DOMAIN seq => e \in S
    PROVE  [seq EXCEPT ![i] = e] \in Seq(S)
  <1>1. CASE i \in DOMAIN seq
    BY <1>1
  <1>2. CASE i \notin DOMAIN seq
    <2>1. [seq EXCEPT ![i] = e] = seq
      BY <1>2
    <2> QED
      BY <2>1
  <1> QED
    BY <1>1, <1>2

LEMMA EditType ==
    ASSUME draft \in Definition, Author PROVE draft' \in Definition /\ edits < MaxEdits /\ edits' = edits + 1
  <1>0. /\ draft = [steps |-> draft.steps, snippets |-> draft.snippets, checkpoints |-> draft.checkpoints]
        /\ draft.steps \in Seq(Steps) /\ draft.snippets \in Seq(Snippet)
        /\ draft.checkpoints \in SUBSET Checkpoint
    BY DEF Definition
  <1>1. ASSUME NEW sn \in Snippet, AddSnippet(sn) PROVE draft' \in Definition
    <2>1. draft' = [draft EXCEPT !.snippets = Append(draft.snippets, sn)]
      BY <1>0, <1>1 DEF AddSnippet, Edit
    <2>2. Append(draft.snippets, sn) \in Seq(Snippet)
      BY <1>0
    <2> QED
      BY <2>1, <2>2 DEF Definition
  <1>2. ASSUME NEW i \in DOMAIN draft.snippets, NEW sn \in Near(draft.snippets[i]), RewriteSnippet(i, sn)
        PROVE  draft' \in Definition
    <2>1. draft.snippets[i] \in Snippet
      BY <1>0
    <2>2. sn \in Snippet
      BY <2>1 DEF Near, Snippet
    <2>3. draft' = [draft EXCEPT !.snippets = [draft.snippets EXCEPT ![i] = sn]]
      BY <1>0, <1>2 DEF RewriteSnippet, Edit
    <2>4. [draft.snippets EXCEPT ![i] = sn] \in Seq(Snippet)
      BY <1>0, <2>2
    <2> QED
      BY <2>3, <2>4 DEF Definition
  <1>3. ASSUME NEW ks \in SUBSET (Key \ {""}), Claim(ks) PROVE draft' \in Definition
    <2> DEFINE step == [draft.steps[1] EXCEPT !.claims = ks]
    <2>1. draft' = [draft EXCEPT !.steps = [draft.steps EXCEPT ![1] = step]]
      BY <1>0, <1>3 DEF Claim, Edit
    <2>2. 1 \in DOMAIN draft.steps => step \in Steps
      <3>1. 1 \in DOMAIN draft.steps => draft.steps[1] \in Steps
        BY <1>0, Elements
      <3> QED
        BY <3>1 DEF Steps
    <2> HIDE DEF step
    <2>3. [draft.steps EXCEPT ![1] = step] \in Seq(Steps)
      BY <1>0, <2>2, Rewritten
    <2> QED
      BY <2>1, <2>3 DEF Definition
  <1>4. ASSUME NEW cs \in SUBSET Checkpoint, Declare(cs) PROVE draft' \in Definition
    BY <1>4 DEF Declare, Edit, Definition
  <1>5. edits < MaxEdits /\ edits' = edits + 1
    BY DEF Author, AddSnippet, RewriteSnippet, Claim, Declare, Edit
  <1> QED
    BY <1>1, <1>2, <1>3, <1>4, <1>5 DEF Author

(* A page is made of the blocks of the definition, in their places. *)
LEMMA LabPageType == ASSUME NEW def \in Definition PROVE LabPage(def) \subseteq Block
  <1>1. def.steps \in Seq(Steps) /\ def.snippets \in Seq(Snippet)
    BY DEF Definition
  <1>2. \A sn \in ToSet(def.snippets) : sn \in Snippet
    BY <1>1 DEF ToSet
  <1>3. byKey(def) \subseteq ToSet(def.snippets)
    BY LatestAre DEF byKey
  <1>4. unclaimed(def) \subseteq ToSet(def.snippets)
    BY DEF unclaimed
  <1>5. \A j \in DOMAIN def.steps : j \in Nat
    BY <1>1
  <1> HIDE DEF Block
  <1>6. \A j \in Nat, sn \in Snippet : [where |-> j, snippet |-> sn] \in Block
    BY DEF Block
  <1> QED
    BY <1>2, <1>3, <1>4, <1>5, <1>6, PageBlock

LEMMA ShownType ==
    ASSUME NEW page, IsPage(page), NEW b \in Block, NEW html \in Html
    PROVE  IsPage(Shown(page, b, html))
  <1> DEFINE after == Shown(page, b, html)
  <1>1. DOMAIN page = {"student", "waiting", "awaiting", "shown"}
    BY DEF IsPage
  <1>2. /\ DOMAIN after = DOMAIN page
        /\ after.student = page.student
        /\ after.waiting = page.waiting \ {b}
        /\ after.awaiting = page.awaiting \ {b}
        /\ after.shown = page.shown \cup {[block |-> b, html |-> html]}
    BY <1>1 DEF Shown
  <1> HIDE DEF after
  <1> QED
    BY <1>1, <1>2 DEF IsPage, after

(* One page changes and keeps its type. *)
LEMMA OnePageType ==
    ASSUME TypeOK, NEW r \in Request, NEW page, pages' = [pages EXCEPT ![r] = page],
           page \notin {None, Thrown} => IsPage(page)
    PROVE  DOMAIN pages' = Request /\ \A q \in Request : pages'[q] \notin {None, Thrown} => IsPage(pages'[q])
  BY DEF TypeOK

LEMMA RenderType == ASSUME TypeOK, NEW r \in Request, Render(r) PROVE TypeOK'
  <1> DEFINE page == pages[r]
          PagesOk == DOMAIN pages' = Request /\ \A q \in Request : pages'[q] \notin {None, Thrown} => IsPage(pages'[q])
  <1>0. /\ IsPage(page) /\ page.student \in Student
        /\ page.waiting \subseteq Block /\ page.awaiting \subseteq Block
    BY DEF Render, Rendering, TypeOK, IsPage
  <1>1. \A b \in Block : codeToHtml(b.snippet, page.student) \in Html
    BY <1>0 DEF codeToHtml, Html, Block, Snippet
  <1>2. ASSUME NEW b \in page.waiting, Hit(r, b) PROVE TypeOK'
    <2>1. PICK entry \in hits(b.snippet, page.student) : pages' = [pages EXCEPT ![r] = Shown(@, b, entry.html)]
      BY <1>2 DEF Hit
    <2>2. pages' = [pages EXCEPT ![r] = Shown(page, b, entry.html)]
      BY <2>1 DEF TypeOK
    <2>3. entry.html \in Html
      BY DEF hits, TypeOK
    <2>4. IsPage(Shown(page, b, entry.html))
      BY <1>0, <2>3, ShownType
    <2>5. PagesOk
      BY <2>2, <2>4, OnePageType
    <2> QED
      BY <1>2, <2>5 DEF Hit, TypeOK
  <1>3. ASSUME NEW b \in page.waiting, Miss(r, b) PROVE TypeOK'
    <2> DEFINE after == [page EXCEPT !.waiting = @ \ {b}, !.awaiting = @ \cup {b}]
    <2>1. pages' = [pages EXCEPT ![r] = after]
      BY <1>3 DEF Miss, TypeOK
    <2>2. DOMAIN page = {"student", "waiting", "awaiting", "shown"}
      BY <1>0 DEF IsPage
    <2>3. /\ DOMAIN after = DOMAIN page
          /\ after.waiting = page.waiting \ {b}
          /\ after.awaiting = page.awaiting \cup {b}
          /\ after.shown = page.shown
          /\ after.student = page.student
      BY <2>2
    <2> HIDE DEF after
    <2>4. IsPage(after)
      BY <1>0, <2>2, <2>3 DEF IsPage
    <2>5. PagesOk
      BY <2>1, <2>4, OnePageType
    <2>6. highlighter' \in {"none", "loading", "ready", "failed"} /\ created' \in Nat
      BY <1>3 DEF Miss, Highlighter, TypeOK
    <2> QED
      BY <1>3, <2>5, <2>6 DEF Miss, TypeOK
  <1>4. ASSUME NEW b \in page.awaiting, Highlight(r, b) PROVE TypeOK'
    <2> DEFINE html == codeToHtml(b.snippet, page.student)
    <2>1. html \in Html /\ highlightKey(b.snippet, page.student) = html
      BY <1>0, <1>1 DEF codeToHtml, highlightKey
    <2>2. /\ pages' = [pages EXCEPT ![r] = Shown(page, b, html)]
          /\ \A entry \in cache' : entry \in cache \/ entry = [key |-> html, html |-> html]
      BY <1>4, <2>1 DEF Highlight, TypeOK
    <2> HIDE DEF html
    <2>3. cache' \subseteq [key : Html, html : Html]
      BY <2>1, <2>2 DEF TypeOK
    <2>4. IsPage(Shown(page, b, html))
      BY <1>0, <2>1, ShownType
    <2>5. PagesOk
      BY <2>2, <2>4, OnePageType
    <2> QED
      BY <1>4, <2>3, <2>5 DEF Highlight, TypeOK
  <1>5. CASE Rejected(r)
    <2>1. PagesOk
      BY <1>5, OnePageType DEF Rejected
    <2> QED
      BY <1>5, <2>1 DEF Rejected, TypeOK
  <1> QED
    BY <1>2, <1>3, <1>4, <1>5 DEF Render

LEMMA OpenType == ASSUME TypeOK, NEW r \in Request, NEW u \in Student, Open(r, u) PROVE TypeOK'
  <1> DEFINE page == [student |-> u, waiting |-> LabPage(deployed), awaiting |-> {}, shown |-> {}]
  <1>1. IsPage(page)
    BY LabPageType DEF Open, TypeOK, IsPage
  <1> HIDE DEF page
  <1>2. PICK p \in {page, Thrown} : pages' = [pages EXCEPT ![r] = p]
    BY DEF Open, page
  <1>3. DOMAIN pages' = Request /\ \A q \in Request : pages'[q] \notin {None, Thrown} => IsPage(pages'[q])
    BY <1>1, <1>2, OnePageType
  <1> QED
    BY <1>3 DEF Open, TypeOK

LEMMA TypeStep == TypeOK /\ [Next]_vars => TypeOK'
  <1> SUFFICES ASSUME TypeOK, [Next]_vars PROVE TypeOK'
    OBVIOUS
  <1>1. CASE Author
    <2>1. UNCHANGED <<deployed, process>>
      BY <1>1 DEF Author, AddSnippet, RewriteSnippet, Claim, Declare, Edit
    <2>2. draft' \in Definition /\ edits < MaxEdits /\ edits' = edits + 1
      BY <1>1, EditType DEF TypeOK
    <2> QED
      BY <2>1, <2>2, BoundsNat DEF TypeOK, process
  <1>2. CASE Release
    BY <1>2 DEF Release, TypeOK
  <1>3. CASE HighlighterReady \/ HighlighterFails
    BY <1>3 DEF HighlighterReady, HighlighterFails, TypeOK
  <1>4. ASSUME NEW r \in Request, Render(r) PROVE TypeOK'
    BY <1>4, RenderType
  <1>5. ASSUME NEW r \in Request, Close(r) PROVE TypeOK'
    <2>1. DOMAIN pages' = Request /\ \A q \in Request : pages'[q] \notin {None, Thrown} => IsPage(pages'[q])
      BY <1>5, OnePageType DEF Close
    <2> QED
      BY <1>5, <2>1 DEF Close, TypeOK
  <1>6. ASSUME NEW r \in Request, NEW u \in Student, Open(r, u) PROVE TypeOK'
    BY <1>6, OpenType
  <1>7. CASE UNCHANGED vars
    BY <1>7 DEF vars, TypeOK
  <1> QED
    BY <1>1, <1>2, <1>3, <1>4, <1>5, <1>6, <1>7 DEF Next, Portal

LEMMA SampleType == ASSUME NEW c \in Code PROVE Sample(c) \in Definition
  <1>1. LabStep(<<>>, {"main.tf"}, "built") \in Steps
    BY SampleNames DEF LabStep, Steps
  <1>2. /\ [key |-> "main.tf", path |-> TRUE, hidden |-> FALSE, code |-> c] \in Snippet
        /\ [key |-> "outputs.tf", path |-> TRUE, hidden |-> FALSE, code |-> c] \in Snippet
    BY SampleNames DEF Snippet
  <1> QED
    BY <1>1, <1>2, SampleNames DEF Sample, Definition

(* Every reachable state of author, release and portal has its types; a block
   of a page is never both on its way and awaited. *)
THEOREM TypeCorrect == Spec => []TypeOK
  <1>1. Init => TypeOK
    BY SampleType, BoundsNat DEF Init, Fresh, TypeOK
  <1> QED
    BY <1>1, TypeStep, PTL DEF Spec
-----------------------------------------------------------------------------
(* What `make verify` asks of a definition is enough for its pages: as long as the
   portal runs a definition that passes, a page fails only because the highlighter
   did, whatever was released before and is being edited now. *)
THEOREM ReleasedPagesRender == Spec => []ReleasedRenders
  <1>1. PageInv => ReleasedRenders
    <2>1. Verified => Resolves(deployed)
      BY ClaimsResolve DEF Verified, Resolves
    <2> QED
      BY <2>1 DEF PageInv, Errors, ReleasedRenders, DeployedRenders
  <1> QED
    BY PageAlways, <1>1, PTL

(* However many pages ask at once, a process asks for one highlighter. *)
THEOREM OneInstancePerProcess == Spec => []OneHighlighter
  <1>1. PageInv => OneHighlighter
    BY DEF PageInv, Promise, OneHighlighter
  <1> QED
    BY PageAlways, <1>1, PTL

(* A student reads the block that is shown in that place, written for them,
   whatever else is in the cache they share. *)
THEOREM EveryStudentsOwn == Spec => []OwnCode
  <1>1. PageInv => OwnCode
    BY DEF PageInv, Rendered, PageOk, OwnCode
  <1> QED
    BY PageAlways, <1>1, PTL

(* A snippet with a name of its own is shown in every step that claims it, or
   after the steps if none does. *)
THEOREM NoSnippetIsLost == Spec => []NothingLost
  <1>1. PageInv => NothingLost
    <2> SUFFICES ASSUME PageInv, NEW r \in Request, Whole(r)
                 PROVE  InPlace(deployed, {s.block : s \in pages[r].shown})
      BY DEF NothingLost
    <2>1. Blocks(pages[r]) = LabPage(deployed)
      BY DEF PageInv, Rendered, PageOk, Whole
    <2> QED
      BY <2>1, PageInPlace DEF Blocks
  <1> QED
    BY PageAlways, <1>1, PTL

(* As long as the portal runs a definition that passes `make verify`, what can be
   copied into a file of its own compiles as it is written for the example student:
   it is in the tree that `make verify` compiles.  Of a definition that was released
   without, nothing is claimed. *)
THEOREM PastesCompile == Spec => []PasteCompiles
  <1>1. PageInv => PasteCompiles
    <2> SUFFICES ASSUME PageInv, Verified, NEW sn \in Pasted, sn.path, Unique(deployed, snippetKey(sn))
                 PROVE  sn.code # Broken
      BY DEF PasteCompiles
    <2>1. PICK r \in Request : Rendering(r) /\ sn \in {s.block.snippet : s \in pages[r].shown}
      BY DEF Pasted
    <2>2. PICK b \in Blocks(pages[r]) : b.snippet = sn
      BY <2>1 DEF Blocks
    <2>3. b \in LabPage(deployed) /\ deployed # None
      BY <2>1 DEF PageInv, Rendered, PageOk
    <2>4. sn \in ToSet(deployed.snippets)
      BY <2>2, <2>3, BlocksAre
    <2>5. PICK i \in DOMAIN deployed.snippets : deployed.snippets[i] = sn
      BY <2>4 DEF ToSet
    <2>6. sn \in Emit(deployed)
      BY <2>5, UniqueStays DEF Emit, PathBacked
    <2> QED
      BY <2>6 DEF Verified, Verify
  <1> QED
    BY PageAlways, <1>1, PTL
-----------------------------------------------------------------------------
(* No page waits for what was never asked for: the safety half of Answered. *)

(* A page that awaits a block awaits the promise of a highlighter that the process
   has, and that is under way or settled. *)
PromiseAwaited ==
    \A r \in Request : Rendering(r) /\ pages[r].awaiting # {} => highlighter # "none"

(* The awaiting of a page that is shown a block only shrinks. *)
LEMMA ShownAwaits ==
    ASSUME NEW page, NEW b, NEW html, DOMAIN page = Fields
    PROVE  Shown(page, b, html).awaiting \subseteq page.awaiting
  BY DEF Shown, Fields

LEMMA AwaitedStep == PageInv /\ PromiseAwaited /\ [Next]_vars => PromiseAwaited'
  <1> SUFFICES ASSUME PageInv, PromiseAwaited, [Next]_vars,
                      NEW q \in Request, Rendering(q)', pages'[q].awaiting # {}
               PROVE  highlighter' # "none"
    BY DEF PromiseAwaited
  (* The promise is kept, and the page awaits it already. *)
  <1>1. ASSUME highlighter # "none" => highlighter' # "none",
               Rendering(q), pages'[q].awaiting \subseteq pages[q].awaiting
        PROVE  highlighter' # "none"
    BY <1>1 DEF PromiseAwaited
  <1>2. CASE Author \/ UNCHANGED vars
    <2>1. UNCHANGED <<deployed, process>>
      BY <1>2 DEF Author, AddSnippet, RewriteSnippet, Claim, Declare, Edit, vars, process
    <2> QED
      BY <1>1, <2>1 DEF process, Rendering
  <1>3. CASE Release
    BY <1>3 DEF Release, Rendering
  <1>4. CASE HighlighterReady \/ HighlighterFails
    BY <1>4 DEF HighlighterReady, HighlighterFails
  <1>5. ASSUME NEW r \in Request, Render(r) PROVE highlighter' # "none"
    <2> DEFINE page == pages[r]
    <2>1. Rendering(r) /\ DOMAIN page = Fields
      BY <1>5 DEF Render, PageInv, Rendered, PageOk
    <2>2. ASSUME NEW b, NEW html, pages' = [pages EXCEPT ![r] = Shown(@, b, html)],
                 highlighter' = highlighter
          PROVE  highlighter' # "none"
      <3>1. CASE q = r
        BY <1>1, <2>1, <2>2, <3>1, ShownAwaits DEF PageInv
      <3>2. CASE q # r
        BY <1>1, <2>2, <3>2 DEF PageInv, Rendering
      <3> QED
        BY <3>1, <3>2
    <2>3. ASSUME NEW b \in page.waiting, Hit(r, b) PROVE highlighter' # "none"
      BY <2>2, <2>3 DEF Hit
    <2>4. ASSUME NEW b \in page.waiting, Miss(r, b) PROVE highlighter' # "none"
      BY <2>4 DEF Miss, Highlighter
    <2>5. ASSUME NEW b \in page.awaiting, Highlight(r, b) PROVE highlighter' # "none"
      BY <2>2, <2>5 DEF Highlight
    <2>6. CASE Rejected(r)
      BY <2>6 DEF Rejected
    <2> QED
      BY <1>5, <2>3, <2>4, <2>5, <2>6 DEF Render
  <1>6. ASSUME NEW r \in Request, Close(r) PROVE highlighter' # "none"
    <2>1. pages' = [pages EXCEPT ![r] = None] /\ highlighter' = highlighter
      BY <1>6 DEF Close
    <2>2. q # r
      BY <2>1 DEF Rendering, PageInv
    <2> QED
      BY <1>1, <2>1, <2>2 DEF Rendering, PageInv
  <1>7. ASSUME NEW r \in Request, NEW u \in Student, Open(r, u) PROVE highlighter' # "none"
    <2> DEFINE page == [student |-> u, waiting |-> LabPage(deployed), awaiting |-> {}, shown |-> {}]
    <2>1. /\ pages' = [pages EXCEPT ![r] = page] \/ pages' = [pages EXCEPT ![r] = Thrown]
          /\ highlighter' = highlighter
      BY <1>7 DEF Open
    <2>2. page.awaiting = {}
      OBVIOUS
    <2>3. q # r
      BY <2>1, <2>2 DEF Rendering, PageInv
    <2> QED
      BY <1>1, <2>1, <2>3 DEF Rendering, PageInv
  <1> QED
    BY <1>2, <1>3, <1>4, <1>5, <1>6, <1>7 DEF Next, Portal

(* Whatever pages, releases and rejections come in between, a page never awaits a promise
   that nobody has made: Answered needs no more than that a promise settles. *)
THEOREM NoPageHangs == Spec => []PromiseAwaited
  <1>1. Init => PromiseAwaited
    BY DEF Init, Fresh, PromiseAwaited, Rendering
  <1> QED
    BY <1>1, PageAlways, AwaitedStep, PTL DEF Spec
-----------------------------------------------------------------------------
(* The labs as they are written.  Their lists are short: what is asked of a
   list is asked of its elements, one by one. *)

LEMMA TwoElements == ASSUME NEW a, NEW b PROVE ToSet(<<a, b>>) = {a, b}
  BY DEF ToSet
LEMMA ThreeElements ==
    ASSUME NEW a, NEW b, NEW c
    PROVE  /\ ToSet(<<a, b, c>>) = {a, b, c}
           /\ \A S : {a, b, c} \subseteq S => <<a, b, c>> \in Seq(S)
  BY DEF ToSet
LEMMA FiveElements ==
    ASSUME NEW a, NEW b, NEW c, NEW d, NEW e
    PROVE  /\ ToSet(<<a, b, c, d, e>>) = {a, b, c, d, e}
           /\ \A S : {a, b, c, d, e} \subseteq S => <<a, b, c, d, e>> \in Seq(S)
  BY DEF ToSet
LEMMA SixElements ==
    ASSUME NEW a, NEW b, NEW c, NEW d, NEW e, NEW f
    PROVE  /\ ToSet(<<a, b, c, d, e, f>>) = {a, b, c, d, e, f}
           /\ \A S : {a, b, c, d, e, f} \subseteq S => <<a, b, c, d, e, f>> \in Seq(S)
  BY DEF ToSet

(* Two lists in a row hold what they hold. *)
LEMMA JoinedElements ==
    ASSUME NEW S, NEW s \in Seq(S), NEW t \in Seq(S)
    PROVE  ToSet(s \o t) = ToSet(s) \cup ToSet(t)
  <1> DEFINE st == s \o t
  <1>1. \A i \in DOMAIN st : st[i] \in ToSet(s) \cup ToSet(t)
    BY DEF ToSet
  <1>2. \A i \in DOMAIN s : i \in DOMAIN st /\ st[i] = s[i]
    OBVIOUS
  <1>3. ASSUME NEW i \in DOMAIN t PROVE Len(s) + i \in DOMAIN st /\ st[Len(s) + i] = t[i]
    <2>1. i \in 1..Len(t) /\ Len(st) = Len(s) + Len(t) /\ DOMAIN st = 1..Len(st)
      OBVIOUS
    <2> QED
      BY <2>1
  <1> HIDE DEF st
  <1>4. ToSet(s) \subseteq ToSet(st) /\ ToSet(t) \subseteq ToSet(st)
    BY <1>2, <1>3 DEF ToSet
  <1>5. ToSet(st) \subseteq ToSet(s) \cup ToSet(t)
    BY <1>1 DEF ToSet
  <1> QED
    BY <1>4, <1>5 DEF st

(* What SnippetsCheck asks of one step. *)
Upheld(step, def) ==
    /\ step.claims \subseteq keys(def)
    /\ step.grades # Nothing => step.grades \in def.checkpoints

LEMMA StepResolves ==
    ASSUME NEW def
    PROVE  /\ \A does : Upheld(LabStep(does, {}, Nothing), def)
           /\ \A does, k : k \in keys(def) => Upheld(LabStep(does, {k}, Nothing), def)
           /\ \A does, c : c \in def.checkpoints => Upheld(LabStep(does, {}, c), def)
           /\ \A does, k, c : k \in keys(def) /\ c \in def.checkpoints
                => Upheld(LabStep(does, {k}, c), def)
           /\ \A does, k, l : k \in keys(def) /\ l \in keys(def)
                => Upheld(LabStep(does, {k, l}, Nothing), def)
  BY DEF LabStep, Upheld

LEMMA ThreeResolve ==
    ASSUME NEW def, NEW a, NEW b, NEW c, Upheld(a, def), Upheld(b, def), Upheld(c, def)
    PROVE  \A step \in ToSet(<<a, b, c>>) : Upheld(step, def)
  BY ThreeElements
LEMMA FiveResolve ==
    ASSUME NEW def, NEW a, NEW b, NEW c, NEW d, NEW e,
           Upheld(a, def), Upheld(b, def), Upheld(c, def), Upheld(d, def), Upheld(e, def)
    PROVE  \A step \in ToSet(<<a, b, c, d, e>>) : Upheld(step, def)
  BY FiveElements
LEMMA SixResolve ==
    ASSUME NEW def, NEW a, NEW b, NEW c, NEW d, NEW e, NEW f,
           Upheld(a, def), Upheld(b, def), Upheld(c, def),
           Upheld(d, def), Upheld(e, def), Upheld(f, def)
    PROVE  \A step \in ToSet(<<a, b, c, d, e, f>>) : Upheld(step, def)
  BY SixElements

LEMMA WellWritten ==
    ASSUME NEW def, "" \notin keys(def), \A step \in ToSet(def.steps) : Upheld(step, def)
    PROVE  SnippetsCheck(def)
  BY DEF SnippetsCheck, Upheld, keys

(* No name twice in the list of the snippets. *)
OwnNames(snippets) ==
    \A i, j \in DOMAIN snippets : snippetKey(snippets[i]) = snippetKey(snippets[j]) => i = j

LEMMA NamesAreUnique ==
    ASSUME NEW def, OwnNames(def.snippets) PROVE \A k : Unique(def, k)
  BY DEF OwnNames, Unique, Numbers

Fine(def) == SnippetsCheck(def) /\ \A k \in keys(def) : Unique(def, k)

LEMMA Lab1Fine == Fine(LABS[1])
  <1> DEFINE def == LABS[1]
  <1>1. def.steps = lab1Steps /\ def.snippets = lab1Snippets /\ def.checkpoints = lab1Checkpoints
    BY DEF LABS, LabDef
  <1> HIDE DEF def
  <1>2. keys(def) = {"main.tf", "outputs.tf"}
    BY <1>1, TwoElements DEF keys, lab1Snippets, File, snippetKey
  <1>3. OwnNames(lab1Snippets)
    BY DEF OwnNames, lab1Snippets, File, snippetKey
  <1>4. \A step \in ToSet(lab1Steps) : Upheld(step, def)
    BY <1>1, <1>2, StepResolves, SixResolve DEF lab1Steps, lab1Checkpoints
  <1> QED
    BY <1>1, <1>2, <1>3, <1>4, WellWritten, NamesAreUnique DEF Fine, def

LEMMA Lab2Fine == Fine(LABS[2])
  <1> DEFINE def == LABS[2]
  <1>1. /\ def.steps = lab2Reading \o lab2Doing
        /\ def.snippets = lab2Snippets /\ def.checkpoints = lab2Checkpoints
    BY DEF LABS, LabDef
  <1> HIDE DEF def
  <1>2. keys(def) = {"spec-example", "tpctl-new-output", "environment-workflow",
                     "environment-return", "register-challenge-2", "register.go"}
    <2>1. ToSet(lab2Snippets) =
            {Excerpt("spec-example"), Excerpt("tpctl-new-output"), Excerpt("environment-workflow"),
             Excerpt("environment-return"), Excerpt("register-challenge-2"),
             HiddenFile("register.go")}
      BY SixElements DEF lab2Snippets
    <2>2. \A n : snippetKey(Excerpt(n)) = n /\ snippetKey(HiddenFile(n)) = n
      BY DEF Excerpt, HiddenFile, snippetKey
    <2>3. keys(def) = {snippetKey(sn) : sn \in ToSet(lab2Snippets)}
      BY <1>1 DEF keys
    <2> QED
      BY <2>1, <2>2, <2>3
  <1>3. OwnNames(lab2Snippets)
    BY DEF OwnNames, lab2Snippets, Excerpt, HiddenFile, snippetKey
  <1>4. \A step \in ToSet(lab2Reading) : Upheld(step, def)
    BY <1>1, <1>2, StepResolves, SixResolve DEF lab2Reading, lab2Checkpoints
  <1>5. \A step \in ToSet(lab2Doing) : Upheld(step, def)
    BY <1>1, <1>2, StepResolves, SixResolve DEF lab2Doing, lab2Checkpoints
  <1>6. ToSet(def.steps) = ToSet(lab2Reading) \cup ToSet(lab2Doing)
    <2> DEFINE S == ToSet(lab2Reading) \cup ToSet(lab2Doing)
    <2>1. lab2Reading \in Seq(S) /\ lab2Doing \in Seq(S)
      BY SixElements DEF lab2Reading, lab2Doing
    <2> QED
      BY <1>1, <2>1, JoinedElements
  <1> QED
    BY <1>1, <1>2, <1>3, <1>4, <1>5, <1>6, WellWritten, NamesAreUnique DEF Fine, def

LEMMA Lab3Fine == Fine(LABS[3])
  <1> DEFINE def == LABS[3]
  <1>1. def.steps = lab3Steps /\ def.snippets = lab3Snippets /\ def.checkpoints = lab3Checkpoints
    BY DEF LABS, LabDef
  <1> HIDE DEF def
  <1>2. keys(def) = {"reconciler-switch", "wait-select", "register-challenge-3"}
    BY <1>1, ThreeElements DEF keys, lab3Snippets, Excerpt, snippetKey
  <1>3. OwnNames(lab3Snippets)
    BY DEF OwnNames, lab3Snippets, Excerpt, snippetKey
  <1>4. \A step \in ToSet(lab3Steps) : Upheld(step, def)
    BY <1>1, <1>2, StepResolves, SixResolve DEF lab3Steps, lab3Checkpoints
  <1> QED
    BY <1>1, <1>2, <1>3, <1>4, WellWritten, NamesAreUnique DEF Fine, def

LEMMA Lab4Fine == Fine(LABS[4])
  <1> DEFINE def == LABS[4]
  <1>1. /\ def.steps = lab4Writing \o lab4Running
        /\ def.snippets = lab4Snippets /\ def.checkpoints = lab4Checkpoints
    BY DEF LABS, LabDef
  <1> HIDE DEF def
  <1>2. keys(def) = {"worker-layout", "greeting.py"}
    BY <1>1, TwoElements DEF keys, lab4Snippets, File, Excerpt, snippetKey
  <1>3. OwnNames(lab4Snippets)
    BY DEF OwnNames, lab4Snippets, File, Excerpt, snippetKey
  <1>4. \A step \in ToSet(lab4Writing) : Upheld(step, def)
    BY <1>1, <1>2, StepResolves, ThreeResolve DEF lab4Writing, lab4Checkpoints
  <1>5. \A step \in ToSet(lab4Running) : Upheld(step, def)
    BY <1>1, <1>2, StepResolves, FiveResolve DEF lab4Running, lab4Checkpoints
  <1>6. ToSet(def.steps) = ToSet(lab4Writing) \cup ToSet(lab4Running)
    <2> DEFINE S == ToSet(lab4Writing) \cup ToSet(lab4Running)
    <2>1. lab4Writing \in Seq(S) /\ lab4Running \in Seq(S)
      BY ThreeElements, FiveElements DEF lab4Writing, lab4Running
    <2> QED
      BY <1>1, <2>1, JoinedElements
  <1> QED
    BY <1>1, <1>2, <1>3, <1>4, <1>5, <1>6, WellWritten, NamesAreUnique DEF Fine, def

(* Every claim and every grade of the four labs resolves, no two snippets of a lab have one
   name, and every page shows what it does not hide, in its place. *)
THEOREM LabsPassTheCheck == Spec => []LabsAsWritten
  <1>1. DOMAIN LABS = 1..4
    BY DEF LABS
  <1>2. ASSUME NEW n \in DOMAIN LABS PROVE Fine(LABS[n]) /\ InPlace(LABS[n], LabPage(LABS[n]))
    <2>1. Fine(LABS[n])
      BY <1>1, <1>2, Lab1Fine, Lab2Fine, Lab3Fine, Lab4Fine
    <2> QED
      BY <2>1, PageInPlace
  <1>3. LabsAsWritten
    BY <1>2 DEF LabsAsWritten, Fine
  <1> QED
    BY <1>3, PTL
=============================================================================
