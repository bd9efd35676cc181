-------------------------------- MODULE Join --------------------------------
(***************************************************************************)
(* Joining the workshop and coming back to it: the server action join()    *)
(* of src/portal/src/app/join/actions.ts with the calls it makes to        *)
(* Authentik and Temporal Cloud, and the browser tab that submits it.      *)
(*                                                                         *)
(* A tab holds one request at a time.  Every call of a request is one step *)
(* and may fail, lose its reply after it took effect, or die with the      *)
(* process.  Other tabs' calls come in between.                            *)
(***************************************************************************)
EXTENDS Access, FiniteSets

CONSTANTS
    Tab,        \* browser tabs
    Name,       \* usernames that pass the USERNAME expression
    Size,       \* PORTAL_COHORT_SIZE
    Legacy,     \* Legacy[n]: the accounts n may have before the portal saw it
    MaxFaults   \* bound: how many calls fail or lose their reply

VARIABLES
    users,      \* users[n]: the Authentik account findUser(n) finds, or None
    cloud,      \* the addresses that have a Temporal Cloud user
    at,         \* at[t]: where the tab is (Places)
    link,       \* link[t]: the link the tab was opened with, or the one it shows
    proc,       \* proc[t]: the process that serves the tab's request, or None
    typed,      \* typed[t]: the username the tab joined with, or None
    seen,       \* seen[t]: what the request knows of the account
    faults      \* how many calls failed so far

storeVars == <<users, cloud>>
tabVars == <<link, typed>>
reqVars == <<at, proc, seen>>
vars == <<accessVars, storeVars, reqVars, tabVars, faults>>

(* An address is the username at WORKSHOP_DOMAIN; Authentik's username field
   may hold the bare handle instead, its email field something else.  `maker`
   says who made the account; the code never reads it, the cap is about it. *)
Account == [maker : {"portal", "hand"}, login : {"address", "handle"},
            mail : {"address", "other"}, cohort : Generation \cup {None},
            password : BOOLEAN, grouped : BOOLEAN, cloudUser : BOOLEAN]

Seen == [right : BOOLEAN, cloudUser : BOOLEAN]
Nothing == [right |-> FALSE, cloudUser |-> FALSE]
Token == [secret : Generation, name : Name]
Link == [k : Generation, u : Name \cup {None}, t : Token \cup {None}]
BareLink(code) == [k |-> code, u |-> None, t |-> None]

Calls == {"find", "count", "create", "password", "identity", "group", "cloud", "attributes"}
Places == Calls \cup {"away", "form", "error", "barred", "full", "shown", "lab", "graded", "cut"}

ASSUME SizeNat == Size \in Nat
ASSUME FaultsNat == MaxFaults \in Nat
ASSUME FiniteWorkshop == IsFiniteSet(Tab) /\ IsFiniteSet(Name)
ASSUME NoneIsNobody == None \notin Name \cup Account \cup Token \cup Process
ASSUME HandMade ==
    \A n \in Name : \A a \in Legacy[n] \ {None} :
        /\ a \in Account
        /\ a.maker = "hand"
        /\ a.cohort = None
        /\ a.cloudUser => a.mail = "address"

Members(c) == {n \in Name : users[n] # None /\ users[n].cohort = c}
cfgOf(t) == running[proc[t]]

TypeOK ==
    /\ AccessTypeOK
    /\ users \in [Name -> Account \cup {None}]
    /\ cloud \in SUBSET Name
    /\ at \in [Tab -> Places]
    /\ link \in [Tab -> Link]
    /\ proc \in [Tab -> Process \cup {None}]
    /\ typed \in [Tab -> Name \cup {None}]
    /\ seen \in [Tab -> Seen]
    /\ faults \in 0..MaxFaults

(* An account that says it has a Cloud user has one. *)
Init ==
    /\ AccessInit
    /\ users \in {f \in [Name -> UNION {Legacy[n] : n \in Name}] : \A n \in Name : f[n] \in Legacy[n]}
    /\ cloud = {n \in Name : users[n] # None /\ users[n].cloudUser}
    /\ at = [t \in Tab |-> "away"]
    /\ link = [t \in Tab |-> BareLink(0)]
    /\ proc = [t \in Tab |-> None]
    /\ typed = [t \in Tab |-> None]
    /\ seen = [t \in Tab |-> Nothing]
    /\ faults = 0

-----------------------------------------------------------------------------
(* The browser. *)

(* The join page, opened with a code the room has seen.  A tab that shows a
   result may be closed before anyone wrote the password down. *)
Open(t, p, k) ==
    /\ at[t] \notin Calls \cup {"form"}
    /\ k \in 0..rotations
    /\ at' = [at EXCEPT ![t] = IF JoinPage(BareLink(k), running[p]) = "form" THEN "form" ELSE "cut"]
    /\ link' = [link EXCEPT ![t] = BareLink(k)]
    /\ UNCHANGED <<accessVars, storeVars, proc, typed, seen, faults>>

Submit(t, p, n) ==
    /\ at[t] \in {"form", "error", "barred", "full"}
    /\ running[p].valid
    /\ IF verifyCode(link[t].k, running[p])
       THEN /\ at' = [at EXCEPT ![t] = "find"]
            /\ typed' = [typed EXCEPT ![t] = n]
            /\ proc' = [proc EXCEPT ![t] = p]
       ELSE at' = [at EXCEPT ![t] = "cut"] /\ UNCHANGED <<typed, proc>>
    /\ UNCHANGED <<accessVars, storeVars, link, seen, faults>>

OpenLab(t, p) ==
    /\ at[t] = "shown"
    /\ at' = [at EXCEPT ![t] = IF LabPage(link[t], running[p]) = "lab" THEN "lab" ELSE "cut"]
    /\ UNCHANGED <<accessVars, storeVars, proc, seen, tabVars, faults>>

(* The exit check's poll. *)
Poll(t, p) ==
    /\ at[t] \in {"lab", "graded"}
    /\ at' = [at EXCEPT ![t] = IF CheckpointsRoute(link[t], running[p]) = "grade" THEN "graded" ELSE "cut"]
    /\ UNCHANGED <<accessVars, storeVars, proc, seen, tabVars, faults>>

-----------------------------------------------------------------------------
(* The request, one call at a time. *)

(* Where the request goes next, knowing what of the account; a place that is
   not a call ends it. *)
Goto(t, place, known) ==
    /\ at' = [at EXCEPT ![t] = place]
    /\ seen' = [seen EXCEPT ![t] = IF place \in Calls THEN known ELSE Nothing]
    /\ proc' = [proc EXCEPT ![t] = IF place \in Calls THEN @ ELSE None]

Failed(t) ==
    /\ faults < MaxFaults
    /\ faults' = faults + 1
    /\ Goto(t, "error", Nothing)

(* The answer arrives and the request goes on, or the answer is lost. *)
Answer(t, place, known) ==
    \/ Goto(t, place, known) /\ UNCHANGED faults
    \/ Failed(t)

(* The call fails before it had any effect. *)
CallFails(t) ==
    /\ at[t] \in Calls
    /\ Failed(t)
    /\ UNCHANGED <<accessVars, storeVars, tabVars>>

Known(u) == [right |-> u.login = "address" /\ u.mail = "address", cloudUser |-> u.cloudUser]

\* Mutant of findUser: another cohort's account is a return like any other.
findUserAnyCohort(t) ==
    LET u == users[typed[t]] IN
    /\ at[t] = "find"
    /\ \/ u = None /\ Goto(t, "count", Nothing)
       \/ u # None /\ Goto(t, "password", Known(u))
    /\ UNCHANGED <<accessVars, storeVars, tabVars, faults>>

\* Mutant of findUser: a duplicate is a conflict.
findUserNoReturn(t) ==
    /\ at[t] = "find"
    /\ IF users[typed[t]] = None THEN Goto(t, "count", Nothing) ELSE Goto(t, "error", Nothing)
    /\ UNCHANGED <<accessVars, storeVars, tabVars, faults>>

findUser(t) ==
    LET u == users[typed[t]] IN
    /\ at[t] = "find"
    /\ \/ u = None /\ Goto(t, "count", Nothing)
       \/ u # None /\ u.cohort \in {None, cfgOf(t).cohort} /\ Goto(t, "password", Known(u))
       \/ u # None /\ u.cohort \notin {None, cfgOf(t).cohort} /\ Goto(t, "barred", Nothing)
    /\ UNCHANGED <<accessVars, storeVars, tabVars, faults>>

\* Mutant of countCohort: no cap.
countCohortNot(t) ==
    /\ at[t] = "count"
    /\ Goto(t, "create", Nothing)
    /\ UNCHANGED <<accessVars, storeVars, tabVars, faults>>

countCohort(t) ==
    /\ at[t] = "count"
    /\ IF Cardinality(Members(cfgOf(t).cohort)) >= Size
       THEN Goto(t, "full", Nothing)
       ELSE Goto(t, "create", Nothing)
    /\ UNCHANGED <<accessVars, storeVars, tabVars, faults>>

\* Mutant of NewAccount: the account says it has its Cloud user from the start.
NewAccountDone(cfg) ==
    [maker |-> "portal", login |-> "address", mail |-> "address", cohort |-> cfg.cohort,
     password |-> FALSE, grouped |-> FALSE, cloudUser |-> TRUE]

NewAccount(cfg) ==
    [maker |-> "portal", login |-> "address", mail |-> "address", cohort |-> cfg.cohort,
     password |-> FALSE, grouped |-> FALSE, cloudUser |-> FALSE]

(* Authentik refuses a username it already has. *)
createUser(t) ==
    /\ at[t] = "create"
    /\ \/ /\ users[typed[t]] = None
          /\ users' = [users EXCEPT ![typed[t]] = NewAccount(cfgOf(t))]
          /\ Answer(t, "password", Known(NewAccount(cfgOf(t))))
       \/ /\ users[typed[t]] # None
          /\ Goto(t, "error", Nothing)
          /\ UNCHANGED <<users, faults>>
    /\ UNCHANGED <<accessVars, cloud, tabVars>>

setPassword(t) ==
    /\ at[t] = "password"
    /\ users' = [users EXCEPT ![typed[t]].password = TRUE]
    /\ Answer(t, "identity", seen[t])
    /\ UNCHANGED <<accessVars, cloud, tabVars>>

\* Mutant of ensureIdentity: the address is taken for granted.
ensureIdentityNot(t) ==
    /\ at[t] = "identity"
    /\ Goto(t, "group", seen[t])
    /\ UNCHANGED <<accessVars, storeVars, tabVars, faults>>

Righted(u) == [u EXCEPT !.login = "address", !.mail = "address"]
ensureIdentity(t) ==
    /\ at[t] = "identity"
    /\ \/ seen[t].right /\ Goto(t, "group", seen[t]) /\ UNCHANGED <<users, faults>>
       \/ /\ ~seen[t].right
          /\ users' = [users EXCEPT ![typed[t]] = Righted(@)]
          /\ Answer(t, "group", seen[t])
    /\ UNCHANGED <<accessVars, cloud, tabVars>>

ensureGroup(t) ==
    /\ at[t] = "group"
    /\ users' = [users EXCEPT ![typed[t]].grouped = TRUE]
    /\ Answer(t, "cloud", seen[t])
    /\ UNCHANGED <<accessVars, cloud, tabVars>>

(* "Already exists" is success. *)
createCloudUser(t) ==
    \/ ~cfgOf(t).keyed /\ Goto(t, "error", Nothing) /\ UNCHANGED <<cloud, faults>>
    \/ /\ cfgOf(t).keyed
       /\ cloud' = cloud \cup {typed[t]}
       /\ Answer(t, "attributes", seen[t])

ensureCloudUser(t) ==
    /\ at[t] = "cloud"
    /\ \/ seen[t].cloudUser /\ Goto(t, "attributes", seen[t]) /\ UNCHANGED <<cloud, faults>>
       \/ ~seen[t].cloudUser /\ createCloudUser(t)
    /\ UNCHANGED <<accessVars, users, tabVars>>

labUrl(n, cfg) == labQuery(n, participantToken(n, cfg), cfg)

Complete(u, cfg) == [u EXCEPT !.cohort = cfg.cohort, !.cloudUser = TRUE]
updateAttributes(t) ==
    /\ at[t] = "attributes"
    /\ users' = [users EXCEPT ![typed[t]] = Complete(@, cfgOf(t))]
    /\ \/ /\ Goto(t, "shown", Nothing)
          /\ link' = [link EXCEPT ![t] = labUrl(typed[t], cfgOf(t))]
          /\ UNCHANGED faults
       \/ Failed(t) /\ UNCHANGED link
    /\ UNCHANGED <<accessVars, cloud, typed>>

Request(t) ==
    \/ findUser(t) \/ countCohort(t) \/ createUser(t) \/ setPassword(t) \/ ensureIdentity(t)
    \/ ensureGroup(t) \/ ensureCloudUser(t) \/ updateAttributes(t)

-----------------------------------------------------------------------------
(* The machines. *)

SetSecrets == FlySecretsSet /\ UNCHANGED <<storeVars, reqVars, tabVars, faults>>

(* A restart ends the requests of that machine.  The form's await rejects,
   it is no longer busy and shows no error. *)
RestartMachine(p) ==
    /\ Restart(p)
    /\ at' = [t \in Tab |-> IF proc[t] = p THEN "form" ELSE at[t]]
    /\ seen' = [t \in Tab |-> IF proc[t] = p THEN Nothing ELSE seen[t]]
    /\ proc' = [t \in Tab |-> IF proc[t] = p THEN None ELSE proc[t]]
    /\ UNCHANGED <<storeVars, tabVars, faults>>

Next ==
    \/ \E t \in Tab : Request(t) \/ CallFails(t)
    \/ \E t \in Tab, p \in Process : OpenLab(t, p) \/ Poll(t, p)
    \/ \E t \in Tab, p \in Process, n \in Name : Submit(t, p, n)
    \/ \E t \in Tab, p \in Process, k \in Generation : Open(t, p, k)
    \/ SetSecrets
    \/ \E p \in Process : RestartMachine(p)

Spec == Init /\ [][Next]_vars
(* Nobody but the student's patience is assumed: requests run, machines come
   back with the new configuration, and a student who is not there yet types
   a name again with the code on the wall, opens the link they got and keeps
   the page open. *)
FairSpec ==
    /\ Spec
    /\ \A p \in Process : WF_vars(RestartMachine(p))
    /\ \A t \in Tab :
        /\ WF_vars(Request(t))
        /\ SF_vars(\E p \in Process, n \in Name : Submit(t, p, n))
        /\ SF_vars(at[t] # "shown" /\ \E p \in Process : Open(t, p, secrets.code))
        /\ SF_vars(\E p \in Process : OpenLab(t, p))
        /\ SF_vars(\E p \in Process : Poll(t, p))

-----------------------------------------------------------------------------
(* What the join promises. *)

(* A tab that shows a result shows an account the student can use: its login
   and mail are the address the Cloud user is keyed by, it has a password, is
   in the group, and the Cloud user exists.  Each of the six calls sets one of
   these, on an account other requests may have left half made. *)
ShownWorks ==
    \A t \in Tab : at[t] = "shown" =>
        LET u == users[typed[t]] IN
        /\ u # None
        /\ u.login = "address" /\ u.mail = "address"
        /\ u.password /\ u.grouped
        /\ typed[t] \in cloud

(* An account that says its Cloud user exists is right: a later join skips
   the call on the strength of it. *)
CloudUserHonest ==
    \A n \in Name : users[n] # None /\ users[n].cloudUser => n \in cloud

(* The cap counts, then creates: each tab may be between the two, so a cohort
   may exceed the cap by one account for every tab but one, and no more. *)
Made(c) == {n \in Members(c) : users[n].maker = "portal"}
Creating(c) == {t \in Tab : at[t] = "create" /\ cfgOf(t).cohort = c}
Overshoot ==
    \A c \in Generation :
        Cardinality(Made(c)) > 0 =>
            Cardinality(Made(c)) + Cardinality(Creating(c)) <= Size + Cardinality(Tab) - 1

(* A retired link opens nothing: whoever gets past a gate has the code of a
   process that is running at that moment. *)
Past == {"find", "lab", "graded"}
RetiredLinksDie ==
    [][\A t \in Tab : at[t] \notin Calls /\ at'[t] \in Past /\ at'[t] # at[t] =>
            \E p \in Process : link[t].k = running[p].code]_vars

(* An account, once in a cohort the portal made it for, stays in it. *)
CohortKept ==
    [][\A n \in Name : users[n] # None /\ users[n].maker = "portal" =>
            users'[n] # None /\ users'[n].cohort = users[n].cohort]_vars

(* Close the tab, come back, type the same name: a student whose name has an
   account gets to the graded page, unless the name is another cohort's or
   the configuration is broken for good. *)
Back(t, n) == at[t] \in {"graded", "barred"} \/ typed[t] # n
BackIn ==
    \A t \in Tab, n \in Name :
        (typed[t] = n /\ users[n] # None) ~> (Back(t, n) \/ ~secrets.valid \/ ~secrets.keyed)
=============================================================================
