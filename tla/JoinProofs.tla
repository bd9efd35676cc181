----------------------------- MODULE JoinProofs -----------------------------
(***************************************************************************)
(* What joining promises, for any number of tabs, names, machines,         *)
(* rotations and faults.  The inductive invariant JoinInv follows a        *)
(* request through its calls: what it knows of the account when it makes   *)
(* one.  It holds because no other request takes away from an account what *)
(* this one found or put there (Grows).                                    *)
(***************************************************************************)
EXTENDS Join, FiniteSetTheorems, TLAPS

InRequest == \A t \in Tab : at[t] \in Calls => proc[t] \in Process /\ typed[t] \in Name

(* The places a request is at once it has found or made the account, and once
   it has made each of the calls that follow. *)
WithAccount == {"password", "identity", "group", "cloud", "attributes", "shown"}
WithPassword == WithAccount \ {"password"}
WithIdentity == WithPassword \ {"identity"}
WithGroup == WithIdentity \ {"group"}
WithCloud == WithGroup \ {"cloud"}

Right(n) == users[n].login = "address" /\ users[n].mail = "address"
Established(t) ==
    /\ at[t] \in WithAccount => typed[t] \in Name /\ users[typed[t]] # None
    /\ at[t] \in WithAccount /\ seen[t].right => Right(typed[t])
    /\ at[t] \in WithAccount /\ seen[t].cloudUser => typed[t] \in cloud
    /\ at[t] \in WithPassword => users[typed[t]].password
    /\ at[t] \in WithIdentity => Right(typed[t])
    /\ at[t] \in WithGroup => users[typed[t]].grouped
    /\ at[t] \in WithCloud => typed[t] \in cloud

JoinInv ==
    /\ TypeOK
    /\ InRequest
    /\ CloudUserHonest
    /\ \A t \in Tab : Established(t)

(* What a step may do to the accounts. *)
Grows ==
    /\ cloud \subseteq cloud'
    /\ \A n \in Name : users[n] # None =>
         /\ users'[n] # None
         /\ Right(n) => Right(n)'
         /\ users[n].password => users'[n].password
         /\ users[n].grouped => users'[n].grouped
-----------------------------------------------------------------------------
LEMMA ChangeType ==
    ASSUME NEW cfg \in Schema, NEW n \in Generation, NEW new \in Change(cfg, n)
    PROVE  new \in Schema
  BY DEF Schema, Change, Generation

LEMMA NewAccountType ==
    ASSUME NEW cfg \in Schema
    PROVE  /\ NewAccount(cfg) \in Account
           /\ NewAccount(cfg) # None
           /\ Known(NewAccount(cfg)) \in Seen
  <1>1. NewAccount(cfg) \in Account
    BY DEF Schema, NewAccount, Account
  <1>2. NewAccount(cfg) # None
    BY <1>1, NoneIsNobody
  <1>3. Known(NewAccount(cfg)) = [right |-> TRUE, cloudUser |-> FALSE]
    BY DEF NewAccount, Known
  <1> QED
    BY <1>1, <1>2, <1>3 DEF Seen

LEMMA RightedType ==
    ASSUME NEW u \in Account
    PROVE  /\ Righted(u) \in Account
           /\ Righted(u).login = "address" /\ Righted(u).mail = "address"
           /\ Righted(u).cloudUser = u.cloudUser /\ Righted(u).password = u.password
           /\ Righted(u).grouped = u.grouped /\ Righted(u).maker = u.maker
           /\ Righted(u).cohort = u.cohort
  BY DEF Righted, Account

LEMMA CompleteType ==
    ASSUME NEW u \in Account, NEW cfg \in Schema
    PROVE  /\ Complete(u, cfg) \in Account
           /\ Complete(u, cfg).login = u.login /\ Complete(u, cfg).mail = u.mail
           /\ Complete(u, cfg).cloudUser /\ Complete(u, cfg).password = u.password
           /\ Complete(u, cfg).grouped = u.grouped /\ Complete(u, cfg).maker = u.maker
           /\ Complete(u, cfg).cohort = cfg.cohort
  BY DEF Complete, Account, Schema

LEMMA KnownType == ASSUME NEW u \in Account PROVE Known(u) \in Seen
  BY DEF Account, Known, Seen

LEMMA LabUrlType == ASSUME NEW cfg \in Schema, NEW n \in Name PROVE labUrl(n, cfg) \in Link
  BY DEF Schema, labUrl, labQuery, participantToken, Link, Token

LEMMA GotoType ==
    ASSUME TypeOK, NEW t \in Tab, NEW place \in Places, NEW known \in Seen, Goto(t, place, known)
    PROVE  /\ at' \in [Tab -> Places]
           /\ seen' \in [Tab -> Seen]
           /\ proc' \in [Tab -> Process \cup {None}]
  BY DEF TypeOK, Goto, Nothing, Seen

LEMMA FailedType ==
    ASSUME TypeOK, NEW t \in Tab, Failed(t)
    PROVE  /\ at' \in [Tab -> Places]
           /\ seen' \in [Tab -> Seen]
           /\ proc' \in [Tab -> Process \cup {None}]
           /\ faults' \in 0..MaxFaults
  <1>1. Nothing \in Seen /\ "error" \in Places
    BY DEF Nothing, Seen, Places
  <1>2. faults' \in 0..MaxFaults
    BY FaultsNat DEF TypeOK, Failed
  <1> QED
    BY <1>1, <1>2, GotoType DEF Failed

LEMMA AnswerType ==
    ASSUME TypeOK, NEW t \in Tab, NEW place \in Places, NEW known \in Seen, Answer(t, place, known)
    PROVE  /\ at' \in [Tab -> Places]
           /\ seen' \in [Tab -> Seen]
           /\ proc' \in [Tab -> Process \cup {None}]
           /\ faults' \in 0..MaxFaults
  BY GotoType, FailedType DEF Answer, TypeOK

(* Every call leaves the types alone. *)
LEMMA RequestType ==
    ASSUME TypeOK, InRequest, NEW t \in Tab, at[t] \in WithAccount => users[typed[t]] # None,
           Request(t)
    PROVE  TypeOK'
  <1> USE DEF TypeOK
  <1> DEFINE n == typed[t]
  <1>0. /\ at[t] \in Calls => n \in Name /\ cfgOf(t) \in Schema /\ seen[t] \in Seen
        /\ Nothing \in Seen
    BY DEF InRequest, cfgOf, AccessTypeOK, Nothing, Seen
  <1>1. CASE findUser(t)
    <2>1. at[t] = "find" /\ n \in Name
      BY <1>1, <1>0 DEF findUser, Calls
    <2>2. users[n] # None => Known(users[n]) \in Seen
      BY <2>1, KnownType
    <2>3. \E place \in Places, known \in Seen : Goto(t, place, known)
      BY <1>1, <2>2, <1>0 DEF findUser, Places, Calls
    <2> QED
      BY <1>1, <2>3, GotoType DEF findUser, storeVars, tabVars, accessVars, AccessTypeOK
  <1>2. CASE countCohort(t)
    <2>1. \E place \in Places, known \in Seen : Goto(t, place, known)
      BY <1>2, <1>0 DEF countCohort, Places, Calls
    <2> QED
      BY <1>2, <2>1, GotoType DEF countCohort, storeVars, tabVars, accessVars, AccessTypeOK
  <1>3. CASE createUser(t)
    <2>1. at[t] = "create" /\ n \in Name /\ cfgOf(t) \in Schema
      BY <1>3, <1>0 DEF createUser, Calls
    <2>2. "password" \in Places /\ "error" \in Places
      BY DEF Places, Calls
    <2>3. users' \in [Name -> Account \cup {None}]
      BY <1>3, <2>1, NewAccountType DEF createUser
    <2>4. /\ at' \in [Tab -> Places] /\ seen' \in [Tab -> Seen]
          /\ proc' \in [Tab -> Process \cup {None}] /\ faults' \in 0..MaxFaults
      BY <1>3, <2>1, <2>2, <1>0, NewAccountType, AnswerType, GotoType DEF createUser
    <2> QED
      BY <1>3, <2>3, <2>4 DEF createUser, tabVars, accessVars, AccessTypeOK
  <1>4. CASE setPassword(t)
    <2>1. n \in Name /\ users[n] \in Account /\ seen[t] \in Seen
      BY <1>4, <1>0 DEF setPassword, Calls, WithAccount
    <2>2. users' \in [Name -> Account \cup {None}]
      BY <1>4, <2>1 DEF setPassword, Account
    <2>3. "identity" \in Places
      BY DEF Places, Calls
    <2> QED
      BY <1>4, <2>1, <2>2, <2>3, AnswerType DEF setPassword, tabVars, accessVars, AccessTypeOK
  <1>5. CASE ensureIdentity(t)
    <2>1. n \in Name /\ users[n] \in Account /\ seen[t] \in Seen
      BY <1>5, <1>0 DEF ensureIdentity, Calls, WithAccount
    <2>2. users' \in [Name -> Account \cup {None}]
      BY <1>5, <2>1, RightedType DEF ensureIdentity
    <2>3. "group" \in Places
      BY DEF Places, Calls
    <2>4. /\ at' \in [Tab -> Places] /\ seen' \in [Tab -> Seen]
          /\ proc' \in [Tab -> Process \cup {None}] /\ faults' \in 0..MaxFaults
      BY <1>5, <2>1, <2>3, AnswerType, GotoType DEF ensureIdentity
    <2> QED
      BY <1>5, <2>2, <2>4 DEF ensureIdentity, tabVars, accessVars, AccessTypeOK
  <1>6. CASE ensureGroup(t)
    <2>1. n \in Name /\ users[n] \in Account /\ seen[t] \in Seen
      BY <1>6, <1>0 DEF ensureGroup, Calls, WithAccount
    <2>2. users' \in [Name -> Account \cup {None}]
      BY <1>6, <2>1 DEF ensureGroup, Account
    <2>3. "cloud" \in Places
      BY DEF Places, Calls
    <2> QED
      BY <1>6, <2>1, <2>2, <2>3, AnswerType DEF ensureGroup, tabVars, accessVars, AccessTypeOK
  <1>7. CASE ensureCloudUser(t)
    <2>1. n \in Name /\ seen[t] \in Seen
      BY <1>7, <1>0 DEF ensureCloudUser, Calls
    <2>2. cloud' \in SUBSET Name
      BY <1>7, <2>1 DEF ensureCloudUser, createCloudUser
    <2>3. "attributes" \in Places /\ "error" \in Places
      BY DEF Places, Calls
    <2>4. /\ at' \in [Tab -> Places] /\ seen' \in [Tab -> Seen]
          /\ proc' \in [Tab -> Process \cup {None}] /\ faults' \in 0..MaxFaults
      BY <1>7, <1>0, <2>1, <2>3, AnswerType, GotoType DEF ensureCloudUser, createCloudUser
    <2> QED
      BY <1>7, <2>2, <2>4 DEF ensureCloudUser, tabVars, accessVars, AccessTypeOK
  <1>8. CASE updateAttributes(t)
    <2>1. n \in Name /\ users[n] \in Account /\ cfgOf(t) \in Schema
      BY <1>8, <1>0 DEF updateAttributes, Calls, WithAccount
    <2>2. users' \in [Name -> Account \cup {None}]
      BY <1>8, <2>1, CompleteType DEF updateAttributes
    <2>3. "shown" \in Places
      BY DEF Places
    <2>4. /\ at' \in [Tab -> Places] /\ seen' \in [Tab -> Seen]
          /\ proc' \in [Tab -> Process \cup {None}] /\ faults' \in 0..MaxFaults
      BY <1>8, <1>0, <2>3, FailedType, GotoType DEF updateAttributes
    <2>5. link' \in [Tab -> Link]
      BY <1>8, <2>1, LabUrlType DEF updateAttributes
    <2> QED
      BY <1>8, <2>2, <2>4, <2>5 DEF updateAttributes, accessVars, AccessTypeOK
  <1> QED
    BY <1>1, <1>2, <1>3, <1>4, <1>5, <1>6, <1>7, <1>8 DEF Request
-----------------------------------------------------------------------------
(* The browser and the machines leave the accounts and the types alone. *)
LEMMA OthersType ==
    ASSUME TypeOK,
           \/ \E t \in Tab : CallFails(t)
           \/ \E t \in Tab, p \in Process : OpenLab(t, p) \/ Poll(t, p)
           \/ \E t \in Tab, p \in Process, n \in Name : Submit(t, p, n)
           \/ \E t \in Tab, p \in Process, k \in Generation : Open(t, p, k)
           \/ SetSecrets
           \/ \E p \in Process : RestartMachine(p)
    PROVE  TypeOK' /\ users' = users /\ cloud' = cloud
  <1> USE DEF TypeOK, storeVars
  <1>0. {"form", "cut", "find", "lab", "graded"} \subseteq Places
    BY DEF Places, Calls
  <1>1. ASSUME NEW t \in Tab, CallFails(t) PROVE TypeOK' /\ users' = users /\ cloud' = cloud
    BY <1>1, FailedType DEF CallFails, tabVars, accessVars, AccessTypeOK
  <1>2. ASSUME NEW t \in Tab, NEW p \in Process, OpenLab(t, p) \/ Poll(t, p)
        PROVE  TypeOK' /\ users' = users /\ cloud' = cloud
    BY <1>0, <1>2 DEF OpenLab, Poll, tabVars, accessVars, AccessTypeOK
  <1>3. ASSUME NEW t \in Tab, NEW p \in Process, NEW n \in Name, Submit(t, p, n)
        PROVE  TypeOK' /\ users' = users /\ cloud' = cloud
    BY <1>0, <1>3 DEF Submit, accessVars, AccessTypeOK
  <1>4. ASSUME NEW t \in Tab, NEW p \in Process, NEW k \in Generation, Open(t, p, k)
        PROVE  TypeOK' /\ users' = users /\ cloud' = cloud
    <2>1. BareLink(k) \in Link
      BY DEF BareLink, Link
    <2> QED
      BY <1>0, <1>4, <2>1 DEF Open, accessVars, AccessTypeOK
  <1>5. CASE SetSecrets
    <2>1. rotations + 1 \in Generation
      BY <1>5, RotationsNat DEF SetSecrets, FlySecretsSet, Generation, AccessTypeOK
    <2>2. AccessTypeOK'
      BY <1>5, <2>1, ChangeType DEF SetSecrets, FlySecretsSet, AccessTypeOK
    <2> QED
      BY <1>5, <2>2 DEF SetSecrets, reqVars, tabVars
  <1>6. ASSUME NEW p \in Process, RestartMachine(p)
        PROVE  TypeOK' /\ users' = users /\ cloud' = cloud
    <2>1. AccessTypeOK'
      BY <1>6 DEF RestartMachine, Restart, AccessTypeOK
    <2>2. at' \in [Tab -> Places] /\ seen' \in [Tab -> Seen] /\ proc' \in [Tab -> Process \cup {None}]
      BY <1>0, <1>6 DEF RestartMachine, Nothing, Seen
    <2> QED
      BY <1>6, <2>1, <2>2 DEF RestartMachine, tabVars
  <1> QED
    BY <1>1, <1>2, <1>3, <1>4, <1>5, <1>6

(* No call takes anything away from an account or from the Cloud. *)
LEMMA RequestGrows ==
    ASSUME JoinInv, NEW t \in Tab, Request(t)
    PROVE  Grows /\ CloudUserHonest'
  <1> USE DEF JoinInv, TypeOK
  <1> DEFINE n == typed[t]
  <1>0. /\ at[t] \in Calls => n \in Name /\ cfgOf(t) \in Schema
        /\ at[t] \in WithAccount => n \in Name /\ users[n] # None /\ users[n] \in Account
        /\ at[t] \in WithAccount /\ seen[t].cloudUser => n \in cloud
        /\ at[t] \in WithCloud => n \in cloud
    BY DEF InRequest, cfgOf, AccessTypeOK, Established
  <1>1. CASE findUser(t) \/ countCohort(t)
    BY <1>1 DEF findUser, countCohort, storeVars, Grows, Right, CloudUserHonest
  <1>2. CASE createUser(t)
    <2>1. at[t] = "create" /\ n \in Name /\ cfgOf(t) \in Schema
      BY <1>0, <1>2 DEF createUser, Calls
    <2>2. cloud' = cloud
      BY <1>2 DEF createUser
    <2>3. CASE users[n] = None /\ users' = [users EXCEPT ![n] = NewAccount(cfgOf(t))]
      BY <2>1, <2>2, <2>3, NewAccountType DEF Grows, Right, CloudUserHonest, NewAccount
    <2>4. CASE users' = users
      BY <2>2, <2>4 DEF Grows, Right, CloudUserHonest
    <2> QED
      BY <1>2, <2>3, <2>4 DEF createUser
  <1>3. CASE setPassword(t) \/ ensureIdentity(t) \/ ensureGroup(t)
    <2>1. /\ at[t] \in {"password", "identity", "group"}
          /\ n \in Name /\ users[n] # None /\ users[n] \in Account
      BY <1>0, <1>3 DEF setPassword, ensureIdentity, ensureGroup, WithAccount
    <2>2. cloud' = cloud
      BY <1>3 DEF setPassword, ensureIdentity, ensureGroup
    <2>3. \/ users' = users
          \/ users' = [users EXCEPT ![n].password = TRUE]
          \/ users' = [users EXCEPT ![n] = Righted(@)]
          \/ users' = [users EXCEPT ![n].grouped = TRUE]
      BY <1>3 DEF setPassword, ensureIdentity, ensureGroup
    <2>4. users'[n] \in Account /\ users'[n].cloudUser = users[n].cloudUser
      <3>1. CASE users' = users
        BY <2>1, <3>1
      <3>2. CASE users' = [users EXCEPT ![n].password = TRUE]
        BY <2>1, <3>2 DEF Account
      <3>3. CASE users' = [users EXCEPT ![n] = Righted(@)]
        BY <2>1, <3>3, RightedType
      <3>4. CASE users' = [users EXCEPT ![n].grouped = TRUE]
        BY <2>1, <3>4 DEF Account
      <3> QED
        BY <2>3, <3>1, <3>2, <3>3, <3>4
    <2>6. users'[n] # None
      BY <2>4, NoneIsNobody
    <2>5. Grows
      BY <2>1, <2>2, <2>3, <2>6, RightedType DEF Grows, Right, Account
    <2> QED
      BY <2>1, <2>2, <2>3, <2>4, <2>5, <2>6 DEF CloudUserHonest
  <1>4. CASE ensureCloudUser(t)
    <2>1. n \in Name
      BY <1>0, <1>4 DEF ensureCloudUser, Calls
    <2> QED
      BY <1>4, <2>1 DEF ensureCloudUser, createCloudUser, Grows, Right, CloudUserHonest
  <1>5. CASE updateAttributes(t)
    <2>1. n \in Name /\ users[n] # None /\ users[n] \in Account /\ n \in cloud /\ cfgOf(t) \in Schema
      BY <1>0, <1>5 DEF updateAttributes, WithAccount, WithCloud, WithGroup, WithIdentity, WithPassword, Calls
    <2>2. users' = [users EXCEPT ![n] = Complete(@, cfgOf(t))] /\ cloud' = cloud
      BY <1>5 DEF updateAttributes
    <2>3. users'[n] # None
      <3>1. users'[n] \in Account
        BY <2>1, <2>2, CompleteType
      <3> QED
        BY <3>1, NoneIsNobody
    <2>4. Grows
      BY <2>1, <2>2, <2>3, CompleteType DEF Grows, Right
    <2> QED
      BY <2>1, <2>2, <2>4 DEF CloudUserHonest
  <1> QED
    BY <1>1, <1>2, <1>3, <1>4, <1>5 DEF Request
-----------------------------------------------------------------------------
(* A tab that does not move keeps what it relies on. *)
LEMMA OthersEstablished ==
    ASSUME TypeOK, Grows, NEW t \in Tab, Established(t),
           at'[t] = at[t], seen'[t] = seen[t], typed'[t] = typed[t]
    PROVE  Established(t)'
  BY DEF Established, Grows, Right, WithAccount, WithPassword, WithIdentity, WithGroup, WithCloud

LEMMA ElsewhereEstablished ==
    ASSUME NEW t \in Tab, at'[t] \notin WithAccount
    PROVE  Established(t)'
  BY DEF Established, WithAccount, WithPassword, WithIdentity, WithGroup, WithCloud

LEMMA GotoMoves ==
    ASSUME TypeOK, NEW t \in Tab, NEW place, NEW known, Goto(t, place, known)
    PROVE  /\ at'[t] = place
           /\ place \in Calls => seen'[t] = known /\ proc'[t] = proc[t]
           /\ place \notin Calls => seen'[t] = Nothing
           /\ \A s \in Tab : s # t => at'[s] = at[s] /\ seen'[s] = seen[s] /\ proc'[s] = proc[s]
  BY DEF Goto, TypeOK

(* A call that fails ends the request; otherwise the request goes on. *)
LEMMA AnswerMoves ==
    ASSUME TypeOK, NEW t \in Tab, NEW place, NEW known, Answer(t, place, known)
    PROVE  /\ \/ at'[t] = "error"
              \/ /\ at'[t] = place
                 /\ place \in Calls => seen'[t] = known /\ proc'[t] = proc[t]
           /\ \A s \in Tab : s # t => at'[s] = at[s] /\ seen'[s] = seen[s] /\ proc'[s] = proc[s]
  BY GotoMoves DEF Answer, Failed

(* The tab whose request makes the call. *)
LEMMA RequestEstablishes ==
    ASSUME JoinInv, NEW t \in Tab, Request(t), Grows, TypeOK'
    PROVE  Established(t)'
  <1> USE DEF JoinInv
  <1> DEFINE n == typed[t]
  <1> USE DEF WithAccount, WithPassword, WithIdentity, WithGroup, WithCloud
  <1>0. /\ at[t] \in Calls => n \in Name
        /\ at[t] \in WithAccount => n \in Name /\ users[n] # None /\ users[n] \in Account
        /\ Established(t)
        /\ typed' = typed
        /\ "error" \notin WithAccount
    BY DEF InRequest, Established, TypeOK, Request, findUser, countCohort, createUser, setPassword,
           ensureIdentity, ensureGroup, ensureCloudUser, updateAttributes, tabVars
  <1>1. CASE findUser(t)
    <2>1. at[t] = "find" /\ n \in Name /\ users' = users /\ cloud' = cloud
      BY <1>0, <1>1 DEF findUser, Calls, storeVars
    <2>2. CASE at'[t] \in {"count", "barred"}
      BY <2>2, ElsewhereEstablished
    <2>3. CASE users[n] # None /\ Goto(t, "password", Known(users[n]))
      <3>1. at'[t] = "password" /\ seen'[t] = Known(users[n])
        BY <2>3, GotoMoves DEF Calls
      <3>2. users[n].cloudUser => n \in cloud
        BY <2>1, <2>3 DEF CloudUserHonest
      <3>3. seen'[t].right = (users[n].login = "address" /\ users[n].mail = "address")
        BY <3>1 DEF Known
      <3>4. seen'[t].cloudUser = users[n].cloudUser
        BY <3>1 DEF Known
      <3> QED
        BY <1>0, <2>1, <2>3, <3>1, <3>2, <3>3, <3>4 DEF Established, Right
    <2> QED
      BY <1>1, <2>2, <2>3, GotoMoves DEF findUser
  <1>2. CASE countCohort(t)
    BY <1>2, GotoMoves, ElsewhereEstablished DEF countCohort
  <1>3. CASE createUser(t)
    <2>1. at[t] = "create" /\ n \in Name /\ cfgOf(t) \in Schema
      BY <1>0, <1>3 DEF createUser, Calls, InRequest, cfgOf, TypeOK, AccessTypeOK
    <2>2. CASE at'[t] = "error"
      BY <2>2, ElsewhereEstablished
    <2>3. CASE /\ users' = [users EXCEPT ![n] = NewAccount(cfgOf(t))]
               /\ at'[t] = "password" /\ seen'[t] = Known(NewAccount(cfgOf(t)))
      <3>1. users'[n] = NewAccount(cfgOf(t)) /\ users'[n] # None
        BY <2>1, <2>3, NewAccountType DEF TypeOK
      <3>2. Right(n)' /\ seen'[t].cloudUser = FALSE
        BY <1>0, <2>3, <3>1 DEF Right, NewAccount, Known
      <3> QED
        BY <1>0, <2>1, <2>3, <3>1, <3>2 DEF Established
    <2> QED
      BY <1>3, <2>2, <2>3, GotoMoves, AnswerMoves DEF createUser, Calls
  <1>4. CASE setPassword(t)
    <2>1. at[t] = "password" /\ n \in Name /\ users[n] # None /\ users[n] \in Account
      BY <1>0, <1>4 DEF setPassword
    <2>2. users'[n].password
      BY <1>4, <2>1 DEF setPassword, TypeOK, Account
    <2>3. at'[t] = "error" \/ (at'[t] = "identity" /\ seen'[t] = seen[t])
      BY <1>4, AnswerMoves DEF setPassword, Calls
    <2> QED
      BY <1>0, <2>1, <2>2, <2>3, ElsewhereEstablished DEF Established, Grows
  <1>5. CASE ensureIdentity(t)
    <2>1. at[t] = "identity" /\ n \in Name /\ users[n] # None /\ users[n] \in Account
      BY <1>0, <1>5 DEF ensureIdentity
    <2>2. Right(n)'
      BY <1>0, <1>5, <2>1, RightedType DEF ensureIdentity, Right, TypeOK, Established
    <2>3. at'[t] = "error" \/ (at'[t] = "group" /\ seen'[t] = seen[t])
      BY <1>5, AnswerMoves, GotoMoves DEF ensureIdentity, Calls
    <2> QED
      BY <1>0, <2>1, <2>2, <2>3, ElsewhereEstablished DEF Established, Grows
  <1>6. CASE ensureGroup(t)
    <2>1. at[t] = "group" /\ n \in Name /\ users[n] # None /\ users[n] \in Account
      BY <1>0, <1>6 DEF ensureGroup
    <2>2. users'[n].grouped
      BY <1>6, <2>1 DEF ensureGroup, TypeOK, Account
    <2>3. at'[t] = "error" \/ (at'[t] = "cloud" /\ seen'[t] = seen[t])
      BY <1>6, AnswerMoves DEF ensureGroup, Calls
    <2> QED
      BY <1>0, <2>1, <2>2, <2>3, ElsewhereEstablished DEF Established, Grows
  <1>7. CASE ensureCloudUser(t)
    <2>1. at[t] = "cloud" /\ n \in Name /\ users[n] # None
      BY <1>0, <1>7 DEF ensureCloudUser
    <2>2. at'[t] = "error" \/ (at'[t] = "attributes" /\ seen'[t] = seen[t] /\ n \in cloud')
      <3>1. CASE seen[t].cloudUser /\ Goto(t, "attributes", seen[t]) /\ cloud' = cloud
        BY <1>0, <2>1, <3>1, GotoMoves DEF Established, Calls
      <3>2. CASE createCloudUser(t)
        BY <3>2, GotoMoves, AnswerMoves DEF createCloudUser, Calls
      <3> QED
        BY <1>7, <3>1, <3>2 DEF ensureCloudUser
    <2> QED
      BY <1>0, <2>1, <2>2, ElsewhereEstablished DEF Established, Grows
  <1>8. CASE updateAttributes(t)
    <2>1. at[t] = "attributes" /\ n \in Name /\ users[n] # None
      BY <1>0, <1>8 DEF updateAttributes
    <2>2. at'[t] = "error" \/ (at'[t] = "shown" /\ seen'[t] = Nothing)
      BY <1>8, GotoMoves DEF updateAttributes, Failed, Calls
    <2>3. Nothing.right = FALSE /\ Nothing.cloudUser = FALSE
      BY DEF Nothing
    <2> QED
      BY <1>0, <2>1, <2>2, <2>3, ElsewhereEstablished DEF Established, Grows
  <1> QED
    BY <1>1, <1>2, <1>3, <1>4, <1>5, <1>6, <1>7, <1>8 DEF Request
-----------------------------------------------------------------------------
(* A request keeps its machine and its name until it ends. *)
LEMMA RequestInRequest ==
    ASSUME JoinInv, NEW t \in Tab, Request(t)
    PROVE  InRequest' /\ typed' = typed
           /\ \A s \in Tab : s # t => at'[s] = at[s] /\ seen'[s] = seen[s]
  <1> USE DEF JoinInv
  <1>1. at[t] \in Calls /\ typed' = typed
    BY DEF Request, findUser, countCohort, createUser, setPassword, ensureIdentity, ensureGroup,
           ensureCloudUser, updateAttributes, tabVars, Calls
  <1>2. \/ \E place \in Places : \E known : Goto(t, place, known)
        \/ \E place \in Places : \E known : Answer(t, place, known)
        \/ Failed(t)
    BY DEF Request, findUser, countCohort, createUser, setPassword, ensureIdentity, ensureGroup,
           ensureCloudUser, createCloudUser, updateAttributes, Places, Calls
  <1>3. /\ at'[t] \in Calls => proc'[t] = proc[t]
        /\ \A s \in Tab : s # t => at'[s] = at[s] /\ seen'[s] = seen[s] /\ proc'[s] = proc[s]
    BY <1>2, GotoMoves, AnswerMoves DEF Failed, Calls
  <1> QED
    BY <1>1, <1>3 DEF InRequest

LEMMA OthersInv ==
    ASSUME JoinInv, TypeOK', users' = users, cloud' = cloud,
           \/ \E t \in Tab : CallFails(t)
           \/ \E t \in Tab, p \in Process : OpenLab(t, p) \/ Poll(t, p)
           \/ \E t \in Tab, p \in Process, n \in Name : Submit(t, p, n)
           \/ \E t \in Tab, p \in Process, k \in Generation : Open(t, p, k)
           \/ SetSecrets
           \/ \E p \in Process : RestartMachine(p)
    PROVE  JoinInv'
  <1> USE DEF JoinInv
  <1>1. Grows /\ CloudUserHonest'
    BY DEF Grows, Right, CloudUserHonest
  <1>2. \A t \in Tab : \/ at'[t] \notin WithAccount
                       \/ at'[t] = at[t] /\ seen'[t] = seen[t] /\ typed'[t] = typed[t]
    <2> USE DEF TypeOK, WithAccount
    <2>1. ASSUME NEW s \in Tab, CallFails(s)
          PROVE  \A t \in Tab : \/ at'[t] \notin WithAccount
                                \/ at'[t] = at[t] /\ seen'[t] = seen[t] /\ typed'[t] = typed[t]
      BY <2>1, GotoMoves DEF CallFails, Failed, tabVars
    <2>2. ASSUME NEW s \in Tab, NEW p \in Process, OpenLab(s, p) \/ Poll(s, p)
          PROVE  \A t \in Tab : \/ at'[t] \notin WithAccount
                                \/ at'[t] = at[t] /\ seen'[t] = seen[t] /\ typed'[t] = typed[t]
      BY <2>2 DEF OpenLab, Poll, tabVars
    <2>3. ASSUME NEW s \in Tab, NEW p \in Process, NEW n \in Name, Submit(s, p, n)
          PROVE  \A t \in Tab : \/ at'[t] \notin WithAccount
                                \/ at'[t] = at[t] /\ seen'[t] = seen[t] /\ typed'[t] = typed[t]
      BY <2>3 DEF Submit
    <2>4. ASSUME NEW s \in Tab, NEW p \in Process, NEW k \in Generation, Open(s, p, k)
          PROVE  \A t \in Tab : \/ at'[t] \notin WithAccount
                                \/ at'[t] = at[t] /\ seen'[t] = seen[t] /\ typed'[t] = typed[t]
      BY <2>4 DEF Open
    <2>5. CASE SetSecrets
      BY <2>5 DEF SetSecrets, reqVars, tabVars
    <2>6. ASSUME NEW p \in Process, RestartMachine(p)
          PROVE  \A t \in Tab : \/ at'[t] \notin WithAccount
                                \/ at'[t] = at[t] /\ seen'[t] = seen[t] /\ typed'[t] = typed[t]
      BY <2>6 DEF RestartMachine, tabVars
    <2> QED
      BY <2>1, <2>2, <2>3, <2>4, <2>5, <2>6
  <1>3. \A t \in Tab : Established(t)'
    BY <1>1, <1>2, OthersEstablished, ElsewhereEstablished
  <1>4. InRequest'
    <2> USE DEF TypeOK, InRequest
    <2>1. ASSUME NEW s \in Tab, CallFails(s) PROVE InRequest'
      BY <2>1, GotoMoves DEF CallFails, Failed, tabVars, Calls
    <2>2. ASSUME NEW s \in Tab, NEW p \in Process, OpenLab(s, p) \/ Poll(s, p) PROVE InRequest'
      BY <2>2 DEF OpenLab, Poll, tabVars, Calls
    <2>3. ASSUME NEW s \in Tab, NEW p \in Process, NEW n \in Name, Submit(s, p, n) PROVE InRequest'
      BY <2>3 DEF Submit, Calls
    <2>4. ASSUME NEW s \in Tab, NEW p \in Process, NEW k \in Generation, Open(s, p, k) PROVE InRequest'
      BY <2>4 DEF Open, Calls
    <2>5. CASE SetSecrets
      BY <2>5 DEF SetSecrets, reqVars, tabVars
    <2>6. ASSUME NEW p \in Process, RestartMachine(p) PROVE InRequest'
      BY <2>6 DEF RestartMachine, tabVars, Calls
    <2> QED
      BY <2>1, <2>2, <2>3, <2>4, <2>5, <2>6
  <1> QED
    BY <1>1, <1>3, <1>4

LEMMA InitInv == Init => JoinInv
  <1> SUFFICES ASSUME Init PROVE JoinInv
    OBVIOUS
  <1> USE DEF Init
  <1>1. AccessTypeOK
    <2>1. 0 \in Generation
      BY RotationsNat DEF Generation
    <2>2. secrets \in [code : {0}, secret : {0}, cohort : {0}, valid : {TRUE}, keyed : {TRUE}]
      BY DEF AccessInit
    <2>3. secrets \in Schema
      BY <2>1, <2>2 DEF Schema
    <2> QED
      BY <2>1, <2>3 DEF AccessInit, AccessTypeOK
  <1>2. users \in [Name -> Account \cup {None}]
    <2>1. \A n \in Name : users[n] \in Account \cup {None}
      BY HandMade
    <2> QED
      BY <2>1
  <1>3. BareLink(0) \in Link /\ Nothing \in Seen /\ "away" \in Places
    BY RotationsNat DEF BareLink, Link, Generation, Nothing, Seen, Places
  <1>4. TypeOK
    BY <1>1, <1>2, <1>3, FaultsNat DEF TypeOK
  <1> QED
    BY <1>4 DEF JoinInv, InRequest, CloudUserHonest, Established, Calls,
                WithAccount, WithPassword, WithIdentity, WithGroup, WithCloud

LEMMA StepInv == JoinInv /\ [Next]_vars => JoinInv'
  <1> SUFFICES ASSUME JoinInv, [Next]_vars PROVE JoinInv'
    OBVIOUS
  <1>1. ASSUME NEW t \in Tab, Request(t) PROVE JoinInv'
    <2>1. TypeOK'
      BY <1>1, RequestType DEF JoinInv, Established
    <2>2. Grows /\ CloudUserHonest'
      BY <1>1, RequestGrows
    <2>3. InRequest' /\ typed' = typed
          /\ \A s \in Tab : s # t => at'[s] = at[s] /\ seen'[s] = seen[s]
      BY <1>1, RequestInRequest
    <2>4. Established(t)'
      BY <1>1, <2>1, <2>2, RequestEstablishes
    <2>5. \A s \in Tab : s # t => Established(s)'
      BY <2>2, <2>3, OthersEstablished DEF JoinInv
    <2> QED
      BY <2>1, <2>2, <2>3, <2>4, <2>5 DEF JoinInv
  <1>2. CASE \/ \E t \in Tab : CallFails(t)
             \/ \E t \in Tab, p \in Process : OpenLab(t, p) \/ Poll(t, p)
             \/ \E t \in Tab, p \in Process, n \in Name : Submit(t, p, n)
             \/ \E t \in Tab, p \in Process, k \in Generation : Open(t, p, k)
             \/ SetSecrets
             \/ \E p \in Process : RestartMachine(p)
    BY <1>2, OthersType, OthersInv DEF JoinInv
  <1>3. CASE UNCHANGED vars
    <2> USE <1>3 DEF vars, accessVars, storeVars, reqVars, tabVars
    <2>1. TypeOK'
      BY DEF JoinInv, TypeOK, AccessTypeOK
    <2>2. InRequest' /\ CloudUserHonest'
      BY DEF JoinInv, InRequest, CloudUserHonest
    <2>3. \A t \in Tab : Established(t)'
      BY DEF JoinInv, Established, Right
    <2> QED
      BY <2>1, <2>2, <2>3 DEF JoinInv
  <1> QED
    BY <1>1, <1>2, <1>3 DEF Next

(* Every variable keeps its type, whatever fails and whoever comes in between. *)
THEOREM TypeCorrect == Spec => []TypeOK
  <1>1. JoinInv => TypeOK
    BY DEF JoinInv
  <1> QED
    BY <1>1, InitInv, StepInv, PTL DEF Spec

(* A tab that shows a result shows an account that works: six calls made it so,
   on whatever other requests and earlier joins had left behind. *)
THEOREM ResultWorks == Spec => []ShownWorks
  <1>1. JoinInv => ShownWorks
    BY DEF JoinInv, Established, ShownWorks, Right, WithAccount, WithPassword, WithIdentity,
           WithGroup, WithCloud
  <1> QED
    BY <1>1, InitInv, StepInv, PTL DEF Spec

(* An account that says its Cloud user exists is right. *)
THEOREM CloudUserThere == Spec => []CloudUserHonest
  <1>1. JoinInv => CloudUserHonest
    BY DEF JoinInv
  <1> QED
    BY <1>1, InitInv, StepInv, PTL DEF Spec
-----------------------------------------------------------------------------
(* A link whose code no machine accepts any more lets nobody past a gate. *)
THEOREM RetiredLinksAreDead == Spec => RetiredLinksDie
  <1> DEFINE Gate == \A t \in Tab : at[t] \notin Calls /\ at'[t] \in Past /\ at'[t] # at[t] =>
                        \E p \in Process : link[t].k = running[p].code
  <1>1. TypeOK /\ [Next]_vars => [Gate]_vars
    <2> SUFFICES ASSUME TypeOK, Next PROVE Gate
      OBVIOUS
    <2> USE DEF TypeOK, Past
    <2>1. ASSUME NEW t \in Tab, Request(t) \/ CallFails(t) PROVE Gate
      <3>1. at[t] \in Calls /\ \A s \in Tab : s # t => at'[s] = at[s]
        BY <2>1, GotoMoves, AnswerMoves
           DEF Request, findUser, countCohort, createUser, setPassword, ensureIdentity, ensureGroup,
               ensureCloudUser, createCloudUser, updateAttributes, CallFails, Failed, Calls
      <3> QED
        BY <3>1
    <2>2. ASSUME NEW t \in Tab, NEW p \in Process, OpenLab(t, p) PROVE Gate
      <3>1. LabPage(link[t], running[p]) = "lab" => link[t].k = running[p].code
        BY DEF LabPage, verifyCode
      <3> QED
        BY <2>2, <3>1 DEF OpenLab
    <2>3. ASSUME NEW t \in Tab, NEW p \in Process, Poll(t, p) PROVE Gate
      <3>1. CheckpointsRoute(link[t], running[p]) = "grade" => link[t].k = running[p].code
        BY DEF CheckpointsRoute, verifyCode
      <3> QED
        BY <2>3, <3>1 DEF Poll
    <2>4. ASSUME NEW t \in Tab, NEW p \in Process, NEW n \in Name, Submit(t, p, n) PROVE Gate
      BY <2>4 DEF Submit, verifyCode
    <2>5. ASSUME NEW t \in Tab, NEW p \in Process, NEW k \in Generation, Open(t, p, k) PROVE Gate
      BY <2>5 DEF Open
    <2>6. CASE SetSecrets
      BY <2>6 DEF SetSecrets, reqVars
    <2>7. ASSUME NEW p \in Process, RestartMachine(p) PROVE Gate
      BY <2>7 DEF RestartMachine
    <2> QED
      BY <2>1, <2>2, <2>3, <2>4, <2>5, <2>6, <2>7 DEF Next
  <1> QED
    BY <1>1, TypeCorrect, PTL DEF Spec, RetiredLinksDie

-----------------------------------------------------------------------------
(* The portal's accounts have a cohort, and a request at work on one is served
   by a machine of that cohort: findUser saw to it, and a machine keeps its
   configuration while it serves. *)
Owned(n) == users[n] # None /\ users[n].maker = "portal"
CohortInv ==
    /\ \A n \in Name : Owned(n) => users[n].cohort # None
    /\ \A t \in Tab : at[t] \in WithAccount \cap Calls /\ Owned(typed[t]) =>
         users[typed[t]].cohort = cfgOf(t).cohort

(* What becomes of an account in a step: nobody's maker changes, and no
   portal account's cohort. *)
Keeps == \A n \in Name : users[n] # None =>
            /\ users'[n] # None
            /\ users'[n].maker = users[n].maker
            /\ users[n].maker = "portal" => users'[n].cohort = users[n].cohort

LEMMA RequestKeeps ==
    ASSUME JoinInv, CohortInv, NEW t \in Tab, Request(t)
    PROVE  /\ Keeps
           /\ \A n \in Name : users'[n] = users[n] \/ n = typed[t]
           /\ users[typed[t]] = None /\ users' # users =>
                /\ at[t] = "create" /\ at'[t] \in {"password", "error"}
                /\ users'[typed[t]] = NewAccount(cfgOf(t))
  <1> USE DEF JoinInv, TypeOK
  <1> DEFINE n == typed[t]
  <1>0. /\ n \in Name
        /\ cfgOf(t) \in Schema
        /\ at[t] \in WithAccount => users[n] # None /\ users[n] \in Account
    <2>1. at[t] \in Calls
      BY DEF Request, findUser, countCohort, createUser, setPassword, ensureIdentity, ensureGroup,
             ensureCloudUser, updateAttributes, Calls
    <2> QED
      BY <2>1 DEF InRequest, cfgOf, AccessTypeOK, Established
  <1>1. CASE users' = users
    BY <1>1 DEF Keeps
  <1>2. CASE createUser(t) /\ users' # users
    <2>1. users[n] = None /\ users' = [users EXCEPT ![n] = NewAccount(cfgOf(t))]
          /\ Answer(t, "password", Known(NewAccount(cfgOf(t)))) /\ at[t] = "create"
      BY <1>2 DEF createUser
    <2>2. at'[t] \in {"password", "error"}
      BY <2>1, AnswerMoves
    <2> QED
      BY <1>0, <2>1, <2>2 DEF Keeps
  <1>3. CASE setPassword(t) \/ ensureIdentity(t) \/ ensureGroup(t) \/ updateAttributes(t)
    <2>1. at[t] \in WithAccount /\ at[t] \in Calls
      BY <1>3 DEF setPassword, ensureIdentity, ensureGroup, updateAttributes, WithAccount, Calls
    <2>2. /\ users'[n] \in Account
          /\ users'[n].maker = users[n].maker
          /\ users[n].maker = "portal" => users'[n].cohort = users[n].cohort
      <3>1. CASE setPassword(t)
        BY <1>0, <2>1, <3>1 DEF setPassword, Account
      <3>4. CASE ensureGroup(t)
        BY <1>0, <2>1, <3>4 DEF ensureGroup, Account
      <3>2. CASE ensureIdentity(t)
        BY <1>0, <2>1, <3>2, RightedType DEF ensureIdentity
      <3>3. CASE updateAttributes(t)
        BY <1>0, <2>1, <3>3, CompleteType DEF updateAttributes, CohortInv, Owned
      <3> QED
        BY <1>3, <3>1, <3>2, <3>3, <3>4
    <2>3. users'[n] # None
      BY <2>2, NoneIsNobody
    <2>4. \A m \in Name : m # n => users'[m] = users[m]
      BY <1>3 DEF setPassword, ensureIdentity, ensureGroup, updateAttributes
    <2> QED
      BY <1>0, <2>1, <2>2, <2>3, <2>4 DEF Keeps
  <1>4. CASE findUser(t) \/ countCohort(t) \/ ensureCloudUser(t)
    BY <1>1, <1>4 DEF findUser, countCohort, ensureCloudUser, storeVars
  <1> QED
    BY <1>1, <1>2, <1>3, <1>4 DEF Request
SameRequest(t) ==
    \/ at'[t] \notin WithAccount \cap Calls /\ at'[t] # "create"
    \/ at'[t] = at[t] /\ typed'[t] = typed[t] /\ cfgOf(t)' = cfgOf(t)

LEMMA OthersKeep ==
    ASSUME JoinInv, CohortInv, users' = users,
           \/ \E t \in Tab : CallFails(t)
           \/ \E t \in Tab, p \in Process : OpenLab(t, p) \/ Poll(t, p)
           \/ \E t \in Tab, p \in Process, n \in Name : Submit(t, p, n)
           \/ \E t \in Tab, p \in Process, k \in Generation : Open(t, p, k)
           \/ SetSecrets
           \/ \E p \in Process : RestartMachine(p)
    PROVE  \A t \in Tab : SameRequest(t)
  <1> USE DEF JoinInv, TypeOK, AccessTypeOK, WithAccount, Calls, cfgOf, InRequest, SameRequest
  <1>1. ASSUME NEW s \in Tab, CallFails(s) PROVE \A t \in Tab : SameRequest(t)
    BY <1>1, GotoMoves DEF CallFails, Failed, tabVars, accessVars
  <1>2. ASSUME NEW s \in Tab, NEW p \in Process, OpenLab(s, p) \/ Poll(s, p) PROVE \A t \in Tab : SameRequest(t)
    BY <1>2 DEF OpenLab, Poll, tabVars, accessVars
  <1>3. ASSUME NEW s \in Tab, NEW p \in Process, NEW n \in Name, Submit(s, p, n)
        PROVE  \A t \in Tab : SameRequest(t)
    BY <1>3 DEF Submit, accessVars
  <1>4. ASSUME NEW s \in Tab, NEW p \in Process, NEW k \in Generation, Open(s, p, k)
        PROVE  \A t \in Tab : SameRequest(t)
    BY <1>4 DEF Open, accessVars
  <1>5. CASE SetSecrets
    BY <1>5 DEF SetSecrets, FlySecretsSet, reqVars, tabVars
  <1>6. ASSUME NEW p \in Process, RestartMachine(p) PROVE \A t \in Tab : SameRequest(t)
    BY <1>6 DEF RestartMachine, Restart, tabVars
  <1> HIDE DEF JoinInv, TypeOK, AccessTypeOK, WithAccount, Calls, cfgOf, InRequest, SameRequest
  <1> QED
    BY <1>1, <1>2, <1>3, <1>4, <1>5, <1>6

LEMMA RequestCohort ==
    ASSUME JoinInv, CohortInv, NEW t \in Tab, Request(t), Keeps
    PROVE  CohortInv'
  <1> USE DEF JoinInv, TypeOK
  <1> DEFINE n == typed[t]
  <1>0. n \in Name /\ cfgOf(t) \in Schema /\ at[t] \in Calls
    <2>1. at[t] \in Calls
      BY DEF Request, findUser, countCohort, createUser, setPassword, ensureIdentity, ensureGroup,
             ensureCloudUser, updateAttributes, Calls
    <2> QED
      BY <2>1 DEF InRequest, cfgOf, AccessTypeOK
  <1>1. /\ typed' = typed /\ running' = running
        /\ \A s \in Tab : s # t => at'[s] = at[s] /\ proc'[s] = proc[s]
        /\ at'[t] \in Calls => proc'[t] = proc[t]
    <2>1. typed' = typed /\ running' = running
      BY DEF Request, findUser, countCohort, createUser, setPassword, ensureIdentity, ensureGroup,
             ensureCloudUser, updateAttributes, tabVars, accessVars
    <2>2. \/ \E place, known : Goto(t, place, known)
          \/ \E place, known : Answer(t, place, known)
          \/ Failed(t)
      BY DEF Request, findUser, countCohort, createUser, setPassword, ensureIdentity, ensureGroup,
             ensureCloudUser, createCloudUser, updateAttributes
    <2> QED
      BY <2>1, <2>2, GotoMoves, AnswerMoves DEF Failed, Calls
  <1>2. /\ \A m \in Name : users'[m] = users[m] \/ m = n
        /\ users[n] = None /\ users' # users =>
             /\ at[t] = "create" /\ at'[t] \in {"password", "error"}
             /\ users'[n] = NewAccount(cfgOf(t))
    BY RequestKeeps
  <1>3. \A m \in Name : Owned(m)' => users'[m].cohort # None
    <2>1. cfgOf(t).cohort # None
      BY <1>0, NoneIsNoNumber DEF Schema, Generation
    <2>2. ASSUME users[n] = None, users' # users PROVE users'[n].cohort # None
      BY <1>2, <2>1, <2>2 DEF NewAccount
    <2> QED
      BY <1>2, <2>2 DEF CohortInv, Keeps, Owned
  <1>4. ASSUME NEW s \in Tab, at'[s] \in WithAccount \cap Calls, Owned(typed[s])'
        PROVE  users'[typed'[s]].cohort = cfgOf(s)'.cohort
    <2>1. cfgOf(s)' = cfgOf(s) /\ typed'[s] = typed[s]
      BY <1>1, <1>4 DEF cfgOf
    <2>2. CASE s # t
      <3>1. at[s] \in WithAccount \cap Calls /\ users[typed[s]] # None /\ typed[s] \in Name
        BY <1>1, <1>4, <2>2 DEF Established
      <3> QED
        BY <1>4, <2>1, <3>1 DEF CohortInv, Keeps, Owned
    <2>3. CASE s = t /\ at[t] \in WithAccount
      BY <1>0, <1>4, <2>1, <2>3 DEF CohortInv, Keeps, Owned, Established
    <2>4. CASE s = t /\ at[t] \notin WithAccount
      <3>1. CASE findUser(t)
        <4>1. users' = users
          BY <3>1 DEF findUser, storeVars
        <4>2. users[n] # None /\ users[n].cohort \in {None, cfgOf(t).cohort}
          BY <1>4, <2>4, <3>1, GotoMoves DEF findUser, WithAccount, Calls
        <4> QED
          BY <1>0, <1>4, <2>1, <2>4, <4>1, <4>2 DEF CohortInv, Owned
      <3>2. CASE countCohort(t)
        BY <1>4, <2>4, <3>2, GotoMoves DEF countCohort, WithAccount
      <3>3. CASE createUser(t)
        <4>1. at'[t] = "password" /\ users' = [users EXCEPT ![n] = NewAccount(cfgOf(t))]
          BY <1>4, <2>4, <3>3, GotoMoves, AnswerMoves DEF createUser, WithAccount, Calls
        <4> QED
          BY <1>0, <2>1, <2>4, <4>1 DEF NewAccount
      <3> QED
        BY <2>4, <3>1, <3>2, <3>3 DEF Request, setPassword, ensureIdentity, ensureGroup,
           ensureCloudUser, updateAttributes, WithAccount
    <2> QED
      BY <2>2, <2>3, <2>4
  <1> QED
    BY <1>3, <1>4 DEF CohortInv

LEMMA CohortStep ==
    ASSUME JoinInv, CohortInv, [Next]_vars
    PROVE  CohortInv' /\ Keeps
  <1>1. ASSUME NEW t \in Tab, Request(t) PROVE CohortInv' /\ Keeps
    BY <1>1, RequestKeeps, RequestCohort
  <1>2. CASE \/ \E t \in Tab : CallFails(t)
             \/ \E t \in Tab, p \in Process : OpenLab(t, p) \/ Poll(t, p)
             \/ \E t \in Tab, p \in Process, n \in Name : Submit(t, p, n)
             \/ \E t \in Tab, p \in Process, k \in Generation : Open(t, p, k)
             \/ SetSecrets
             \/ \E p \in Process : RestartMachine(p)
    <2>1. users' = users
      BY <1>2, OthersType DEF JoinInv
    <2>2. \A t \in Tab : SameRequest(t)
      BY <1>2, <2>1, OthersKeep
    <2> QED
      BY <2>1, <2>2 DEF CohortInv, Keeps, Owned, SameRequest
  <1>3. CASE UNCHANGED vars
    BY <1>3 DEF vars, accessVars, storeVars, reqVars, tabVars, CohortInv, Keeps, Owned, cfgOf
  <1> QED
    BY <1>1, <1>2, <1>3 DEF Next

LEMMA CohortInit == Init => CohortInv
  BY HandMade DEF Init, CohortInv, Owned, Calls

(* Whatever the configuration becomes and whoever joins under the name, a
   portal account stays in the cohort it was made for. *)
THEOREM CohortsAreKept == Spec => CohortKept
  <1>1. Spec => [](JoinInv /\ CohortInv)
    BY InitInv, StepInv, CohortInit, CohortStep, PTL DEF Spec
  <1>2. JoinInv /\ CohortInv /\ [Next]_vars =>
          [\A n \in Name : users[n] # None /\ users[n].maker = "portal" =>
              users'[n] # None /\ users'[n].cohort = users[n].cohort]_vars
    BY CohortStep DEF Keeps
  <1> QED
    BY <1>1, <1>2, PTL DEF Spec, CohortKept
-----------------------------------------------------------------------------
(* The cap.  The sum of the accounts made and of the requests about to make one
   only grows when a request passes the count, and then it is below the cap. *)

Positive == \A t \in Tab : at[t] = "create" => Size > 0
CapInv == Positive /\ Overshoot

LEMMA MadeFinite ==
    \A c \in Generation : /\ IsFiniteSet(Made(c)) /\ Cardinality(Made(c)) \in Nat
                         /\ IsFiniteSet(Creating(c)) /\ Cardinality(Creating(c)) \in Nat
                         /\ Cardinality(Creating(c)) <= Cardinality(Tab)
                         /\ Cardinality(Tab) \in Nat
  <1> SUFFICES ASSUME NEW c \in Generation
               PROVE  /\ IsFiniteSet(Made(c)) /\ Cardinality(Made(c)) \in Nat
                      /\ IsFiniteSet(Creating(c)) /\ Cardinality(Creating(c)) \in Nat
                      /\ Cardinality(Creating(c)) <= Cardinality(Tab)
                      /\ Cardinality(Tab) \in Nat
    OBVIOUS
  <1>1. Made(c) \subseteq Name /\ Creating(c) \subseteq Tab
    BY DEF Made, Members, Creating
  <1> QED
    BY <1>1, FiniteWorkshop, FS_Subset, FS_CardinalityType

(* A step that makes nothing and lets nobody pass the count. *)
LEMMA NothingMade ==
    ASSUME CapInv, \A c \in Generation : Made(c)' = Made(c) /\ Creating(c)' \subseteq Creating(c),
           \A t \in Tab : at'[t] = "create" => at[t] = "create"
    PROVE  CapInv'
  <1>1. Positive'
    BY DEF CapInv, Positive
  <1>2. ASSUME NEW c \in Generation, Cardinality(Made(c))' > 0
        PROVE  Cardinality(Made(c))' + Cardinality(Creating(c))' <= Size + Cardinality(Tab) - 1
    <2>1. Cardinality(Creating(c)') <= Cardinality(Creating(c)) /\ Cardinality(Creating(c)') \in Nat
      BY MadeFinite, FS_Subset, FS_CardinalityType
    <2>2. Cardinality(Made(c)) + Cardinality(Creating(c)) <= Size + Cardinality(Tab) - 1
      BY <1>2 DEF CapInv, Overshoot
    <2> QED
      BY <2>1, <2>2, MadeFinite, SizeNat
  <1> QED
    BY <1>1, <1>2 DEF CapInv, Overshoot
(* Without a new account, nothing is made. *)
LEMMA SameMade ==
    ASSUME Keeps, \A n \in Name : users[n] = None => users'[n] = None, NEW c \in Generation
    PROVE  Made(c)' = Made(c)
  BY DEF Keeps, Made, Members

LEMMA RequestCap ==
    ASSUME JoinInv, CohortInv, CapInv, NEW t \in Tab, Request(t), Keeps
    PROVE  CapInv'
  <1> DEFINE n == typed[t]
  <1>0. n \in Name /\ cfgOf(t) \in Schema /\ cfgOf(t).cohort \in Generation
    <2>1. at[t] \in Calls
      BY DEF Request, findUser, countCohort, createUser, setPassword, ensureIdentity, ensureGroup,
             ensureCloudUser, updateAttributes, Calls
    <2> QED
      BY <2>1 DEF JoinInv, InRequest, cfgOf, TypeOK, AccessTypeOK, Schema
  <1>1. /\ typed' = typed /\ running' = running
        /\ \A s \in Tab : s # t => at'[s] = at[s] /\ proc'[s] = proc[s]
        /\ at'[t] \in Calls => proc'[t] = proc[t]
    <2>1. typed' = typed /\ running' = running
      BY DEF Request, findUser, countCohort, createUser, setPassword, ensureIdentity, ensureGroup,
             ensureCloudUser, updateAttributes, tabVars, accessVars
    <2>2. \/ \E place, known : Goto(t, place, known)
          \/ \E place, known : Answer(t, place, known)
          \/ Failed(t)
      BY DEF Request, findUser, countCohort, createUser, setPassword, ensureIdentity, ensureGroup,
             ensureCloudUser, createCloudUser, updateAttributes
    <2> QED
      BY <2>1, <2>2, GotoMoves, AnswerMoves DEF JoinInv, Failed, Calls
  <1>2. at'[t] = "create" => /\ countCohort(t) /\ users' = users
                             /\ ~(Cardinality(Members(cfgOf(t).cohort)) >= Size)
    BY GotoMoves, AnswerMoves
       DEF JoinInv, Request, findUser, countCohort, createUser, setPassword, ensureIdentity, ensureGroup,
           ensureCloudUser, createCloudUser, updateAttributes, Failed, storeVars, Calls
  <1>3. \A s \in Tab : s # t => cfgOf(s)' = cfgOf(s)
    BY <1>1 DEF cfgOf
  <1>4. CASE at'[t] = "create"
    <2> DEFINE c == cfgOf(t).cohort
    <2>1. users' = users /\ cfgOf(t)' = cfgOf(t)
      BY <1>1, <1>2, <1>4 DEF cfgOf, Calls
    <2>2. \A d \in Generation : Made(d)' = Made(d) /\ Members(d)' = Members(d)
      BY <2>1 DEF Made, Members
    <2>3. Cardinality(Made(c)) \in Nat /\ Cardinality(Made(c)) < Size
      <3>1. Made(c) \subseteq Members(c) /\ Members(c) \subseteq Name
        BY DEF Made, Members
      <3>2. IsFiniteSet(Members(c))
        BY <3>1, FiniteWorkshop, FS_Subset
      <3>3. /\ Cardinality(Members(c)) \in Nat /\ Cardinality(Made(c)) \in Nat
            /\ Cardinality(Made(c)) <= Cardinality(Members(c))
        BY <3>1, <3>2, FS_Subset, FS_CardinalityType
      <3> QED
        BY <1>2, <1>4, <3>3, SizeNat
    <2>4. Size > 0 /\ Positive'
      BY <2>3, SizeNat DEF Positive
    <2>5. ASSUME NEW d \in Generation, Cardinality(Made(d))' > 0
          PROVE  Cardinality(Made(d))' + Cardinality(Creating(d))' <= Size + Cardinality(Tab) - 1
      <3>1. CASE d = c
        <4>1. Creating(d)' \subseteq Tab
          BY DEF Creating
        <4>2. Cardinality(Creating(d)') <= Cardinality(Tab) /\ Cardinality(Creating(d)') \in Nat
          BY <4>1, FiniteWorkshop, FS_Subset, FS_CardinalityType
        <4> QED
          BY <1>0, <2>2, <2>3, <3>1, <4>2, MadeFinite, SizeNat
      <3>2. CASE d # c
        <4>1. Creating(d)' = Creating(d)
          BY <1>1, <1>2, <1>3, <1>4, <2>1, <3>2 DEF Creating, countCohort
        <4> QED
          BY <2>2, <2>5, <4>1 DEF CapInv, Overshoot
      <3> QED
        BY <3>1, <3>2
    <2> QED
      BY <2>4, <2>5 DEF CapInv, Overshoot
  <1>5. CASE at'[t] # "create" /\ (users[n] # None \/ users' = users)
    <2>1. \A c \in Generation : Made(c)' = Made(c)
      <3>1. \A m \in Name : users[m] = None => users'[m] = None
        BY <1>5, RequestKeeps
      <3> QED
        BY <3>1, SameMade
    <2>2. \A c \in Generation : Creating(c)' \subseteq Creating(c)
      BY <1>1, <1>3, <1>5 DEF Creating
    <2>3. \A s \in Tab : at'[s] = "create" => at[s] = "create"
      BY <1>1, <1>5
    <2> QED
      BY <2>1, <2>2, <2>3, NothingMade
  <1>6. CASE users[n] = None /\ users' # users
    <2>0. PICK c \in Generation, k \in Name : c = cfgOf(t).cohort /\ k = n
      BY <1>0
    <2>1. /\ at[t] = "create" /\ at'[t] # "create"
          /\ users[k] = None
          /\ users'[k] # None /\ users'[k].cohort = c /\ users'[k].maker = "portal"
          /\ \A m \in Name : m # k => users'[m] = users[m]
      <3>1. /\ at[t] = "create" /\ at'[t] # "create"
            /\ users'[n] = NewAccount(cfgOf(t))
            /\ \A m \in Name : m # n => users'[m] = users[m]
        BY <1>6, RequestKeeps
      <3> QED
        BY <1>0, <1>6, <2>0, <3>1, NewAccountType, NoneIsNobody DEF NewAccount
    <2> HIDE DEF n
    <2>2. Made(c)' = Made(c) \cup {k} /\ k \notin Made(c)
      BY <2>1 DEF Made, Members
    <2>3. \A d \in Generation : d # c => Made(d)' = Made(d)
      BY <2>1 DEF Made, Members
    <2>4. \A d \in Generation : d # c => Creating(d)' = Creating(d)
      BY <1>1, <1>3, <2>0, <2>1 DEF Creating
    <2>5. Creating(c)' = Creating(c) \ {t} /\ t \in Creating(c)
      BY <1>1, <1>3, <2>0, <2>1 DEF Creating
    <2>6. Cardinality(Made(c)') = Cardinality(Made(c)) + 1
      BY <2>2, MadeFinite, FS_AddElement
    <2>7. Cardinality(Creating(c)') = Cardinality(Creating(c)) - 1
      BY <2>5, MadeFinite, FS_RemoveElement
    <2>8. Size > 0 /\ Positive'
      BY <1>1, <2>1 DEF CapInv, Positive
    <2>9. ASSUME NEW d \in Generation, Cardinality(Made(d))' > 0
          PROVE  Cardinality(Made(d))' + Cardinality(Creating(d))' <= Size + Cardinality(Tab) - 1
      <3>1. CASE d = c /\ Cardinality(Made(c)) > 0
        BY <2>6, <2>7, <3>1, MadeFinite, SizeNat DEF CapInv, Overshoot
      <3>2. CASE d = c /\ ~(Cardinality(Made(c)) > 0)
        BY <2>6, <2>7, <2>8, <3>2, MadeFinite, SizeNat
      <3>3. CASE d # c
        BY <2>3, <2>4, <2>9, <3>3 DEF CapInv, Overshoot
      <3> QED
        BY <3>1, <3>2, <3>3
    <2> QED
      BY <2>8, <2>9 DEF CapInv, Overshoot
  <1> QED
    BY <1>4, <1>5, <1>6

LEMMA CapStep ==
    ASSUME JoinInv, CohortInv, CapInv, [Next]_vars
    PROVE  CapInv'
  <1>0. Keeps
    BY CohortStep
  <1>1. ASSUME NEW t \in Tab, Request(t) PROVE CapInv'
    BY <1>0, <1>1, RequestCap
  <1>2. CASE \/ \E t \in Tab : CallFails(t)
             \/ \E t \in Tab, p \in Process : OpenLab(t, p) \/ Poll(t, p)
             \/ \E t \in Tab, p \in Process, n \in Name : Submit(t, p, n)
             \/ \E t \in Tab, p \in Process, k \in Generation : Open(t, p, k)
             \/ SetSecrets
             \/ \E p \in Process : RestartMachine(p)
    <2>1. users' = users
      BY <1>2, OthersType DEF JoinInv
    <2>2. \A t \in Tab : SameRequest(t)
      BY <1>2, <2>1, OthersKeep
    <2>3. \A c \in Generation : Made(c)' = Made(c) /\ Creating(c)' \subseteq Creating(c)
      BY <2>1, <2>2 DEF Made, Members, Creating, SameRequest
    <2>4. \A t \in Tab : at'[t] = "create" => at[t] = "create"
      BY <2>2 DEF SameRequest
    <2> QED
      BY <2>3, <2>4, NothingMade
  <1>3. CASE UNCHANGED vars
    <2>1. \A c \in Generation : Made(c)' = Made(c) /\ Creating(c)' \subseteq Creating(c)
      BY <1>3 DEF vars, accessVars, storeVars, reqVars, Made, Members, Creating, cfgOf
    <2> QED
      BY <1>3, <2>1, NothingMade DEF vars, reqVars
  <1> QED
    BY <1>1, <1>2, <1>3 DEF Next

LEMMA CapInit == Init => CapInv
  <1> SUFFICES ASSUME Init PROVE CapInv
    OBVIOUS
  <1>1. Positive
    BY DEF Init, Positive
  <1>2. \A c \in Generation : Made(c) = {}
    BY HandMade DEF Init, Made, Members
  <1> QED
    BY <1>1, <1>2, FS_EmptySet DEF CapInv, Overshoot

(* However many tabs race past the count, a cohort is over the cap by fewer
   accounts than there are tabs. *)
THEOREM OvershootBounded == Spec => []Overshoot
  <1>1. CapInv => Overshoot
    BY DEF CapInv
  <1> QED
    BY <1>1, InitInv, StepInv, CohortInit, CohortStep, CapInit, CapStep, PTL DEF Spec
=============================================================================
