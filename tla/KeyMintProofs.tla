--------------------------- MODULE KeyMintProofs ----------------------------
(***************************************************************************)
(* What holds of KeyMint for every number of attempts, mints and faults.   *)
(***************************************************************************)
EXTENDS KeyMint, TLAPS

-----------------------------------------------------------------------------
(* Types.                                                                  *)

\* A retry keeps the types, whichever attempts are over.
LEMMA RetryType ==
  ASSUME TypeOK, outcome = "running", NEW E \in SUBSET Key, Retry(E)
  PROVE  /\ outcome' \in {"running", "failed"}
         /\ mint' = mint /\ try' \in 1..MaxAttempts
         /\ at' \in [Key -> {"none", "create", "write", "revoke", "gone"}]
  BY AttemptsAssumption DEF TypeOK, Retry

\* And so does an attempt's error.
LEMMA ErrorType ==
  ASSUME TypeOK, NEW k \in Key, ReturnError(k)
  PROVE  /\ outcome' \in {"none", "running", "ok", "failed"}
         /\ mint' = mint /\ try' \in 1..MaxAttempts
         /\ outcome' # "none" => mint' # 0
         /\ at' \in [Key -> {"none", "create", "write", "revoke", "gone"}]
<1>1. CASE outcome = "running" /\ k = current
  BY <1>1, RetryType DEF ReturnError, TypeOK
<1>2. CASE ~(outcome = "running" /\ k = current)
  BY <1>2 DEF ReturnError, TypeOK, server
<1> QED BY <1>1, <1>2

\* Every step keeps the types.
LEMMA TypeNext == TypeOK /\ [Next]_vars => TypeOK'
<1> SUFFICES ASSUME TypeOK, [Next]_vars PROVE TypeOK'
  OBVIOUS
<1> USE AttemptsAssumption, MintBoundAssumption
<1>1. CASE Schedule
  BY <1>1 DEF Schedule, TypeOK, bounds, Key
<1>2. CASE Abandon
  BY <1>2, RetryType DEF Abandon, TypeOK, bounds
<1>3. CASE AbandonSlow
  BY <1>3, RetryType DEF AbandonSlow, TypeOK
<1>4. ASSUME NEW k \in Key, CreateKey(k) PROVE TypeOK'
  BY <1>4 DEF CreateKey, TypeOK, server, bounds
<1>5. ASSUME NEW k \in Key, WriteKey(k) PROVE TypeOK'
  BY <1>5 DEF WriteKey, Store, TypeOK, server, bounds
<1>6. ASSUME NEW k \in Key, RevokeKey(k) PROVE TypeOK'
  BY <1>6, ErrorType DEF RevokeKey, TypeOK, bounds
<1>7. ASSUME NEW k \in Key, CreateFails(k) PROVE TypeOK'
  <2>1. CASE ReturnError(k)
    BY <1>7, <2>1, ErrorType DEF CreateFails, Fault, TypeOK
  <2>2. CASE ~ReturnError(k)
    BY <1>7, <2>2 DEF CreateFails, Fault, TypeOK
  <2> QED BY <2>1, <2>2
<1>8. ASSUME NEW k \in Key, CreateReplyLost(k) PROVE TypeOK'
  BY <1>8, ErrorType DEF CreateReplyLost, Lost, TypeOK
<1>9. ASSUME NEW k \in Key, WriteFails(k) PROVE TypeOK'
  BY <1>9 DEF WriteFails, Fault, TypeOK, server
<1>10. ASSUME NEW k \in Key, WriteReplyLost(k) PROVE TypeOK'
  BY <1>10 DEF WriteReplyLost, Store, Lost, TypeOK, server
<1>11. ASSUME NEW k \in Key, RevokeFails(k) PROVE TypeOK'
  BY <1>11, ErrorType DEF RevokeFails, Fault, TypeOK
<1>12. ASSUME NEW k \in Key, Crash(k) PROVE TypeOK'
  BY <1>12 DEF Crash, Store, Fault, TypeOK, server
<1>13. CASE UNCHANGED vars
  BY <1>13 DEF TypeOK, vars, server, bounds
<1> QED BY <1>1, <1>2, <1>3, <1>4, <1>5, <1>6, <1>7, <1>8, <1>9, <1>10, <1>11, <1>12, <1>13
        DEF Next, AttemptStep

\* In every reachable state the variables have their types; in particular no activity
\* makes more than MaxAttempts attempts.
THEOREM TypeCorrect == Spec => []TypeOK
<1>1. Init => TypeOK
  BY AttemptsAssumption, MintBoundAssumption DEF Init, TypeOK
<1> QED BY <1>1, TypeNext, PTL DEF Spec

-----------------------------------------------------------------------------
(* Attempts come one after the other.                                      *)

\* The attempts after the current one have not begun.
Fresh ==
  \A i \in 1..MaxMints, j \in 1..MaxAttempts :
    i > mint \/ (i = mint /\ j > try) => at[<<i, j>>] = "none"

\* A retry begins the next attempt, ends those in E, and leaves the others alone.
LEMMA RetryMoves ==
  ASSUME TypeOK, outcome = "running", NEW E \in SUBSET Key, Retry(E)
  PROVE  /\ mint' = mint
         /\ \A k \in Key \ E : \/ at'[k] = at[k]
                               \/ try < MaxAttempts /\ try' = try + 1 /\ k = <<mint, try + 1>>
                                  /\ at'[k] = "create"
         /\ \A k \in E : at'[k] = "gone"
         /\ try' = try \/ try' = try + 1
  BY AttemptsAssumption DEF TypeOK, Retry

\* So does an error, of the one attempt that returns it.
LEMMA ErrorMoves ==
  ASSUME TypeOK, NEW k \in Key, ReturnError(k)
  PROVE  /\ mint' = mint
         /\ \A j \in Key \ {k} : \/ at'[j] = at[j]
                                 \/ try < MaxAttempts /\ try' = try + 1 /\ j = <<mint, try + 1>>
                                    /\ at'[j] = "create"
         /\ at'[k] = "gone"
         /\ try' = try \/ try' = try + 1
<1>1. CASE outcome = "running" /\ k = current
  BY <1>1, RetryMoves DEF ReturnError
<1>2. CASE ~(outcome = "running" /\ k = current)
  BY <1>2 DEF ReturnError, TypeOK, server
<1> QED BY <1>1, <1>2

\* No step begins an attempt before its turn.
LEMMA FreshNext == TypeOK /\ Fresh /\ [Next]_vars => Fresh'
<1> SUFFICES ASSUME TypeOK, Fresh, [Next]_vars,
                    NEW i \in 1..MaxMints, NEW j \in 1..MaxAttempts,
                    i > mint' \/ (i = mint' /\ j > try')
             PROVE  at'[<<i, j>>] = "none"
  BY DEF Fresh
<1> <<i, j>> \in Key
  BY DEF Key
<1> USE AttemptsAssumption
<1>1. CASE Schedule
  <2>1. i > mint /\ <<i, j>> # <<mint + 1, 1>>
    BY <1>1 DEF Schedule, TypeOK
  <2> QED BY <1>1, <2>1 DEF Schedule, Fresh, TypeOK
<1>2. CASE Abandon
  BY <1>2, RetryMoves DEF Abandon, Fresh, TypeOK
<1>3. CASE AbandonSlow
  BY <1>3, RetryMoves DEF AbandonSlow, Fresh, TypeOK
<1>4. ASSUME NEW k \in Key, at[k] # "none", mint' = mint, try' = try,
             \A l \in Key \ {k} : at'[l] = at[l]
      PROVE  at'[<<i, j>>] = "none"
  BY <1>4 DEF Fresh, TypeOK
<1>5. ASSUME NEW k \in Key, at[k] # "none", ReturnError(k)
      PROVE  at'[<<i, j>>] = "none"
  BY <1>5, ErrorMoves DEF Fresh, TypeOK
<1>6. ASSUME NEW k \in Key, AttemptStep(k) PROVE at'[<<i, j>>] = "none"
  BY <1>4, <1>5, <1>6 DEF AttemptStep, CreateKey, WriteKey, RevokeKey, TypeOK, server
<1>7. ASSUME NEW k \in Key, CreateFails(k) PROVE at'[<<i, j>>] = "none"
  BY <1>4, <1>5, <1>7 DEF CreateFails, TypeOK
<1>8. ASSUME NEW k \in Key, CreateReplyLost(k) \/ RevokeFails(k)
      PROVE  at'[<<i, j>>] = "none"
  BY <1>5, <1>8 DEF CreateReplyLost, RevokeFails
<1>9. ASSUME NEW k \in Key, WriteFails(k) \/ WriteReplyLost(k) \/ Crash(k)
      PROVE  at'[<<i, j>>] = "none"
  BY <1>4, <1>9 DEF WriteFails, WriteReplyLost, Crash, Alive, TypeOK, server
<1>10. CASE UNCHANGED vars
  BY <1>10 DEF Fresh, vars, server
<1> QED BY <1>1, <1>2, <1>3, <1>6, <1>7, <1>8, <1>9, <1>10 DEF Next

LEMMA FreshInit == Init => Fresh
  BY DEF Init, Fresh, Key

\* When an attempt returns an error, others stand still or have just begun.
LEMMA ErrorKeeps ==
  ASSUME TypeOK, Fresh, NEW k \in Key, ReturnError(k), NEW j \in Key, j # k
  PROVE  at'[j] = at[j] \/ at[j] = "none"
<1>1. CASE try < MaxAttempts /\ j = <<mint, try + 1>>
  BY <1>1 DEF Fresh, Key, TypeOK
<1> QED BY <1>1, ErrorMoves

\* So they do when the server gives the current attempt up.
LEMMA RetryKeeps ==
  ASSUME TypeOK, Fresh, outcome = "running", Retry({}), NEW j \in Key
  PROVE  at'[j] = at[j] \/ at[j] = "none"
<1>1. CASE try < MaxAttempts /\ j = <<mint, try + 1>>
  BY <1>1 DEF Fresh, Key, TypeOK
<1> QED BY <1>1, RetryMoves

\* And when the next mint is scheduled.
LEMMA ScheduleKeeps ==
  ASSUME TypeOK, Fresh, Schedule, NEW j \in Key
  PROVE  at'[j] = at[j] \/ at[j] = "none"
<1>1. CASE j = <<mint + 1, 1>>
  BY <1>1 DEF Fresh, Key, TypeOK
<1> QED BY <1>1 DEF Schedule, TypeOK

-----------------------------------------------------------------------------
(* Did that leak?                                                          *)

Held(j) == at[j] \in {"write", "revoke"}

\* Every step keeps the account.
LEMMA AccountedNext == TypeOK /\ Fresh /\ Accounted /\ [Next]_vars => Accounted'
<1> SUFFICES ASSUME TypeOK, Fresh, Accounted, [Next]_vars,
                    NEW j \in live'
             PROVE  j \in stored' \/ j \in orphans' \/ (j \in Key /\ Held(j)')
  BY DEF Accounted, Held
<1> DEFINE G == j \in stored' \/ j \in orphans' \/ (j \in Key /\ Held(j)')
<1>0. j \in live => j \in Key /\ (j \in stored \/ j \in orphans \/ Held(j))
  BY DEF Accounted, Held, TypeOK
<1>1. CASE Schedule
  BY <1>0, <1>1, ScheduleKeeps DEF Schedule, Held
<1>2. CASE Abandon
  BY <1>0, <1>2, RetryKeeps DEF Abandon, Held
<1>3. CASE AbandonSlow
  BY <1>0, <1>3, RetryKeeps DEF AbandonSlow, Held
<1>4. ASSUME NEW k \in Key, CreateKey(k) PROVE G
  BY <1>0, <1>4 DEF CreateKey, Held, TypeOK
<1>5. ASSUME NEW k \in Key, WriteKey(k) PROVE G
  BY <1>0, <1>5 DEF WriteKey, Store, Held, TypeOK
<1>6. ASSUME NEW k \in Key, RevokeKey(k) PROVE G
  BY <1>0, <1>6, ErrorKeeps DEF RevokeKey, Held
<1>7. ASSUME NEW k \in Key, CreateFails(k) PROVE G
  <2>1. CASE ReturnError(k)
    BY <1>0, <1>7, <2>1, ErrorKeeps DEF CreateFails, Held
  <2>2. CASE ~ReturnError(k)
    BY <1>0, <1>7, <2>2 DEF CreateFails, Held, TypeOK
  <2> QED BY <2>1, <2>2
<1>8. ASSUME NEW k \in Key, CreateReplyLost(k) PROVE G
  BY <1>0, <1>8, ErrorKeeps DEF CreateReplyLost, Held
<1>9. ASSUME NEW k \in Key, WriteFails(k) PROVE G
  BY <1>0, <1>9 DEF WriteFails, Held, TypeOK
<1>10. ASSUME NEW k \in Key, WriteReplyLost(k) PROVE G
  BY <1>0, <1>10 DEF WriteReplyLost, Store, Held, TypeOK
<1>11. ASSUME NEW k \in Key, RevokeFails(k) PROVE G
  BY <1>0, <1>11, ErrorKeeps DEF RevokeFails, Held
<1>12. ASSUME NEW k \in Key, Crash(k) PROVE G
  BY <1>0, <1>12 DEF Crash, Store, Held, TypeOK
<1>13. CASE UNCHANGED vars
  BY <1>0, <1>13 DEF vars, Held
<1> QED BY <1>1, <1>2, <1>3, <1>4, <1>5, <1>6, <1>7, <1>8, <1>9, <1>10, <1>11, <1>12, <1>13
        DEF Next, AttemptStep

\* MintNamespaceKey's question, "did that leak?", answered for every number of attempts,
\* overlaps and faults: a live key has been in Vault, is in hand, or is the orphan of a
\* death, a lost reply or a failed revocation.
THEOREM NothingElseLeaks == Spec => []Accounted
<1>1. Init => TypeOK /\ Fresh /\ Accounted
  BY FreshInit, AttemptsAssumption, MintBoundAssumption DEF Init, TypeOK, Accounted
<1>2. TypeOK /\ Fresh /\ Accounted /\ [Next]_vars => (TypeOK /\ Fresh /\ Accounted)'
  BY TypeNext, FreshNext, AccountedNext
<1> QED BY <1>1, <1>2, PTL DEF Spec

-----------------------------------------------------------------------------
(* What is in Vault authenticates.                                         *)

\* A key in the hands of an attempt is live: only that attempt revokes it.
HeldLive == \A k \in Key : Held(k) => k \in live

LEMMA HeldLiveNext == TypeOK /\ Fresh /\ HeldLive /\ [Next]_vars => HeldLive'
<1> SUFFICES ASSUME TypeOK, Fresh, HeldLive, [Next]_vars, NEW j \in Key, Held(j)'
             PROVE  j \in live'
  BY DEF HeldLive
<1>0. Held(j) => j \in live
  BY DEF HeldLive
<1> USE DEF Held
<1>1. CASE Schedule
  BY <1>0, <1>1 DEF Schedule, TypeOK
<1>2. CASE Abandon
  BY <1>0, <1>2, RetryMoves DEF Abandon
<1>3. CASE AbandonSlow
  BY <1>0, <1>3, RetryMoves DEF AbandonSlow
<1>4. ASSUME NEW k \in Key, CreateKey(k) PROVE j \in live'
  BY <1>0, <1>4 DEF CreateKey, TypeOK
<1>5. ASSUME NEW k \in Key, WriteKey(k) PROVE j \in live'
  BY <1>0, <1>5 DEF WriteKey, TypeOK
<1>6. ASSUME NEW k \in Key, RevokeKey(k) PROVE j \in live'
  BY <1>0, <1>6, ErrorMoves DEF RevokeKey
<1>7. ASSUME NEW k \in Key, CreateFails(k) PROVE j \in live'
  BY <1>0, <1>7, ErrorMoves DEF CreateFails, TypeOK
<1>8. ASSUME NEW k \in Key, CreateReplyLost(k) PROVE j \in live'
  BY <1>0, <1>8, ErrorMoves DEF CreateReplyLost
<1>9. ASSUME NEW k \in Key, WriteFails(k) PROVE j \in live'
  BY <1>0, <1>9 DEF WriteFails, TypeOK
<1>10. ASSUME NEW k \in Key, WriteReplyLost(k) PROVE j \in live'
  BY <1>0, <1>10 DEF WriteReplyLost, TypeOK
<1>11. ASSUME NEW k \in Key, RevokeFails(k) PROVE j \in live'
  BY <1>0, <1>11, ErrorMoves DEF RevokeFails
<1>12. ASSUME NEW k \in Key, Crash(k) PROVE j \in live'
  BY <1>0, <1>12 DEF Crash, TypeOK
<1>13. CASE UNCHANGED vars
  BY <1>0, <1>13 DEF vars
<1> QED BY <1>1, <1>2, <1>3, <1>4, <1>5, <1>6, <1>7, <1>8, <1>9, <1>10, <1>11, <1>12, <1>13
        DEF Next, AttemptStep

\* VaultLive is not inductive: it is broken by whoever revokes the key that is there, and
\* only the attempt that made it does.  That attempt is over.
Settled == lost = 0 /\ vault # NoKey => vault \in live /\ at[vault] = "gone"

\* Every step keeps it: after a lost reply there is nothing to keep.
LEMMA SettledNext == TypeOK /\ Fresh /\ HeldLive /\ Settled /\ [Next]_vars => Settled'
<1> SUFFICES ASSUME TypeOK, Fresh, HeldLive, Settled, [Next]_vars,
                    lost' = 0, vault' # NoKey
             PROVE  vault' \in live' /\ at'[vault'] = "gone"
  BY DEF Settled
<1> DEFINE G == vault' \in live' /\ at'[vault'] = "gone"
<1>0. lost = 0 /\ vault # NoKey => vault \in Key /\ vault \in live /\ at[vault] = "gone"
  BY DEF Settled, TypeOK
<1>1. CASE Schedule
  BY <1>0, <1>1, ScheduleKeeps DEF Schedule, bounds
<1>2. CASE Abandon
  BY <1>0, <1>2, RetryKeeps DEF Abandon, bounds
<1>3. CASE AbandonSlow
  BY <1>0, <1>3, RetryKeeps DEF AbandonSlow
<1>4. ASSUME NEW k \in Key, CreateKey(k) PROVE G
  BY <1>0, <1>4 DEF CreateKey, bounds, TypeOK
<1>5. ASSUME NEW k \in Key, WriteKey(k) PROVE G
  BY <1>0, <1>5 DEF WriteKey, bounds, Store, HeldLive, Held, TypeOK
<1>6. ASSUME NEW k \in Key, RevokeKey(k) PROVE G
  BY <1>0, <1>6, ErrorKeeps DEF RevokeKey, bounds
<1>7. ASSUME NEW k \in Key, CreateFails(k) PROVE G
  <2>1. CASE ReturnError(k)
    BY <1>0, <1>7, <2>1, ErrorKeeps DEF CreateFails, Fault
  <2>2. CASE ~ReturnError(k)
    BY <1>0, <1>7, <2>2 DEF CreateFails, Fault, TypeOK
  <2> QED BY <2>1, <2>2
<1>9. ASSUME NEW k \in Key, WriteFails(k) PROVE G
  BY <1>0, <1>9 DEF WriteFails, Fault, TypeOK
<1>10. ASSUME NEW k \in Key, CreateReplyLost(k) \/ WriteReplyLost(k) PROVE FALSE
  BY <1>10 DEF CreateReplyLost, WriteReplyLost, Lost, TypeOK
<1>11. ASSUME NEW k \in Key, RevokeFails(k) PROVE G
  BY <1>0, <1>11, ErrorKeeps DEF RevokeFails, Fault
<1>12. ASSUME NEW k \in Key, Crash(k) PROVE G
  <2>1. at[k] # "gone" /\ at' = [at EXCEPT ![k] = "gone"]
    BY <1>12 DEF Crash, Alive
  <2>2. CASE vault' = vault
    BY <1>0, <1>12, <2>1, <2>2 DEF Crash, Fault, TypeOK
  <2>3. CASE vault' # vault
    BY <1>12, <2>1, <2>3 DEF Crash, Fault, Store, HeldLive, Held, TypeOK
  <2> QED BY <2>2, <2>3
<1>13. CASE UNCHANGED vars
  BY <1>0, <1>13 DEF vars, bounds
<1> QED BY <1>1, <1>2, <1>3, <1>4, <1>5, <1>6, <1>7, <1>9, <1>10, <1>11, <1>12,
        <1>13
        DEF Next, AttemptStep

\* Attempts overlap only where one was given up alive.
Solo == slow = 0 => \A k \in Key : Alive(k) => k = current /\ outcome = "running"

\* Every step keeps it: whoever returns is the attempt the server waits for, and the next
\* one begins when it is over.
LEMMA SoloNext == TypeOK /\ Fresh /\ Solo /\ [Next]_vars => Solo'
<1> SUFFICES ASSUME TypeOK, Fresh, Solo, [Next]_vars, slow' = 0, NEW j \in Key, Alive(j)'
             PROVE  j = current' /\ outcome' = "running"
  BY DEF Solo
<1> DEFINE G == j = current' /\ outcome' = "running"
<1>0. slow = 0 /\ Alive(j) => j = current /\ outcome = "running"
  BY DEF Solo
<1> USE AttemptsAssumption, MintBoundAssumption DEF Alive, current
\* When attempt k returns: nobody else is alive, and the next attempt is the current one.
<1>1. ASSUME NEW k \in Key, at[k] \in {"create", "write", "revoke"}, slow = 0, ReturnError(k)
      PROVE  G
  <2>1. k = current /\ outcome = "running"
    BY <1>1 DEF Solo
  <2>2. Retry({k})
    BY <1>1, <2>1 DEF ReturnError
  <2>3. \A l \in Key \ {k} : at[l] \notin {"create", "write", "revoke"}
    BY <1>1, <2>1 DEF Solo
  <2> QED BY <2>1, <2>2, <2>3 DEF Retry, TypeOK
<1>2. ASSUME NEW k \in Key, slow' = slow, UNCHANGED server,
             Alive(k), \A l \in Key \ {k} : at'[l] = at[l]
      PROVE  G
  BY <1>0, <1>2 DEF server
<1>3. ASSUME NEW k \in Key, slow' = slow, Alive(k), at'[k] = "gone",
             \A l \in Key \ {k} : at'[l] = at[l]
      PROVE  G
  <2>1. j # k /\ Alive(j)
    BY <1>3
  <2> QED BY <1>3, <2>1 DEF Solo
<1>4. CASE Schedule
  <2>1. slow = 0 /\ outcome # "running"
    BY <1>4 DEF Schedule, bounds
  <2>2. ~Alive(j)
    BY <1>0, <2>1
  <2> QED BY <1>4, <2>2 DEF Schedule, TypeOK
<1>5. CASE Abandon
  <2>1. slow = 0 /\ at[current] = "gone" /\ Retry({})
    BY <1>5 DEF Abandon, bounds
  <2>2. ~Alive(j)
    BY <1>0, <2>1
  <2> QED BY <1>5, <2>1, <2>2 DEF Abandon, Retry, TypeOK
<1>6. CASE AbandonSlow
  BY <1>6 DEF AbandonSlow, TypeOK
<1>7. ASSUME NEW k \in Key, CreateKey(k) \/ WriteFails(k) \/ WriteReplyLost(k) PROVE G
  BY <1>2, <1>7 DEF CreateKey, WriteFails, WriteReplyLost, Fault, Lost, bounds, TypeOK
<1>8. ASSUME NEW k \in Key, WriteKey(k) \/ Crash(k) PROVE G
  BY <1>3, <1>8 DEF WriteKey, Crash, Fault, bounds, TypeOK
<1>9. ASSUME NEW k \in Key, RevokeKey(k) \/ CreateReplyLost(k) \/ RevokeFails(k) PROVE G
  BY <1>1, <1>9 DEF RevokeKey, CreateReplyLost, RevokeFails, Fault, Lost, bounds
<1>10. ASSUME NEW k \in Key, CreateFails(k) PROVE G
  BY <1>1, <1>3, <1>10 DEF CreateFails, Fault, TypeOK
<1>11. CASE UNCHANGED vars
  BY <1>0, <1>11 DEF vars, server, bounds
<1> QED BY <1>4, <1>5, <1>6, <1>7, <1>8, <1>9, <1>10, <1>11 DEF Next, AttemptStep

\* After a success with no overlap there is nobody left who could revoke the key.
Delivered ==
  /\ outcome = "ok" => vault # NoKey
  /\ outcome = "ok" /\ slow = 0 => vault \in live

LEMMA DeliveredNext == TypeOK /\ HeldLive /\ Solo /\ Delivered /\ [Next]_vars => Delivered'
<1> SUFFICES ASSUME TypeOK, HeldLive, Solo, Delivered, [Next]_vars, outcome' = "ok"
             PROVE  vault' # NoKey /\ (slow' = 0 => vault' \in live')
  BY DEF Delivered
<1> DEFINE G == vault' # NoKey /\ (slow' = 0 => vault' \in live')
<1>0. \A k \in Key : k # NoKey
  BY DEF Key, NoKey
\* An attempt that is alive after a success is one that was given up.
<1>1. \A k \in Key : outcome = "ok" /\ Alive(k) => slow # 0
  BY DEF Solo
<1>2. ASSUME outcome = "ok", slow' = slow, vault' = vault, live' = live PROVE G
  BY <1>2 DEF Delivered
<1>3. ASSUME NEW k \in Key, Alive(k), outcome = "ok", slow' = slow,
             vault' = vault \/ vault' = k
      PROVE  G
  BY <1>0, <1>1, <1>3 DEF Delivered
<1>4. ASSUME NEW k \in Key, ReturnError(k) PROVE outcome = "ok"
  BY <1>4 DEF ReturnError, Retry, server
<1>5. Schedule \/ Abandon \/ AbandonSlow => FALSE
  BY DEF Schedule, Abandon, AbandonSlow, Retry
<1>6. ASSUME NEW k \in Key, WriteKey(k) PROVE G
  <2>1. vault' = k /\ k \in live /\ live' = live
    BY <1>6 DEF WriteKey, Store, HeldLive, Held
  <2> QED BY <1>0, <2>1
<1>7. ASSUME NEW k \in Key, CreateKey(k) \/ WriteFails(k) \/ WriteReplyLost(k) \/ Crash(k)
      PROVE  G
  BY <1>3, <1>7 DEF CreateKey, WriteFails, WriteReplyLost, Crash, Store, Fault, Lost, server,
                    bounds, Alive
<1>8. ASSUME NEW k \in Key, RevokeKey(k) \/ CreateReplyLost(k) \/ RevokeFails(k)
      PROVE  G
  BY <1>3, <1>4, <1>8 DEF RevokeKey, CreateReplyLost, RevokeFails, Fault, Lost, bounds, Alive
<1>9. ASSUME NEW k \in Key, CreateFails(k) PROVE G
  BY <1>3, <1>4, <1>9 DEF CreateFails, Fault, Alive
<1>10. CASE UNCHANGED vars
  BY <1>2, <1>10 DEF vars, server, bounds
<1> QED BY <1>5, <1>6, <1>7, <1>8, <1>9, <1>10 DEF Next, AttemptStep

\* What a worker finds in Vault authenticates, for every number of attempts, overlaps,
\* failures and deaths, unless a reply was lost; and after a success unless a reply was
\* lost and an attempt that had been given up was still at work.
THEOREM VaultStaysLive == Spec => []VaultLive
<1> DEFINE Inv == TypeOK /\ Fresh /\ HeldLive /\ Settled /\ Solo /\ Delivered
<1>1. Init => Inv
  BY FreshInit, AttemptsAssumption, MintBoundAssumption
     DEF Init, TypeOK, HeldLive, Held, Settled, Solo, Alive, Delivered
<1>2. Inv /\ [Next]_vars => Inv'
  BY TypeNext, FreshNext, HeldLiveNext, SettledNext, SoloNext, DeliveredNext
<1>3. Inv => VaultLive
  BY MintBoundAssumption DEF Settled, Delivered, VaultLive, TypeOK
<1> QED BY <1>1, <1>2, <1>3, PTL DEF Spec

-----------------------------------------------------------------------------
(* Nobody is waited for in vain: the safety half of MintReturns.           *)

\* The server waits only for an attempt that has begun: one that is alive always has a
\* step of its own to take, whatever the bounds on faults say, and one that is over is
\* noticed by its missing heartbeat.
WaitsForAnAttempt == outcome = "running" => current \in Key /\ at[current] # "none"

\* Every step keeps it: with the current attempt over, the next one begins in the same
\* step or the activity has failed.
LEMMA WaitsNext == TypeOK /\ WaitsForAnAttempt /\ [Next]_vars => WaitsForAnAttempt'
<1> SUFFICES ASSUME TypeOK, WaitsForAnAttempt, [Next]_vars, outcome' = "running"
             PROVE  current' \in Key /\ at'[current'] # "none"
  BY DEF WaitsForAnAttempt
<1> DEFINE G == current' \in Key /\ at'[current'] # "none"
<1> USE AttemptsAssumption DEF current
\* The attempts in E are over, and the server moves on.
<1>1. ASSUME NEW E \in SUBSET Key, outcome = "running", Retry(E),
             \A k \in E : k = current
      PROVE  G
  <2>1. try < MaxAttempts /\ mint' = mint /\ try' = try + 1
    BY <1>1 DEF Retry
  <2>2. current' \in Key /\ current' \notin E
    BY <1>1, <2>1 DEF WaitsForAnAttempt, Key, TypeOK
  <2> QED BY <1>1, <2>1, <2>2 DEF Retry
<1>2. ASSUME NEW k \in Key, ReturnError(k) PROVE G
  <2>1. CASE outcome = "running" /\ k = current
    BY <1>1, <1>2, <2>1 DEF ReturnError
  <2>2. CASE ~(outcome = "running" /\ k = current)
    BY <1>2, <2>2 DEF ReturnError, WaitsForAnAttempt, TypeOK, server
  <2> QED BY <2>1, <2>2
\* An attempt goes from one of its calls to the next, or is over, unheard.
<1>3. ASSUME NEW k \in Key, NEW v \in {"write", "revoke", "gone"}, UNCHANGED server,
             at' = [at EXCEPT ![k] = v]
      PROVE  G
  BY <1>3 DEF WaitsForAnAttempt, TypeOK, server
<1>4. CASE Schedule
  BY <1>4 DEF Schedule, Key, TypeOK
<1>5. CASE Abandon \/ AbandonSlow
  BY <1>1, <1>5 DEF Abandon, AbandonSlow
<1>6. ASSUME NEW k \in Key, CreateKey(k) \/ WriteFails(k) \/ WriteReplyLost(k) \/ Crash(k)
      PROVE  G
  BY <1>3, <1>6 DEF CreateKey, WriteFails, WriteReplyLost, Crash
<1>7. ASSUME NEW k \in Key, WriteKey(k) PROVE G
  BY <1>3, <1>7 DEF WriteKey
<1>8. ASSUME NEW k \in Key,
             RevokeKey(k) \/ CreateReplyLost(k) \/ RevokeFails(k) \/ CreateFails(k)
      PROVE  G
  BY <1>2, <1>8 DEF RevokeKey, CreateReplyLost, RevokeFails, CreateFails
<1>9. CASE UNCHANGED vars
  BY <1>9 DEF WaitsForAnAttempt, vars, server
<1> QED BY <1>4, <1>5, <1>6, <1>7, <1>8, <1>9 DEF Next, AttemptStep

\* The activity never waits for an attempt that nobody has begun, so that MintReturns needs
\* no more than that attempts go on and that dead ones are noticed.
THEOREM NoVainWait == Spec => []WaitsForAnAttempt
<1>1. Init => WaitsForAnAttempt
  BY DEF Init, WaitsForAnAttempt
<1> QED BY <1>1, TypeCorrect, WaitsNext, PTL DEF Spec
=============================================================================
