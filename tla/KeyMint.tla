------------------------------ MODULE KeyMint -------------------------------
(***************************************************************************)
(* MintNamespaceKey, attempt by attempt, over the reconciles of ONE        *)
(* environment (internal/platform/activity/key.go): a key is created in    *)
(* the Cloud, written to the environment's Vault path and, if that fails,  *)
(* revoked.  Environments takes an attempt as one step; here it is three,  *)
(* a reply can be lost, a worker can die between two of them, and, because *)
(* this activity never heartbeats, an attempt that takes longer than the   *)
(* heartbeat timeout is given up and goes on running.                      *)
(*                                                                         *)
(* Every attempt makes at most one key, so a key carries the name of its   *)
(* attempt: which mint activity, and which try of it.                      *)
(***************************************************************************)
EXTENDS Naturals

CONSTANTS
  MaxAttempts,  \* RetryPolicy.MaximumAttempts (8 in the code)
  MaxMints,     \* bound: mint activities, one per reconcile of the environment
  MaxFaults,    \* bound: calls that fail and workers that die
  MaxLost,      \* bound: calls that succeed and whose reply is lost
  MaxSlow       \* bound: attempts alive when their heartbeat timeout fires

ASSUME AttemptsAssumption == MaxAttempts \in Nat \ {0} /\ MaxMints \in Nat \ {0}
ASSUME MintBoundAssumption == MaxFaults \in Nat /\ MaxLost \in Nat /\ MaxSlow \in Nat

Key == (1..MaxMints) \X (1..MaxAttempts)
NoKey == <<0, 0>>

VARIABLES
  outcome,         \* of the last mint activity: "none" before the first
  mint, try,       \* the attempt the server waits for, or the last one
  at,              \* [Key -> ...]: where each attempt is
  live,            \* the keys that authenticate
  vault,           \* the key at the environment's Vault path
  stored,          \* history: every key that has been there
  orphans,         \* history: attempts whose key, if there is one, nobody will revoke
  faults, lost, slow

server == <<outcome, mint, try>>
bounds == <<faults, lost, slow>>
vars == <<server, at, live, vault, stored, orphans, bounds>>

current == <<mint, try>>
Alive(k) == at[k] \in {"create", "write", "revoke"}

TypeOK ==
  /\ outcome \in {"none", "running", "ok", "failed"}
  /\ mint \in 0..MaxMints /\ try \in 1..MaxAttempts
  /\ outcome # "none" => mint # 0
  /\ at \in [Key -> {"none", "create", "write", "revoke", "gone"}]
  /\ live \in SUBSET Key
  /\ vault \in Key \cup {NoKey}
  /\ stored \in SUBSET Key
  /\ orphans \in SUBSET Key
  /\ faults \in 0..MaxFaults /\ lost \in 0..MaxLost /\ slow \in 0..MaxSlow

Init ==
  /\ outcome = "none" /\ mint = 0 /\ try = 1
  /\ at = [k \in Key |-> "none"]
  /\ live = {} /\ vault = NoKey
  /\ stored = {} /\ orphans = {}
  /\ faults = 0 /\ lost = 0 /\ slow = 0

Fault == faults < MaxFaults /\ faults' = faults + 1 /\ UNCHANGED <<lost, slow>>
Lost == lost < MaxLost /\ lost' = lost + 1 /\ UNCHANGED <<faults, slow>>

-----------------------------------------------------------------------------
(* The server.                                                             *)

\* TerraformApply has succeeded, and EnvironmentWorkflow schedules the mint.
Schedule ==
  /\ outcome # "running"
  /\ mint < MaxMints
  /\ outcome' = "running"
  /\ mint' = mint + 1 /\ try' = 1
  /\ at' = [at EXCEPT ![<<mint + 1, 1>>] = "create"]
  /\ UNCHANGED <<live, vault, stored, orphans, bounds>>

\* The next attempt of the same activity, unless this was the last.  ended: the attempts
\* that are over.
Retry(ended) ==
  IF try < MaxAttempts
  THEN /\ try' = try + 1
       /\ at' = [k \in Key |-> IF k \in ended THEN "gone"
                               ELSE IF k = <<mint, try + 1>> THEN "create" ELSE at[k]]
       /\ UNCHANGED <<outcome, mint>>
  ELSE /\ outcome' = "failed"
       /\ at' = [k \in Key |-> IF k \in ended THEN "gone" ELSE at[k]]
       /\ UNCHANGED <<mint, try>>

\* The attempt returns an error: the server hears of it if it still waits for it.
ReturnError(k) ==
  IF outcome = "running" /\ k = current
  THEN Retry({k})
  ELSE at' = [at EXCEPT ![k] = "gone"] /\ UNCHANGED server

\* Mutant of Abandon: an attempt is given up only once another can follow.
AbandonButLast ==
  /\ outcome = "running"
  /\ at[current] = "gone" /\ try < MaxAttempts
  /\ Retry({})
  /\ UNCHANGED <<live, vault, stored, orphans, bounds>>

\* No heartbeat for 30 seconds, and the worker is dead.
Abandon ==
  /\ outcome = "running"
  /\ at[current] = "gone"
  /\ Retry({})
  /\ UNCHANGED <<live, vault, stored, orphans, bounds>>

\* No heartbeat for 30 seconds, and the worker is waiting for the Cloud or for Vault.
\* The attempt is not told.
AbandonSlow ==
  /\ outcome = "running"
  /\ Alive(current)
  /\ slow < MaxSlow /\ slow' = slow + 1
  /\ Retry({})
  /\ UNCHANGED <<live, vault, stored, orphans, faults, lost>>

-----------------------------------------------------------------------------
(* An attempt.                                                             *)

\* Mutant of CreateKey: rotation in the wrong order, the old key revoked as soon as there is
\* a new one and not when the new one is in Vault.
CreateKeyRevokesOld(k) ==
  /\ at[k] = "create"
  /\ live' = (live \ {vault}) \cup {k}
  /\ at' = [at EXCEPT ![k] = "write"]
  /\ UNCHANGED <<server, vault, stored, orphans, bounds>>

CreateKey(k) ==
  /\ at[k] = "create"
  /\ live' = live \cup {k}
  /\ at' = [at EXCEPT ![k] = "write"]
  /\ UNCHANGED <<server, vault, stored, orphans, bounds>>

\* The platform's own key could not be read or the Cloud said no.  Some answers are
\* permanent (IsPermanent), and the activity fails at once.
CreateFails(k) ==
  /\ at[k] = "create"
  /\ Fault
  /\ \/ ReturnError(k)
     \/ /\ outcome = "running" /\ k = current
        /\ outcome' = "failed"
        /\ at' = [at EXCEPT ![k] = "gone"]
        /\ UNCHANGED <<mint, try>>
  /\ UNCHANGED <<live, vault, stored, orphans>>

\* The key was created and nobody knows its name.
CreateReplyLost(k) ==
  /\ at[k] = "create"
  /\ Lost
  /\ live' = live \cup {k}
  /\ orphans' = orphans \cup {k}
  /\ ReturnError(k)
  /\ UNCHANGED <<vault, stored>>

Store(k) == vault' = k /\ stored' = stored \cup {k}

\* The key is in Vault, and the activity has succeeded.
WriteKey(k) ==
  /\ at[k] = "write"
  /\ Store(k)
  /\ at' = [at EXCEPT ![k] = "gone"]
  /\ IF outcome = "running" /\ k = current
     THEN outcome' = "ok" /\ UNCHANGED <<mint, try>>
     ELSE UNCHANGED server
  /\ UNCHANGED <<live, orphans, bounds>>

\* Mutant of WriteFails: the key is not revoked.
WriteFailsAndReturns(k) ==
  /\ at[k] = "write"
  /\ Fault
  /\ ReturnError(k)
  /\ UNCHANGED <<live, vault, stored, orphans>>

WriteFails(k) ==
  /\ at[k] = "write"
  /\ Fault
  /\ at' = [at EXCEPT ![k] = "revoke"]
  /\ UNCHANGED <<server, live, vault, stored, orphans>>

\* Vault has stored it; its client timed out, and the code goes the way of a failure.
WriteReplyLost(k) ==
  /\ at[k] = "write"
  /\ Lost
  /\ Store(k)
  /\ at' = [at EXCEPT ![k] = "revoke"]
  /\ UNCHANGED <<server, live, orphans>>

RevokeKey(k) ==
  /\ at[k] = "revoke"
  /\ live' = live \ {k}
  /\ ReturnError(k)
  /\ UNCHANGED <<vault, stored, orphans, bounds>>

\* "orphaned api key: could not write to vault and could not revoke".
RevokeFails(k) ==
  /\ at[k] = "revoke"
  /\ Fault
  /\ orphans' = orphans \cup {k}
  /\ ReturnError(k)
  /\ UNCHANGED <<live, vault, stored>>

\* The worker dies with the attempt: before, or just after, the call it was about to
\* make.
Crash(k) ==
  /\ Alive(k)
  /\ Fault
  /\ at' = [at EXCEPT ![k] = "gone"]
  /\ \/ UNCHANGED <<live, vault, stored>>
     \/ at[k] = "create" /\ live' = live \cup {k} /\ UNCHANGED <<vault, stored>>
     \/ at[k] = "write" /\ Store(k) /\ UNCHANGED live
     \/ at[k] = "revoke" /\ live' = live \ {k} /\ UNCHANGED <<vault, stored>>
  /\ orphans' = orphans \cup {k}
  /\ UNCHANGED server

-----------------------------------------------------------------------------

AttemptStep(k) == CreateKey(k) \/ WriteKey(k) \/ RevokeKey(k)

Next ==
  \/ Schedule \/ Abandon \/ AbandonSlow
  \/ \E k \in Key :
       \/ AttemptStep(k)
       \/ CreateFails(k) \/ CreateReplyLost(k)
       \/ WriteFails(k) \/ WriteReplyLost(k)
       \/ RevokeFails(k) \/ Crash(k)

Spec == Init /\ [][Next]_vars

(* An attempt that is alive goes on, and one that is dead is noticed.      *)
FairSpec ==
  /\ Spec
  /\ WF_vars(Abandon)
  /\ \A k \in Key : WF_vars(AttemptStep(k))

-----------------------------------------------------------------------------
(* Properties.                                                             *)

\* Did that leak?  Every key that authenticates has been in Vault, is in the hands of an
\* attempt, or is an orphan of a death, of a lost reply or of a revocation that failed --
\* never of a Vault write that failed.
Accounted ==
  live \subseteq stored \cup orphans \cup {k \in Key : at[k] \in {"write", "revoke"}}

\* What Environments takes a successful mint for: its key is in Vault and authenticates.
\* A key in Vault is dead only if a reply was lost, and after a success only if,
\* besides, an attempt that had been given up was still at work -- whatever attempts fail
\* or die.
VaultLive ==
  /\ outcome = "ok" => vault # NoKey
  /\ vault # NoKey /\ vault \notin live => lost > 0 /\ (outcome = "ok" => slow > 0)

\* The mint comes to an end: EnvironmentWorkflow is not kept waiting by dead workers.
MintReturns == outcome = "running" ~> outcome # "running"
=============================================================================
