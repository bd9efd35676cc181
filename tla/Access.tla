------------------------------- MODULE Access -------------------------------
(***************************************************************************)
(* Who may open the portal.  A link carries a workshop code, a username    *)
(* and a token.  Every process checks them against the configuration it    *)
(* was started with (src/portal/src/config.ts, lib/link.ts, lib/auth.ts).  *)
(* `fly secrets set` stores a new configuration; the machines then restart *)
(* one after the other, so for a while they disagree.                      *)
(*                                                                         *)
(* Codes, secrets and cohorts are numbers: the how-manieth rotation made   *)
(* them.  A token is the pair of the secret and the username it was        *)
(* derived from, as an HMAC of one pair never equals that of another.      *)
(***************************************************************************)
EXTENDS Naturals

CONSTANTS
    Process,        \* the machines the portal runs on
    MaxRotations,   \* bound: how often the secrets are set
    None            \* an absent query parameter or field

ASSUME ProcessNonEmpty == Process # {}
ASSUME RotationsNat == MaxRotations \in Nat
ASSUME NoneIsNoNumber == None \notin Nat

VARIABLES
    secrets,    \* the configuration Fly holds
    running,    \* running[p]: the configuration process p was started with
    rotations   \* how often the secrets were set

accessVars == <<secrets, running, rotations>>

Generation == 0..MaxRotations

(***************************************************************************)
(* The fields of the configuration that decide who gets where.  `valid` is *)
(* whether the whole passes the schema; `keyed` whether the optional       *)
(* Cloud key is there.                                                     *)
(***************************************************************************)
Schema == [code : Generation, secret : Generation, cohort : Generation,
           valid : BOOLEAN, keyed : BOOLEAN]

AccessTypeOK ==
    /\ secrets \in Schema
    /\ running \in [Process -> Schema]
    /\ rotations \in Generation

AccessInit ==
    /\ secrets \in [code : {0}, secret : {0}, cohort : {0}, valid : {TRUE}, keyed : {TRUE}]
    /\ running = [p \in Process |-> secrets]
    /\ rotations = 0

-----------------------------------------------------------------------------
(* The gates. *)

verifyCode(candidate, cfg) == candidate # None /\ candidate = cfg.code

participantToken(name, cfg) == [secret |-> cfg.secret, name |-> name]

verifyParticipant(name, token, cfg) ==
    /\ name # None
    /\ token # None
    /\ token = participantToken(name, cfg)

labQuery(name, token, cfg) == [k |-> cfg.code, u |-> name, t |-> token]

(* What a page answers.  A configuration that fails the schema makes
   config() throw, and every page with it. *)
JoinPage(link, cfg) ==
    CASE ~cfg.valid -> "500"
      [] cfg.valid /\ ~verifyCode(link.k, cfg) -> "retired"
      [] OTHER -> "form"

LabPage(link, cfg) ==
    CASE ~cfg.valid -> "500"
      [] cfg.valid /\ ~verifyCode(link.k, cfg) -> "retired"
      [] cfg.valid /\ verifyCode(link.k, cfg) /\ ~verifyParticipant(link.u, link.t, cfg) -> "identify"
      [] OTHER -> "lab"

\* Mutant of CheckpointsRoute: the token alone lets a poll in.
CheckpointsRouteToken(link, cfg) ==
    CASE ~cfg.valid -> "500"
      [] cfg.valid /\ ~verifyParticipant(link.u, link.t, cfg) -> "bad-token"
      [] OTHER -> "grade"

CheckpointsRoute(link, cfg) ==
    CASE ~cfg.valid -> "500"
      [] cfg.valid /\ ~verifyCode(link.k, cfg) -> "link-retired"
      [] cfg.valid /\ verifyCode(link.k, cfg) /\ ~verifyParticipant(link.u, link.t, cfg) -> "bad-token"
      [] OTHER -> "grade"

-----------------------------------------------------------------------------
(* What an operator sets: a new link code, alone or with a new cohort, a new
   secret, a value that breaks or mends the schema, the Cloud key. *)
Change(cfg, n) ==
    { [cfg EXCEPT !.code = n],
      [cfg EXCEPT !.code = n, !.cohort = n],
      [cfg EXCEPT !.secret = n],
      [cfg EXCEPT !.valid = ~@],
      [cfg EXCEPT !.keyed = ~@] }

FlySecretsSet ==
    /\ rotations < MaxRotations
    /\ rotations' = rotations + 1
    /\ secrets' \in Change(secrets, rotations + 1)
    /\ UNCHANGED running

Restart(p) ==
    /\ running[p] # secrets
    /\ running' = [running EXCEPT ![p] = secrets]
    /\ UNCHANGED <<secrets, rotations>>
=============================================================================
