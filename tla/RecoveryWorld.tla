----------------------------- MODULE RecoveryWorld -----------------------------
(***************************************************************************)
(* What the recovery engines share: the Bundles at the paths of the        *)
(* callers, the local state of the calls that run, and a budget of things  *)
(* that go wrong around them.                                              *)
(*                                                                         *)
(* A Bundle is known by the number of the Pack that made it.  That Pack    *)
(* also made the two Recovery Secrets which open it, so the same number    *)
(* stands for them.  Number 1 is an older Bundle of the owner, whose file, *)
(* document and note are still around.                                     *)
(***************************************************************************)
EXTENDS Integers, Sequences, FiniteSets

CONSTANTS
  Callers,      \* threads that share one engine, each with paths of its own
  Servers,      \* Vaultwarden servers, each with the owner's account on it
  MaxBundles,   \* Packs that are begun, the older one included
  MaxChanges,   \* changes that other programs make
  MaxFaults     \* refusals of the storage or network, and terminations

ASSUME CallersAssumption == IsFiniteSet(Callers) /\ Callers # {}
ASSUME ServersAssumption == IsFiniteSet(Servers) /\ Servers # {}
ASSUME WorldBounds ==
  /\ MaxBundles \in Nat \ {0}
  /\ MaxChanges \in Nat /\ MaxFaults \in Nat

VARIABLES
  bundle,    \* the Bundle at the path of each caller, NoBundle when there is none
  call,      \* the local state of each caller's running call
  touched,   \* what others changed since it was last authenticated
  harm       \* how many changes and faults there were

worldVars == <<bundle, call, touched, harm>>

Ids == 1 .. MaxBundles
NoBundle == 0
Older == 1

\* What a document or a note holds: the secret that opens one Bundle, and the
\* Bundle identity that is written beside it.
Content == [opens : 0 .. MaxBundles, names : 0 .. MaxBundles]

Of(id) == [opens |-> id, names |-> id]

Torn == Of(NoBundle)

\* A server is written "none" until preflight observes one.
NoServer == "none"

Phases == {"idle", "pack", "write", "persist", "abandon", "syncdoc", "rehearse", "inspect",
           "reviewbw", "preflight", "reviewvault", "store", "create",
           "readback", "loaddoc", "verifydoc", "checkvault", "loadnote",
           "compare", "fetchdoc", "fetchcheck", "fetchnote", "copy"}

Call == [phase     : Phases,
         previous  : 0 .. MaxBundles,   \* the recovery context being resumed
         secret    : 0 .. MaxBundles,   \* packed: the secrets of a completed Pack
         rehearsed : 0 .. MaxBundles,   \* offline_receipt
         installed : 0 .. MaxChanges + 1, \* the reviewed installation, 0 for none
         server    : Servers \cup {NoServer}, \* preflight.server_identity_hash
         named     : 0 .. MaxBundles,   \* preflight.bundle_identity
         note      : Nat,               \* item_identifier
         verified  : 0 .. MaxBundles,   \* offline_verification
         loaded    : 0 .. MaxBundles]   \* the secret that a load returned last

Idle == [phase |-> "idle", previous |-> 0, secret |-> 0, rehearsed |-> 0,
         installed |-> 0, server |-> NoServer, named |-> 0, note |-> 0,
         verified |-> 0, loaded |-> 0]

Artefacts == {"bundle", "document", "note"}

WorldTypeOK ==
  /\ bundle \in [Callers -> 0 .. MaxBundles]
  /\ call \in [Callers -> Call]
  /\ touched \in [Callers -> SUBSET Artefacts]
  /\ harm \in [{"change", "fault"} -> Nat]

WorldInit ==
  /\ bundle = [c \in Callers |-> NoBundle]
  /\ call = [c \in Callers |-> Idle]
  /\ touched = [c \in Callers |-> {}]
  /\ harm = [h \in {"change", "fault"} |-> 0]

(***************************************************************************)
(* Steps of a call                                                         *)
(***************************************************************************)
At(c, p) == call[c].phase = p

Goto(c, p) == call' = [call EXCEPT ![c].phase = p]

Become(c, new) == call' = [call EXCEPT ![c] = new]

\* The call returns an error; its secrets are dropped with it.
Fail(c) == Become(c, Idle)

\* BundleEngine::verify of the Bundle at the caller's path with one secret.
Verifies(c, secret) == secret # NoBundle /\ bundle[c] = secret

\* The capture authenticated the artefacts in this step.  A load for a copy takes
\* any Bundle that the stored secret opens, and settles nothing.
Settled(c, artefacts) ==
  touched' = IF call[c].phase \in {"fetchdoc", "fetchnote"} THEN touched
             ELSE [touched EXCEPT ![c] = @ \ artefacts]

Touch(c, artefact) == touched' = [touched EXCEPT ![c] = @ \cup {artefact}]

Spend(h, limit) ==
  /\ harm[h] < limit
  /\ harm' = [harm EXCEPT ![h] = @ + 1]

\* Another program removes the Bundle, or puts the older one in its place.
ReplaceBundle(c) ==
  /\ bundle[c] # NoBundle
  /\ Spend("change", MaxChanges)
  /\ \E other \in {NoBundle, Older} \ {bundle[c]} :
       bundle' = [bundle EXCEPT ![c] = other]
  /\ Touch(c, "bundle")
  /\ UNCHANGED call
================================================================================
