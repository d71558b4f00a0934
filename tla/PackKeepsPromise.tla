--------------------------- MODULE PackKeepsPromise --------------------------
(***************************************************************************)
(* PackResume refines PackPromise; what the documentation says of it; and   *)
(* its progress.                                                           *)
(***************************************************************************)
EXTENDS PackResume, FiniteSetsExt

(***************************************************************************)
(* Refinement                                                              *)
(***************************************************************************)
\* A power loss to come.  None is counted on after a termination: a pair that
\* was written and not synchronized is readable then, and a Resume promotes it.
PowerMayFail == harm.power < MaxPowerLosses /\ harm.kill = 0

\* The directories from which the next Resume may have to start.
Outcomes == IF PowerMayFail THEN views ELSE {dir}

\* The pair is readable there even if every unsynchronized byte is lost.
Endures(d, pair) ==
  /\ Intact(d, pair)
  /\ PowerMayFail => /\ content[d[pair[1]].att].body = "durable"
                     /\ content[d[pair[1]].att].note = "durable"

\* The pair that holds the newest progress: the one that a promotion to be
\* finished activates, or else the saved pair.
Newest(d) ==
  IF Interrupted(d) THEN {AdvancedPair(k) : k \in {j \in PromotionSteps : Continues(d, j)}}
                    ELSE {Current}

\* A call that still writes its pair has promised nothing of it.
Unreported(d, pair) == job.phase \in WritePhases /\ d[pair[1]].att = job.att

KeptIn(d) ==
  Max({0} \cup {ItemsOf(d, pair) :
         pair \in {p \in Newest(d) : Endures(d, p) /\ ~ Unreported(d, p)}})

\* What stays saved, whichever of these directories the next call finds.
Kept == Min({KeptIn(d) : d \in Outcomes})

\* The next Resume is accepted in d.
Accepted(d) ==
  IF Interrupted(d) THEN \E k \in PromotionSteps : Reconcilable(d, k)
                    ELSE Promotable(d) \/ Resumable(d)

Ready == dir["final"] = Absent => Accepted(dir)

\* The source has changed, and a pair that a Resume would authenticate lacks an
\* observation or has one of a file edited since.
Stale == /\ harm.source > 0
         /\ \E n \in {"partial", "resume", "previous"} :
              /\ dir[n].kind = "bundle"
              /\ content[dir[n].att].note # "none"
              /\ ~ Fresh(dir[n].att)

Capturing == job.resume /\ job.phase \in WritePhases

Published == \A d \in Outcomes : Verifies(d)

\* What ends the promise: a file of another program, or a power loss that
\* comes together with a termination.
Disturbed == harm.foreign > 0 \/ (harm.kill > 0 /\ harm.power > 0)

Promise == INSTANCE PackPromise WITH
  kept      <- Kept,
  ready     <- Ready,
  stale     <- Stale,
  capturing <- Capturing,
  kills     <- harm.kill,
  losses    <- harm.power,
  published <- Published,
  disturbed <- Disturbed

\* Saved progress survives faults, terminations, power losses and edits of the
\* source until the Bundle is published; what a call leaves when it ends by
\* itself, and what any stop leaves outside a Resume's capture, is accepted by
\* the next Resume while the source shows what was recorded of it; and the
\* reports tell the truth (PackReport returned by BundleEngine::pack).
KeepsPromise == Promise!Spec

(***************************************************************************)
(* What the documentation says                                             *)
(***************************************************************************)
\* While the saved pair authenticates and the destination is free, a Resume
\* is accepted.
SavedPackResumes ==
  At("idle") /\ dir["final"] = Absent /\ ~ Interrupted(dir)
    /\ Authentic(dir, Current) => Promotable(dir) \/ Resumable(dir)

(***************************************************************************)
(* Liveness                                                                *)
(***************************************************************************)
\* The library runs its call to the end, and the owner who is advised to
\* resume does call Pack again.
FairSpec == /\ Spec
            /\ WF_vars(WriteBundle \/ Promote \/ Refuse \/ (At("begin") /\ Resume))
            /\ WF_vars(ReconcilePromotion)

\* A promotion that was journalled is finished, by this call or by the next:
\* its journal goes, and the older pair with it.  (A Resume refuses to continue
\* it once a source file was edited.)
PromotionFinishes == Interrupted(dir) ~> ~ Interrupted(dir) \/ Stale \/ Disturbed
=============================================================================
