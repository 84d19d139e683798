----------------------------- MODULE RunLifecycle -----------------------------
(***************************************************************************)
(* What the phase of a run means to whoever polls it, as long as nobody    *)
(* executes the run twice at once: it is created once, its phases follow   *)
(* each other without a gap, an interrupted or failed run is taken up at   *)
(* ingesting and nowhere else, and it comes to rest waiting for its        *)
(* reviewers, or completed, or without a change.  Rest is not final: what  *)
(* follows it may still fail, and only then is the run taken up again.     *)
(***************************************************************************)
EXTENDS Naturals

CONSTANT Runs

VARIABLE phase

LifecycleInit == phase = [r \in Runs |-> "absent"]

(* The phase that follows, where the run does not come to rest.            *)
Following == [absent |-> "queued", queued |-> "ingesting",
              ingesting |-> "comparing", comparing |-> "extracting",
              extracting |-> "retrieving", retrieving |-> "assessing",
              assessing |-> "verifying", verifying |-> "drafting"]

Enter(r, next) == phase' = [phase EXCEPT ![r] = next]

Advance(r) ==
    /\ phase[r] \in DOMAIN Following
    /\ Enter(r, Following[phase[r]])

(* Without a substantive change, or with the last task drafted.            *)
ComeToRest(r) ==
    \/ phase[r] = "comparing" /\ Enter(r, "no_change")
    \/ phase[r] = "drafting" /\ Enter(r, "awaiting_review")
    \/ phase[r] = "drafting" /\ Enter(r, "completed")

(* Also the audit event, or the update, that follows the last checkpoint   *)
(* may fail.                                                               *)
FailRun(r) ==
    /\ phase[r] # "absent"
    /\ Enter(r, "failed")

Resume(r) ==
    /\ phase[r] \notin {"absent", "awaiting_review", "completed", "no_change"}
    /\ Enter(r, "ingesting")

LifecycleNext ==
    \E r \in Runs : Advance(r) \/ ComeToRest(r) \/ FailRun(r) \/ Resume(r)

LifecycleSpec == LifecycleInit /\ [][LifecycleNext]_phase
=============================================================================
