------------------------------- MODULE Anchoring -------------------------------
(***************************************************************************)
(* Server epochs on the chain: the epoch engine, the anchoring half of     *)
(* ForeseerInstructionSender and the script that cron runs against both    *)
(* (server/scripts/anchor.mjs, DEPLOYMENT.md).                             *)
(*                                                                         *)
(* One instance of the script is followed step by step; it may stop at any *)
(* await.  What a second instance, or anyone who has seen a close, does to *)
(* the contract comes in between.  Proofs change no table and are left     *)
(* out.  A closed epoch never changes, so fetching it and reading its      *)
(* record from the contract are one action.                                *)
(***************************************************************************)
EXTENDS EpochEngine

CONSTANTS
  TeeId,       \* the key whose address is teeId in the contract
  MaxFailures  \* bound: times a run of the script dies of its own

ASSUME TeeIdAssumption == TeeId \in Keys
ASSUME FailuresAssumption == MaxFailures \in Nat

VARIABLES
  records,  \* ForeseerInstructionSender.epochs
  script,   \* the instance of anchor.mjs: its stage, the epoch it is at, the last one
  failures  \* runs of it that died, for MaxFailures

anchorVars == <<vars, records, script, failures>>

NoRun == [stage |-> "idle", at |-> 0, last |-> 0]

\* Seeds stand for their commitments; an anchored record holds the close.
NoRecord == [commit |-> Null, close |-> Null]

CloseOf(e) == [seed |-> epochs[e].seed, root |-> epochs[e].root, count |-> epochs[e].count]

-----------------------------------------------------------------------------
(* The contract *)

\* commitEpoch reverts on a second commitment.
CommitEpoch(e) ==
  /\ records[e].commit = Null
  /\ records' = [records EXCEPT ![e].commit = epochs[e].seed]

\* anchorEpoch: a close signed by teeId, whose seed opens its commitment, which is
\* the one on record if there is one; once per epoch.
MayAnchor(e) ==
  /\ epochs[e].closer = TeeId
  /\ records[e].commit \in {Null, epochs[e].seed}
  /\ records[e].close = Null

AnchorEpoch(e) ==
  /\ MayAnchor(e)
  /\ records' = [records EXCEPT ![e] = [commit |-> epochs[e].seed, close |-> CloseOf(e)]]

\* Another instance of the script, or whoever has fetched the closed epoch.
AnchoredElsewhere ==
  /\ \E e \in published : CommitEpoch(e) \/ AnchorEpoch(e)
  /\ UNCHANGED <<vars, script, failures>>

-----------------------------------------------------------------------------
(* The script *)

\* The health check, and the list of epochs before the current one, which
\* GET /epochs/current opens if it must.
ScriptStarts ==
  /\ script = NoRun
  /\ key = TeeId
  /\ Current
  /\ script' = [stage |-> "next", at |-> 1, last |-> OpenEpoch(epochs') - 1]
  /\ UNCHANGED <<records, failures>>

\* Run by hand for one epoch.
ScriptStartsFor(e) ==
  /\ script = NoRun
  /\ up /\ key = TeeId
  /\ script' = [stage |-> "next", at |-> e, last |-> e]
  /\ UNCHANGED <<vars, records, failures>>

ToNext == [stage |-> "next", at |-> script.at + 1, last |-> script.last]

AtEpoch == script.stage = "next" /\ script.at <= script.last

\* Bug: skips an epoch that has its commitment.
ScriptReadsUncommitted ==
  /\ AtEpoch
  /\ Publish(script.at)
  /\ script' = IF records[script.at].commit # Null THEN ToNext
               ELSE [script EXCEPT !.stage = "commit"]
  /\ UNCHANGED <<records, failures>>

\* GET /epochs/:id, which shows the seed of a closed epoch, and its record.
ScriptReads ==
  /\ AtEpoch
  /\ Publish(script.at)
  /\ script' = IF records[script.at].close # Null THEN ToNext
               ELSE [script EXCEPT !.stage = IF records[script.at].commit = Null
                                             THEN "commit" ELSE "anchor"]
  /\ UNCHANGED <<records, failures>>

\* An epoch that is still open is skipped.
ScriptSkips ==
  /\ AtEpoch
  /\ up /\ ~epochs[script.at].closed
  /\ script' = ToNext
  /\ UNCHANGED <<vars, records, failures>>

ScriptCommits ==
  /\ script.stage = "commit"
  /\ CommitEpoch(script.at)
  /\ script' = [script EXCEPT !.stage = "anchor"]
  /\ UNCHANGED <<vars, failures>>

ScriptAnchors ==
  /\ script.stage = "anchor"
  /\ AnchorEpoch(script.at)
  /\ script' = ToNext
  /\ UNCHANGED <<vars, failures>>

\* What ends a run: its list is through, the server does not answer, or a
\* transaction reverts because another one came first.
Stopped ==
  \/ script.stage = "next" /\ (script.at > script.last \/ ~up)
  \/ script.stage = "commit" /\ records[script.at].commit # Null
  \/ script.stage = "anchor" /\ ~MayAnchor(script.at)

ScriptEnds ==
  /\ Stopped
  /\ script' = NoRun
  /\ UNCHANGED <<vars, records, failures>>

\* Any other failure at an await, or the end of the process. A transaction that
\* goes through all the same is AnchoredElsewhere.
ScriptDies ==
  /\ script # NoRun
  /\ failures < MaxFailures
  /\ failures' = failures + 1
  /\ script' = NoRun
  /\ UNCHANGED <<vars, records>>

-----------------------------------------------------------------------------
AnchoringInit ==
  /\ Init
  /\ records = [e \in 1..MaxEpochs |-> NoRecord]
  /\ script = NoRun
  /\ failures = 0

\* The epoch engine, but for proofs.
EngineStep ==
  \/ \E k \in Keys : Boot(k)
  \/ Crash \/ ClockTick \/ Tick \/ TickFails \/ AdminClose \/ Current
  \/ \E c \in ClientSeeds : Play(c, Null)
  \/ \E e \in DOMAIN epochs : Publish(e)

ScriptStep == ScriptReads \/ ScriptSkips \/ ScriptCommits \/ ScriptAnchors \/ ScriptEnds

\* One instance of the script, on its own.
AloneNext ==
  \/ EngineStep /\ UNCHANGED <<records, script, failures>>
  \/ ScriptStarts
  \/ \E e \in DOMAIN epochs : ScriptStartsFor(e)
  \/ ScriptStep \/ ScriptDies

AnchoringNext == AloneNext \/ AnchoredElsewhere

AloneSpec == AnchoringInit /\ [][AloneNext]_anchorVars

AnchoringSpec == AnchoringInit /\ [][AnchoringNext]_anchorVars

Running(A) == A /\ UNCHANGED <<records, script, failures>>

\* The engine's fairness; a run goes on until it ends or dies; and cron goes on
\* starting the next one, whatever is run by hand in between. No run is owed while
\* no epoch is open, so that none is counted on to open one.
AnchoringFairSpec ==
  /\ AnchoringSpec
  /\ WF_anchorVars(Running(ClockTick))
  /\ WF_anchorVars(Running(Tick))
  /\ WF_anchorVars(Running(\E k \in Keys : Boot(k)))
  /\ WF_anchorVars(ScriptStep)
  /\ SF_anchorVars(OpenIds(epochs) # {} /\ ScriptStarts)

-----------------------------------------------------------------------------
(* Properties *)

\* What is anchored is the epoch as it was sealed, all its receipts and nothing
\* else, whoever submitted it and whatever came between the commitment and the
\* anchor (anchorEpoch, anchor.mjs).
AnchorIsTheClose ==
  \A e \in 1..MaxEpochs : records[e].close # Null =>
    /\ e \in DOMAIN epochs /\ epochs[e].closed
    /\ records[e].commit = epochs[e].seed
    /\ records[e].close.root = LeavesOf(receipts, e)
    /\ records[e].close.count = Cardinality(RowsOf(receipts, e))

Exhausted == OpenIds(epochs) = {} /\ Len(epochs) = MaxEpochs

\* Every closed epoch is eventually anchored, although runs of the script fail
\* between its commitment and its anchor, collide with one another, and find the
\* server down. (Exhausted: the model opens no more epochs.)
ClosedEpochIsAnchored ==
  \A e \in 1..(MaxEpochs - 1) :
    (e \in DOMAIN epochs /\ epochs[e].closed) ~> (records[e].close # Null \/ Exhausted)

\* "Stores the pre-reveal seed commitment for an epoch": no commitment reaches the
\* contract after the seed it commits to has been shown.
CommittedBeforeReveal ==
  [][\A e \in 1..MaxEpochs :
       records'[e].commit # records[e].commit => e \notin published]_anchorVars

=============================================================================
