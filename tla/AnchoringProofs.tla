---------------------------- MODULE AnchoringProofs ----------------------------
(***************************************************************************)
(* Proofs about Anchoring: the epoch engine keeps its invariant under the  *)
(* script, and what the contract holds is what the engine closed.          *)
(***************************************************************************)
EXTENDS Anchoring, EpochEngineProofs

-----------------------------------------------------------------------------
(* The inductive invariant *)

Stages == {"idle", "next", "commit", "anchor"}

Progress == [stage: Stages, at: Nat, last: Nat]

\* A run works through epochs that exist, and writes to the contract only what it
\* has read of a closed one.
ScriptInv(s, es) ==
  /\ s \in Progress
  /\ s.last <= Len(es)
  /\ s.stage = "next" => s.at > 0
  /\ s.stage \in {"commit", "anchor"} => s.at \in DOMAIN es /\ es[s.at].closed

\* An anchored close is the row of a closed epoch, under its commitment.
AnchoredInv(rec, es) ==
  /\ DOMAIN rec = 1..MaxEpochs
  /\ \A e \in 1..MaxEpochs : rec[e].close # Null =>
       /\ e \in DOMAIN es /\ es[e].closed
       /\ rec[e].commit = es[e].seed
       /\ rec[e].close = [seed |-> es[e].seed, root |-> es[e].root, count |-> es[e].count]

AInv == IInv /\ ScriptInv(script, epochs) /\ AnchoredInv(records, epochs)

\* What a run's state is after it moves to another stage of the same epoch.
LEMMA StageChange ==
  ASSUME NEW s \in Progress, NEW g \in Stages
  PROVE  /\ [s EXCEPT !.stage = g] \in Progress
         /\ [s EXCEPT !.stage = g].stage = g
         /\ [s EXCEPT !.stage = g].at = s.at
         /\ [s EXCEPT !.stage = g].last = s.last
BY DEF Progress

\* A run that goes on to the next epoch keeps what it read last.
LEMMA ToNextIs ==
  ASSUME script \in Progress
  PROVE  /\ ToNext \in Progress /\ ToNext.stage = "next"
         /\ ToNext.at = script.at + 1 /\ ToNext.last = script.last
BY DEF ToNext, Progress, Stages

-----------------------------------------------------------------------------
(* Steps of the engine *)

\* Every step of the composition is a step of the engine, or leaves it alone.
LEMMA StepOfEngine == AInv /\ [AnchoringNext]_anchorVars => [Next]_vars
<1> SUFFICES ASSUME AInv, [AnchoringNext]_anchorVars PROVE [Next]_vars
  OBVIOUS
<1>1. Null \in Asked
  BY DEF Asked
<1>2. CASE EngineStep
  BY <1>1, <1>2 DEF EngineStep, Next
<1>3. CASE ScriptStarts
  BY <1>3 DEF ScriptStarts, Next
<1>4. ASSUME ScriptReads PROVE [Next]_vars
  <2>1. script.stage = "next" /\ script.at <= script.last
    BY <1>4 DEF ScriptReads, AtEpoch
  <2>2. script.at \in Nat /\ script.at > 0 /\ script.last \in Nat /\ script.last <= Len(epochs)
    BY <2>1 DEF AInv, ScriptInv, Progress
  <2>3. epochs \in Seq(EpochRow)
    BY DEF AInv, IInv, Tables
  <2>4. script.at \in DOMAIN epochs
    BY <2>1, <2>2, <2>3
  <2> QED
    BY <1>4, <2>4 DEF ScriptReads, Next
<1>5. ScriptSkips \/ ScriptCommits \/ ScriptAnchors \/ ScriptEnds \/ ScriptDies
        \/ AnchoredElsewhere \/ (\E e \in DOMAIN epochs : ScriptStartsFor(e))
        \/ UNCHANGED anchorVars
        => UNCHANGED vars
  BY DEF ScriptSkips, ScriptCommits, ScriptAnchors, ScriptEnds, ScriptDies,
         AnchoredElsewhere, ScriptStartsFor, anchorVars
<1> QED
  BY <1>2, <1>3, <1>4, <1>5 DEF AnchoringNext, AloneNext, ScriptStep

\* A step of the engine keeps the rows of closed epochs, and how many there are.
LEMMA EngineKeepsClosed ==
  ASSUME IInv, [Next]_vars
  PROVE  /\ IInv' /\ KeepsClosed(epochs, epochs')
         /\ Len(epochs) \in Nat /\ Len(epochs') \in Nat /\ Len(epochs) <= Len(epochs')
         /\ DOMAIN epochs = 1..Len(epochs) /\ DOMAIN epochs' = 1..Len(epochs')
<1>1. IInv'
  BY NextIInv
<1>2. KeepsClosed(epochs, epochs')
  BY NextTables DEF TablesStep
<1>3. /\ Len(epochs) \in Nat /\ DOMAIN epochs = 1..Len(epochs)
      /\ Len(epochs') \in Nat /\ DOMAIN epochs' = 1..Len(epochs')
  BY <1>1 DEF IInv, Tables
<1>4. Len(epochs) <= Len(epochs')
  BY <1>2, <1>3 DEF KeepsClosed
<1> QED
  BY <1>1, <1>2, <1>3, <1>4

\* Both parts of the invariant survive what the engine does on its own.
LEMMA EngineKeepsParts ==
  ASSUME IInv, [Next]_vars
  PROVE  /\ ScriptInv(script, epochs) => ScriptInv(script, epochs')
         /\ AnchoredInv(records, epochs) => AnchoredInv(records, epochs')
<1>1. /\ KeepsClosed(epochs, epochs') /\ Len(epochs) <= Len(epochs')
      /\ Len(epochs) \in Nat /\ Len(epochs') \in Nat
  BY EngineKeepsClosed
<1>2. ScriptInv(script, epochs) => ScriptInv(script, epochs')
  BY <1>1 DEF ScriptInv, Progress, KeepsClosed
<1>3. AnchoredInv(records, epochs) => AnchoredInv(records, epochs')
  BY <1>1 DEF AnchoredInv, KeepsClosed
<1> QED
  BY <1>2, <1>3

-----------------------------------------------------------------------------
(* Steps of the script and of the contract *)

\* A transaction that commits or anchors a closed epoch.
LEMMA TransactionKeepsAnchored ==
  ASSUME IInv, AnchoredInv(records, epochs), NEW e \in DOMAIN epochs, epochs[e].closed,
         CommitEpoch(e) \/ AnchorEpoch(e)
  PROVE  AnchoredInv(records', epochs)
<1>1. epochs[e].seed # Null
  BY NullAssumption DEF IInv, Tables, EpochRow
<1>2. CASE CommitEpoch(e)
  <2>1. ~(e \in 1..MaxEpochs /\ records[e].close # Null)
    BY <1>1, <1>2 DEF CommitEpoch, AnchoredInv
  <2>2. DOMAIN records' = 1..MaxEpochs
    BY <1>2 DEF CommitEpoch, AnchoredInv
  <2>3. \A d \in 1..MaxEpochs : d # e => records'[d] = records[d]
    BY <1>2 DEF CommitEpoch, AnchoredInv
  <2>4. e \in 1..MaxEpochs => records'[e].close = records[e].close
    BY <1>2 DEF CommitEpoch, AnchoredInv
  <2> QED
    BY <2>1, <2>2, <2>3, <2>4 DEF AnchoredInv
<1>3. CASE AnchorEpoch(e)
  <2>1. DOMAIN records' = 1..MaxEpochs
    BY <1>3 DEF AnchorEpoch, AnchoredInv
  <2>2. \A d \in 1..MaxEpochs : d # e => records'[d] = records[d]
    BY <1>3 DEF AnchorEpoch, AnchoredInv
  <2>3. e \in 1..MaxEpochs => records'[e] = [commit |-> epochs[e].seed, close |-> CloseOf(e)]
    BY <1>3 DEF AnchorEpoch, AnchoredInv
  <2> QED
    BY <2>1, <2>2, <2>3 DEF AnchoredInv, CloseOf
<1> QED
  BY <1>2, <1>3

\* Every record that is anchored holds the close of its epoch, after every step.
LEMMA NextAnchored ==
  ASSUME AInv, [AnchoringNext]_anchorVars
  PROVE  AnchoredInv(records', epochs')
<1>1. [Next]_vars /\ IInv /\ AnchoredInv(records, epochs)
  BY StepOfEngine DEF AInv
<1>2. CASE UNCHANGED records
  BY <1>1, <1>2, EngineKeepsParts
<1>3. CASE ScriptCommits \/ ScriptAnchors
  <2>1. UNCHANGED epochs /\ (CommitEpoch(script.at) \/ AnchorEpoch(script.at))
    BY <1>3 DEF ScriptCommits, ScriptAnchors, vars
  <2>2. script.at \in DOMAIN epochs /\ epochs[script.at].closed
    BY <1>3 DEF ScriptCommits, ScriptAnchors, AInv, ScriptInv
  <2> QED
    BY <1>1, <2>1, <2>2, TransactionKeepsAnchored
<1>4. CASE AnchoredElsewhere
  <2>1. UNCHANGED epochs
    BY <1>4 DEF AnchoredElsewhere, vars
  <2>2. PICK e \in published : CommitEpoch(e) \/ AnchorEpoch(e)
    BY <1>4 DEF AnchoredElsewhere
  <2>3. e \in DOMAIN epochs /\ epochs[e].closed
    BY <1>1 DEF IInv, Memory
  <2> QED
    BY <1>1, <2>1, <2>2, <2>3, TransactionKeepsAnchored
<1>5. ScriptStarts \/ ScriptReads \/ ScriptSkips \/ ScriptEnds \/ ScriptDies
        \/ (\E e \in DOMAIN epochs : ScriptStartsFor(e))
        \/ (EngineStep /\ UNCHANGED <<records, script, failures>>)
        \/ UNCHANGED anchorVars
        => UNCHANGED records
  BY DEF ScriptStarts, ScriptReads, ScriptSkips, ScriptEnds, ScriptDies, ScriptStartsFor,
         anchorVars
<1> QED
  BY <1>2, <1>3, <1>4, <1>5 DEF AnchoringNext, AloneNext, ScriptStep

\* What a run read of its epoch is still so after every step.
LEMMA NextScript ==
  ASSUME AInv, [AnchoringNext]_anchorVars
  PROVE  ScriptInv(script', epochs')
<1>1. [Next]_vars /\ IInv /\ ScriptInv(script, epochs) /\ script \in Progress
  BY StepOfEngine DEF AInv, ScriptInv
<1>2. /\ Len(epochs) \in Nat /\ Len(epochs') \in Nat /\ Len(epochs) <= Len(epochs')
      /\ KeepsClosed(epochs, epochs') /\ IInv'
      /\ DOMAIN epochs = 1..Len(epochs) /\ DOMAIN epochs' = 1..Len(epochs')
  BY <1>1, EngineKeepsClosed
<1>3. CASE UNCHANGED script
  BY <1>1, <1>3, EngineKeepsParts
<1>4. CASE script' = NoRun
  BY <1>2, <1>4 DEF NoRun, ScriptInv, Progress, Stages
<1>5. ASSUME script' = ToNext PROVE ScriptInv(script', epochs')
  <2>1. ToNext.stage = "next" /\ ToNext.at > 0
    BY <1>1, ToNextIs DEF Progress
  <2> QED
    BY <1>1, <1>2, <1>5, <2>1, ToNextIs DEF ScriptInv, Progress
<1>6. ASSUME NEW g \in {"commit", "anchor"}, script' = [script EXCEPT !.stage = g],
             script.at \in DOMAIN epochs', epochs'[script.at].closed
      PROVE  ScriptInv(script', epochs')
  <2>1. g \in Stages /\ g # "next"
    BY DEF Stages
  <2>2. /\ script' \in Progress /\ script'.stage = g
        /\ script'.at = script.at /\ script'.last = script.last
    BY <1>1, <1>6, <2>1, StageChange
  <2> QED
    BY <1>1, <1>2, <1>6, <2>1, <2>2 DEF ScriptInv, Progress
<1>7. ASSUME ScriptStarts PROVE ScriptInv(script', epochs')
  <2>1. OpenIds(epochs') # {}
    <3>1. epochs' = Ensure(epochs)
      BY <1>7 DEF ScriptStarts, Current
    <3>2. OpenIds(Ensure(epochs)) = {Len(Ensure(epochs))}
      BY <1>1, EnsureOpensLast DEF IInv, Tables, Process
    <3> QED
      BY <3>1, <3>2
  <2>2. OpenIds(epochs') = {Len(epochs')} /\ Len(epochs') \in Nat \ {0}
    BY <1>2, <2>1 DEF IInv, Tables, OpenIds
  <2>3. OpenEpoch(epochs') = Len(epochs')
    BY <2>2, MaxSingleton DEF OpenEpoch
  <2>4. script' = [stage |-> "next", at |-> 1, last |-> Len(epochs') - 1]
    BY <1>7, <2>3 DEF ScriptStarts
  <2> QED
    BY <1>2, <2>2, <2>4 DEF ScriptInv, Progress, Stages
<1>8. ASSUME NEW e \in DOMAIN epochs, ScriptStartsFor(e) PROVE ScriptInv(script', epochs')
  <2>1. script' = [stage |-> "next", at |-> e, last |-> e] /\ e \in 1..Len(epochs)
    BY <1>2, <1>8 DEF ScriptStartsFor
  <2> QED
    BY <1>2, <2>1 DEF ScriptInv, Progress, Stages
<1>9. ASSUME ScriptReads PROVE ScriptInv(script', epochs')
  <2>1. /\ UNCHANGED epochs /\ epochs[script.at].closed
        /\ script.stage = "next" /\ script.at <= script.last
    BY <1>9 DEF ScriptReads, Publish, AtEpoch, tables
  <2>2. script.at \in DOMAIN epochs
    BY <1>1, <1>2, <2>1 DEF ScriptInv, Progress
  <2>3. script' = ToNext \/ \E g \in {"commit", "anchor"} : script' = [script EXCEPT !.stage = g]
    BY <1>9 DEF ScriptReads
  <2> QED
    BY <1>5, <1>6, <2>1, <2>2, <2>3
<1>10. ASSUME ScriptCommits PROVE ScriptInv(script', epochs')
  <2>1. UNCHANGED epochs /\ script.stage = "commit" /\ script' = [script EXCEPT !.stage = "anchor"]
    BY <1>10 DEF ScriptCommits, vars
  <2>2. script.at \in DOMAIN epochs /\ epochs[script.at].closed
    BY <1>1, <2>1 DEF ScriptInv
  <2> QED
    BY <1>6, <2>1, <2>2
<1>11. /\ ScriptSkips \/ ScriptAnchors => script' = ToNext
       /\ ScriptEnds \/ ScriptDies => script' = NoRun
       /\ AnchoredElsewhere \/ (EngineStep /\ UNCHANGED <<records, script, failures>>)
            \/ UNCHANGED anchorVars => UNCHANGED script
  BY DEF ScriptSkips, ScriptAnchors, ScriptEnds, ScriptDies, AnchoredElsewhere, anchorVars
<1> QED
  BY <1>3, <1>4, <1>5, <1>7, <1>8, <1>9, <1>10, <1>11
     DEF AnchoringNext, AloneNext, ScriptStep

\* The invariant holds in every reachable state.
LEMMA SpecAInv == AnchoringSpec => []AInv
<1>1. AnchoringInit => AInv
  <2> SUFFICES ASSUME AnchoringInit PROVE AInv
    OBVIOUS
  <2>1. IInv /\ epochs = <<>>
    BY InitIInv DEF AnchoringInit, Init
  <2>2. ScriptInv(script, epochs)
    BY <2>1 DEF AnchoringInit, NoRun, ScriptInv, Progress, Stages
  <2>3. AnchoredInv(records, epochs)
    BY DEF AnchoringInit, NoRecord, AnchoredInv
  <2> QED
    BY <2>1, <2>2, <2>3 DEF AInv
<1>2. AInv /\ [AnchoringNext]_anchorVars => AInv'
  <2> SUFFICES ASSUME AInv, [AnchoringNext]_anchorVars PROVE AInv'
    OBVIOUS
  <2>1. IInv'
    BY StepOfEngine, NextIInv DEF AInv
  <2> QED
    BY <2>1, NextAnchored, NextScript DEF AInv
<1> QED
  BY <1>1, <1>2, PTL DEF AnchoringSpec

-----------------------------------------------------------------------------
(* Theorems *)

\* The script and its rivals only read the server: with them around, the engine
\* still does nothing but its own steps, so that every theorem about it holds here
\* (anchor.mjs calls GET /epochs/current and GET /epochs/:id alone).
THEOREM AnchoringKeepsEngine == AnchoringSpec => Spec
<1>1. AnchoringInit => Init
  BY DEF AnchoringInit
<1> QED
  BY <1>1, SpecAInv, StepOfEngine, PTL DEF AnchoringSpec, Spec

\* What is anchored is the epoch as it was sealed, whoever sent the transactions and
\* whatever came between them (anchorEpoch, anchor.mjs).
THEOREM AnchoredAsClosed == AnchoringSpec => []AnchorIsTheClose
<1>1. AInv => AnchorIsTheClose
  <2> SUFFICES ASSUME AInv, NEW e \in 1..MaxEpochs, records[e].close # Null
               PROVE  /\ e \in DOMAIN epochs /\ epochs[e].closed
                      /\ records[e].commit = epochs[e].seed
                      /\ records[e].close.root = LeavesOf(receipts, e)
                      /\ records[e].close.count = Cardinality(RowsOf(receipts, e))
    BY DEF AnchorIsTheClose
  <2>1. /\ e \in DOMAIN epochs /\ epochs[e].closed
        /\ records[e].commit = epochs[e].seed
        /\ records[e].close = CloseOf(e)
    BY DEF AInv, AnchoredInv, CloseOf
  <2>2. /\ epochs[e].root = LeavesOf(receipts, e)
        /\ epochs[e].count = Cardinality(RowsOf(receipts, e))
    BY <2>1 DEF AInv, IInv, Tables
  <2>3. CloseOf(e).root = epochs[e].root /\ CloseOf(e).count = epochs[e].count
    BY DEF CloseOf
  <2> QED
    BY <2>1, <2>2, <2>3
<1> QED
  BY <1>1, SpecAInv, PTL

=============================================================================
