------------------------------- MODULE DemoEpoch -------------------------------
(***************************************************************************)
(* A game of the landing page: a TEE in the browser (web/lib/demo-tee.ts), *)
(* the hook that drives it (web/lib/use-demo-epoch.ts) and the component   *)
(* of one of three games (DiceDemo, RouletteDemo, CoinflipDemo).           *)
(*                                                                         *)
(* The TEE is built by three dynamic imports, once for the life of the     *)
(* page's modules; a component comes and goes.  The hook awaits the build  *)
(* and the animation of a play, and clicks go on in between: the buttons   *)
(* are only aria-disabled.  Draws are any the game has: they follow from   *)
(* seeds the player does not know.  The demo's own SDK is external.        *)
(*                                                                         *)
(* The strip of the roulette is drawn by a transform in pixels, written    *)
(* when it comes to rest and for the width the window has then; the size   *)
(* of its cells follows the window ever after.                             *)
(***************************************************************************)
EXTENDS DemoGames

CONSTANTS
  Null,      \* nothing
  MaxPlays,  \* plays of an epoch, 10 in the code
  MaxEpochs  \* bound: epochs the page opens

ASSUME DemoAssumption ==
  /\ MaxPlays \in Nat \ {0} /\ MaxEpochs \in Nat \ {0}
  /\ Null \notin DiceRules /\ Null \notin {"roulette", "coinflip"}

VARIABLES
  game,     \* the component: "dice", "roulette" or "coinflip"
  geometry, \* the window: the pitch and width of a cell of the strip in it
  promise,  \* pending.get(config.key): none, building, resolved, rejected
  tee,      \* the SDK's ReferenceTee: its epoch and the receipts of it
  handle,   \* the closure of build: open, epoch, plays, signed, played, reveal
  page      \* refs and state of the mounted component

demoVars == <<game, geometry, promise, tee, handle, page>>

-----------------------------------------------------------------------------
Draws ==
  CASE game = "dice" -> 0..MaxDraw [] game = "roulette" -> 0..(PocketCount - 1)
    [] game = "coinflip" -> {0, 1}

Bytes == IF game = "dice" THEN {0} ELSE SigBytes

\* EpochView
Snapshot(h) == [open |-> h.open, epoch |-> h.epoch, plays |-> h.plays, reveal |-> h.reveal]

NoHandle ==
  [open |-> FALSE, epoch |-> 0, plays |-> <<>>, signed |-> <<>>, played |-> <<>>,
   reveal |-> Null]

\* Bug: keeps the rules of the epoch before.
OpenedKeepingRules(h) ==
  [h EXCEPT !.open = TRUE, !.epoch = @ + 1, !.plays = <<>>, !.signed = <<>>, !.reveal = Null]

\* openEpoch: the three lists start over together. It returns at once on an open
\* epoch, which is never the case here: build has none, and NextEpoch's view is the
\* handle's (ViewIsCurrent).
Opened(h) ==
  [h EXCEPT !.open = TRUE, !.epoch = @ + 1, !.plays = <<>>, !.signed = <<>>,
            !.played = <<>>, !.reveal = Null]

\* applyRest: the transform of the strip, for the window of now. That it was for this
\* window is not kept by the code: only properties read it.
AppliedRest(p) ==
  [p EXCEPT !.drawn = [x |-> TranslateX(p.rest, p.jitter, geometry.pitch, geometry.width),
                       geometry |-> geometry]]

\* The cell under the marker, for the window of now.
CellMarked(p) == CellUnderMarker(p.drawn.x, geometry.pitch, geometry.width)

\* A component just mounted; its defaults are the first target and "over".
Mounted ==
  LET p == [teeRef |-> FALSE, arming |-> FALSE, waiting |-> Null, busy |-> FALSE,
            anim |-> Null, phase |-> "cold", view |-> Null, last |-> Null,
            selection |-> [target |-> 1, mode |-> "over"], rolledWith |-> Null,
            rest |-> IF game = "roulette" THEN InitialCell ELSE 0, jitter |-> 0,
            drawn |-> Null]
  IN  IF game = "roulette" THEN AppliedRest(p) ELSE p

\* The window crosses the breakpoint: the cells change size, and nothing else does.
\* The coin turns and the hand's place is a percentage, so only the strip can tell.
Resize ==
  /\ game = "roulette"
  /\ geometry' \in Geometries \ {geometry}
  /\ UNCHANGED <<game, promise, tee, handle, page>>

\* The component goes and comes back: its refs and state start over, its animation
\* is cancelled, its awaits find aliveRef false. The TEE goes on.
Remount ==
  /\ page' = Mounted
  /\ UNCHANGED <<game, geometry, promise, tee, handle>>

-----------------------------------------------------------------------------
(* Building the TEE *)

\* arm up to its await, on the way into view or from play.
Arming(p) ==
  [p EXCEPT !.arming = TRUE, !.phase = IF @ = "cold" THEN "arming" ELSE @]

EnsureTee == promise' = IF promise = "none" THEN "building" ELSE promise

ScrolledIntoView ==
  /\ ~page.teeRef /\ ~page.arming
  /\ page' = Arming(page)
  /\ EnsureTee
  /\ UNCHANGED <<game, geometry, tee, handle>>

\* build: the imports arrive and the first epoch opens.
Built ==
  /\ promise = "building"
  /\ promise' = "resolved"
  /\ handle' = Opened(handle)
  /\ tee' = [epoch |-> 1, receipts |-> <<>>]
  /\ UNCHANGED <<game, geometry, page>>

\* An import fails; the rejected promise stays in the Map.
BuildFails ==
  /\ promise = "building"
  /\ promise' = "rejected"
  /\ UNCHANGED <<game, geometry, tee, handle, page>>

\* Bug: shows the error and keeps the lock.
ArmFailsLocked ==
  /\ page.arming /\ promise = "rejected"
  /\ page' = [page EXCEPT !.arming = FALSE, !.waiting = Null, !.phase = "error"]
  /\ UNCHANGED <<game, geometry, promise, tee, handle>>

\* The error, and no handle for a play that waited.
ArmFails ==
  /\ page.arming /\ promise = "rejected"
  /\ page' = [page EXCEPT !.arming = FALSE, !.waiting = Null, !.busy = FALSE,
                          !.phase = "error"]
  /\ UNCHANGED <<game, geometry, promise, tee, handle>>

-----------------------------------------------------------------------------
(* Playing *)

\* The rule a click plays under: the dice's is built from the selection.
RuleOf(p) == IF game = "dice" THEN p.selection ELSE game

\* onRoll notes the selection before it knows whether the roll happens.
Clicked == IF game = "dice" THEN [page EXCEPT !.rolledWith = page.selection] ELSE page

\* The target of the animation: a cell, an angle or the draw itself.
TargetOf(draw, byte) ==
  CASE game = "dice" -> draw [] game = "roulette" -> SpinTarget(page.rest, draw)
    [] game = "coinflip" -> FlipTarget(page.rest, draw, byte)

\* park: where the game comes to rest; a jitter that shows another pocket goes.
Parked(p, target, byte, draw) ==
  CASE game = "dice" -> [p EXCEPT !.rest = target]
    [] game = "coinflip" -> [p EXCEPT !.rest = RestAfterFlip(target)]
    [] game = "roulette" ->
         LET at == AppliedRest([p EXCEPT !.rest = RestAfterSettle(target),
                                         !.jitter = Jitter(byte)])
         IN  IF PocketAtCell(CellMarked(at)) = draw THEN at
             ELSE AppliedRest([at EXCEPT !.jitter = 0])

\* After the animation: the lock goes, and the page shows the receipt.
Settled(p, h, record) ==
  [p EXCEPT !.busy = FALSE, !.anim = Null, !.last = record, !.view = Snapshot(h),
            !.phase = "settled"]

Playable == handle.open /\ Len(handle.plays) < MaxPlays

\* animate: an animation to await; with reduced motion the game is there at once.
Animated(p, h, record, byte) ==
  LET target == TargetOf(record.draw, byte)
  IN  \/ page' = [p EXCEPT !.anim = [record |-> record, target |-> target, byte |-> byte]]
      \/ page' = Settled(Parked(p, target, byte, record.draw), h, record)

\* handle.play, and the start of the animation.
Plays(p, rule) ==
  \E draw \in Draws, byte \in Bytes :
    LET record == [bet |-> Len(tee.receipts), draw |-> draw, rule |-> rule]
        h == [handle EXCEPT !.plays = Append(@, record), !.signed = Append(@, record),
                            !.played = Append(@, rule)]
    IN  /\ tee' = [tee EXCEPT !.receipts = Append(@, record)]
        /\ handle' = h
        /\ Animated([p EXCEPT !.waiting = Null, !.busy = TRUE, !.phase = "playing",
                              !.last = Null], h, record, byte)
        /\ UNCHANGED <<game, geometry, promise>>

\* A play that finds the epoch full or closed only refreshes the view.
Refused(p) ==
  /\ page' = [p EXCEPT !.waiting = Null, !.busy = FALSE, !.view = Snapshot(handle)]
  /\ UNCHANGED <<game, geometry, promise, tee, handle>>

\* The epoch the page knows of is closed.
Closed == page.view # Null /\ ~page.view.open

\* What the main button of a demo does. (It is never disabled, only greyed.)
MainButton == IF Closed THEN "nextEpoch" ELSE "play"

ClickPlay ==
  /\ MainButton = "play" /\ ~page.busy /\ page.teeRef
  /\ IF Playable THEN Plays(Clicked, RuleOf(page)) ELSE Refused(Clicked)

\* The first click comes before the TEE: the play waits for arm.
ClickPlayEarly ==
  /\ MainButton = "play" /\ ~page.busy /\ ~page.teeRef
  /\ page' = Arming([Clicked EXCEPT !.busy = TRUE, !.waiting = RuleOf(page)])
  /\ EnsureTee
  /\ UNCHANGED <<game, geometry, tee, handle>>

ClickPlayBusy ==
  /\ MainButton = "play" /\ page.busy
  /\ page' = Clicked
  /\ UNCHANGED <<game, geometry, promise, tee, handle>>

\* The TEE is there: show it, and go on with the play that waited for it, before any
\* other click.
Armed ==
  LET p == [page EXCEPT !.arming = FALSE, !.teeRef = TRUE, !.view = Snapshot(handle),
                        !.phase = IF @ = "revealed" THEN @ ELSE "ready"]
  IN  /\ page.arming /\ promise = "resolved"
      /\ IF p.waiting = Null THEN page' = p /\ UNCHANGED <<game, geometry, promise, tee, handle>>
         ELSE IF Playable THEN Plays(p, p.waiting) ELSE Refused(p)

\* Bug: settles on the view from before the play.
AnimationEndsStale ==
  /\ page.anim # Null
  /\ page' = [Settled(Parked(page, page.anim.target, page.anim.byte, page.anim.record.draw),
                      handle, page.anim.record) EXCEPT !.view = page.view]
  /\ UNCHANGED <<game, geometry, promise, tee, handle>>

AnimationEnds ==
  /\ page.anim # Null
  /\ page' = Settled(Parked(page, page.anim.target, page.anim.byte, page.anim.record.draw),
                     handle, page.anim.record)
  /\ UNCHANGED <<game, geometry, promise, tee, handle>>

\* A direction, or a place on the slider.
Select ==
  /\ game = "dice"
  /\ \E percent \in 0..(MaxTarget + 1), mode \in Modes :
       page' = [page EXCEPT !.selection = [target |-> ClampTarget(percent), mode |-> mode]]
  /\ UNCHANGED <<game, geometry, promise, tee, handle>>

-----------------------------------------------------------------------------
(* Reveal *)

\* Three of the four checks: the commitment, the outcome under the rule at the same
\* place, and the leaves under the root of what the TEE closed. The fourth, the
\* signature of each receipt, is the SDK's.
Checks ==
  [commit |-> tee.epoch = handle.epoch,
   outcome |-> \A i \in DOMAIN handle.signed : handle.signed[i].rule = handle.played[i],
   merkle |-> handle.signed = tee.receipts]

Reveal ==
  /\ ~page.busy /\ page.teeRef /\ handle.open /\ handle.plays # <<>>
  /\ handle' = [handle EXCEPT !.open = FALSE, !.reveal = Checks]
  /\ page' = [page EXCEPT !.view = Snapshot(handle'), !.phase = "revealed"]
  /\ UNCHANGED <<game, geometry, promise, tee>>

\* The main button, on a closed epoch.
NextEpoch ==
  /\ MainButton = "nextEpoch" /\ ~page.busy /\ page.teeRef
  /\ handle.epoch < MaxEpochs
  /\ handle' = Opened(handle)
  /\ tee' = [epoch |-> tee.epoch + 1, receipts |-> <<>>]
  /\ page' = [page EXCEPT !.view = Snapshot(handle'), !.last = Null, !.phase = "ready"]
  /\ UNCHANGED <<game, geometry, promise>>

\* What ProofPanel says of the epoch on view, once it is revealed: how many plays,
\* under which rules, and a verdict per check.
ProofPanel ==
  IF page.view = Null \/ page.view.reveal = Null THEN Null
  ELSE [plays |-> Len(page.view.plays),
        rules |-> {page.view.plays[i].rule : i \in DOMAIN page.view.plays},
        checks |-> page.view.reveal]

-----------------------------------------------------------------------------
DemoInit ==
  /\ game \in {"dice", "roulette", "coinflip"}
  /\ geometry \in Geometries
  /\ promise = "none"
  /\ tee = [epoch |-> 0, receipts |-> <<>>]
  /\ handle = NoHandle
  /\ page = Mounted

DemoNext ==
  \/ Remount \/ Resize \/ ScrolledIntoView \/ Built \/ BuildFails \/ Armed
  \/ ArmFails \/ ClickPlay \/ ClickPlayEarly \/ ClickPlayBusy \/ AnimationEnds
  \/ Select \/ Reveal \/ NextEpoch

DemoSpec == DemoInit /\ [][DemoNext]_demoVars

\* Imports arrive or fail, microtasks run, and an animation that is not cancelled
\* ends.
DemoFairSpec ==
  /\ DemoSpec
  /\ WF_demoVars(Built \/ BuildFails) /\ WF_demoVars(Armed \/ ArmFails)
  /\ WF_demoVars(AnimationEnds)

-----------------------------------------------------------------------------
(* Properties *)

\* "The pixels must agree with the receipt": whatever the hand, the coin or the strip
\* started from, what it shows next to a result is the draw of that receipt; the strip
\* does while the window has the width it was parked at, whatever width that is, and
\* however often the window changed during the spin or since. And the strip is long
\* enough for the spin (spinTarget, park, applyRest).
PixelsAgreeWithReceipt ==
  /\ page.last # Null =>
       CASE game = "dice" -> page.rest = page.last.draw
         [] game = "coinflip" -> FaceUpAt(page.rest) = FaceOf(page.last.draw)
         [] game = "roulette" ->
              geometry = page.drawn.geometry =>
                /\ CellMarked(page) \in DOMAIN Strip
                /\ Strip[CellMarked(page)] = page.last.draw
  /\ game = "roulette" /\ page.anim # Null => page.anim.target \in DOMAIN Strip

\* Every epoch reveals all green, and the panel speaks of the plays and rules the TEE
\* signed in it: the lists the reveal lines up by index belong to the epoch the TEE
\* closes, whatever was clicked on the way (openEpoch, reveal, ProofPanel).
EveryRevealIsGreen ==
  ProofPanel # Null =>
    /\ \A check \in DOMAIN ProofPanel.checks : ProofPanel.checks[check]
    /\ ProofPanel.plays = Len(tee.receipts)
    /\ ProofPanel.rules = {tee.receipts[i].rule : i \in DOMAIN tee.receipts}

\* When nothing is in flight the page shows the TEE as it is, also after the
\* component was away while an epoch was played (useDemoEpoch).
ViewIsCurrent == page.teeRef /\ ~page.busy => page.view = Snapshot(handle)

\* Over all draws a rule pays back its return to player, rounded down, and some draw
\* wins, at both ends of the slider and in both directions (winCount, payoutBp).
PaysWithinRtp ==
  \A i \in DOMAIN handle.played :
    game = "dice" =>
      LET rule == handle.played[i]
          wins == Cardinality({d \in 0..MaxDraw : IsHit(d, rule)})
      IN  /\ wins > 0
          /\ wins * DicePayout(rule) <= RtpBp * Outcomes
          /\ wins * (DicePayout(rule) + 1) > RtpBp * Outcomes

\* The lock of useDemoEpoch is let go of: a play that waits for the TEE, is refused,
\* or animates, leaves the buttons working.
LockIsReleased == page.busy ~> ~page.busy

\* Does not hold, after a click that rolled nothing: "the reading only stands while
\* the selection still matches the receipt".
ReadingMatchesReceipt ==
  (game = "dice" /\ page.last # Null /\ page.rolledWith = page.selection)
    => page.last.rule = page.selection

\* Does not hold, once the window crosses the breakpoint: "The pixels must agree with
\* the receipt, always". Nothing writes the transform again when the cells change size.
PixelsAlwaysAgree ==
  game = "roulette" /\ page.last # Null => PocketAtCell(CellMarked(page)) = page.last.draw

=============================================================================
