------------------------------- MODULE DemoGames -------------------------------
(***************************************************************************)
(* The arithmetic of the three games on the landing page: the rules they   *)
(* play under (web/lib/dice.ts, roulette.ts, coinflip.ts) and where the    *)
(* hand, the strip and the coin come to rest.  A cell of the strip is 1000 *)
(* units, so that jitter and pixels are integers.                          *)
(***************************************************************************)
EXTENDS Integers, Sequences, FiniteSets

CONSTANTS
  MaxTarget,  \* largest target of the dice, 99 in the code
  Unit,       \* outcomes per percent, 100 in the code
  SigBytes    \* last bytes a signature may have

ASSUME GamesAssumption ==
  /\ MaxTarget \in Nat \ {0}
  /\ Unit \in Nat \ {0, 1}
  /\ SigBytes \subseteq 0..255

RtpBp == 9900

\* floor(RTP_BP * outcomes / wins)
PayoutBp(wins, outcomes) == (RtpBp * outcomes) \div wins

-----------------------------------------------------------------------------
(* Dice *)

Modes == {"under", "over"}
Outcomes == (MaxTarget + 1) * Unit
MaxDraw == Outcomes - 1

\* clampTarget of the slider's value, which runs from 0 to MaxTarget + 1.
ClampTarget(percent) ==
  IF percent < 1 THEN 1 ELSE IF percent > MaxTarget THEN MaxTarget ELSE percent

TargetUnits(percent) == ClampTarget(percent) * Unit

\* Bug: counts a roll of exactly the target among the wins of neither side.
WinCountBelow(percent, mode) ==
  IF mode = "over" THEN MaxDraw - TargetUnits(percent) ELSE TargetUnits(percent) - 1

\* winCount: the draws strictly over, or strictly under, the target.
WinCount(percent, mode) ==
  IF mode = "over" THEN MaxDraw - TargetUnits(percent) ELSE TargetUnits(percent)

\* diceRule: its win condition, and what it pays.
IsHit(draw, rule) ==
  IF rule.mode = "over" THEN draw > TargetUnits(rule.target)
  ELSE draw < TargetUnits(rule.target)

DicePayout(rule) == PayoutBp(WinCount(rule.target, rule.mode), Outcomes)

DiceRules == [target: 1..MaxTarget, mode: Modes]

-----------------------------------------------------------------------------
(* Roulette *)

PocketCount == 15
Order == <<0, 1, 8, 2, 9, 3, 10, 4, 11, 5, 12, 6, 13, 7, 14>>
CellCount == 240
BaseCell == 45
InitialCell == 47
Loops == 8

\* SLOT, the inverse of ORDER.
Slot(pocket) == (CHOOSE i \in DOMAIN Order : Order[i] = pocket) - 1

PocketAtCell(cell) == Order[(cell % PocketCount) + 1]

\* jitterFromSignature: up to 300 units to either side.
Jitter(byte) == (600 * byte) \div 255 - 300

\* Bug: takes the pocket's number for its place on the strip.
SpinToNumber(start, pocket) ==
  start + Loops * PocketCount + ((pocket - (start % PocketCount)) % PocketCount)

\* spinTarget: eight turns and then on to the pocket.
SpinTarget(start, pocket) ==
  start + Loops * PocketCount + ((Slot(pocket) - (start % PocketCount)) % PocketCount)

\* The strip the page draws, a cell at a time.
Strip == [cell \in 0..(CellCount - 1) |-> PocketAtCell(cell)]

\* restAfterSettle: the same pocket near the start of the strip.
RestAfterSettle(cell) == BaseCell + (cell % PocketCount)

\* translateXFor and back with cellUnderMarker, rounded: the cell under the marker
\* for a strip of this pitch and cell width.
TranslateX(cell, jitter, pitch, width) == -((1000 * cell + jitter) * pitch + 500 * width)
CellUnderMarker(x, pitch, width) == ((-x - 500 * width) \div pitch + 500) \div 1000

Geometries == {[pitch |-> 66, width |-> 64], [pitch |-> 50, width |-> 48]}

-----------------------------------------------------------------------------
(* Coin flip *)

FaceOf(draw) == IF draw = 1 THEN "heads" ELSE "tails"
FaceUpAt(deg) == IF deg % 360 < 90 \/ deg % 360 >= 270 THEN "heads" ELSE "tails"

\* turnsFromSignature and flipTarget: four to seven turns and on to the face.
FlipTarget(from, draw, byte) ==
  from + (4 + (byte % 4)) * 360 + (((IF draw = 1 THEN 0 ELSE 180) - (from % 360)) % 360)

RestAfterFlip(deg) == deg % 360

=============================================================================
