---------------------------- MODULE DemoEpochProofs ----------------------------
(***************************************************************************)
(* Proofs about DemoGames and DemoEpoch, for any number of targets, of     *)
(* outcomes per percent, of plays and of epochs.                           *)
(***************************************************************************)
EXTENDS DemoEpoch, FiniteSetTheorems, TLAPS

-----------------------------------------------------------------------------
(* Where the strip comes to rest *)

Pockets == 0..14

\* Every pocket has its slot on the strip.
LEMMA SlotOfPocket ==
  ASSUME NEW pocket \in Pockets
  PROVE  Slot(pocket) \in 0..14 /\ Order[Slot(pocket) + 1] = pocket
<1>1. DOMAIN Order = 1..15
  BY DEF Order
<1>2. \E i \in DOMAIN Order : Order[i] = pocket
  <2>1. /\ Order[1] = 0 /\ Order[2] = 1 /\ Order[3] = 8 /\ Order[4] = 2 /\ Order[5] = 9
        /\ Order[6] = 3 /\ Order[7] = 10 /\ Order[8] = 4 /\ Order[9] = 11 /\ Order[10] = 5
        /\ Order[11] = 12 /\ Order[12] = 6 /\ Order[13] = 13 /\ Order[14] = 7 /\ Order[15] = 14
    BY DEF Order
  <2> QED
    BY <1>1, <2>1 DEF Pockets
<1> DEFINE i == CHOOSE i \in DOMAIN Order : Order[i] = pocket
<1>3. i \in 1..15 /\ Order[i] = pocket
  BY <1>1, <1>2
<1> HIDE DEF i
<1>4. i - 1 \in 0..14 /\ (i - 1) + 1 = i
  BY <1>3
<1> QED
  BY <1>3, <1>4 DEF Slot, i

\* A spin goes eight turns and stops at its pocket, within the strip.
LEMMA SpinStops ==
  ASSUME NEW start \in 45..59, NEW pocket \in Pockets
  PROVE  /\ SpinTarget(start, pocket) \in 165..193
         /\ PocketAtCell(SpinTarget(start, pocket)) = pocket
<1> DEFINE slot == Slot(pocket)
           on == (slot - (start % 15)) % 15
           target == start + 120 + on
<1>1. slot \in 0..14 /\ Order[slot + 1] = pocket
  BY SlotOfPocket
<1> HIDE DEF slot
<1>2. start % 15 \in 0..14 /\ on \in 0..14
  BY <1>1
<1>3. target % 15 = slot
  BY <1>1
<1>4. SpinTarget(start, pocket) = target
  BY DEF SpinTarget, Loops, PocketCount, slot
<1>5. target \in 165..193
  BY <1>2
<1> HIDE DEF target
<1> QED
  BY <1>1, <1>3, <1>4, <1>5 DEF PocketAtCell, PocketCount

\* Moved back near the start of the strip it is at the same pocket.
LEMMA RestKeepsPocket ==
  ASSUME NEW cell \in 165..193
  PROVE  RestAfterSettle(cell) \in 45..59 /\ PocketAtCell(RestAfterSettle(cell)) = PocketAtCell(cell)
<1>1. RestAfterSettle(cell) = 45 + (cell % 15)
  BY DEF RestAfterSettle, BaseCell, PocketCount
<1>2. cell % 15 \in 0..14 /\ (45 + (cell % 15)) % 15 = cell % 15
  OBVIOUS
<1> QED
  BY <1>1, <1>2 DEF PocketAtCell, PocketCount

\* The jitter is never half a cell.
LEMMA JitterIsSmall ==
  ASSUME NEW byte \in 0..255
  PROVE  Jitter(byte) \in -300..300
<1>1. (600 * byte) \div 255 \in 0..600
  OBVIOUS
<1> QED
  BY <1>1 DEF Jitter

\* So the marker is over the cell the strip rests at, in the window it was drawn for.
LEMMA MarkerIsOverCell ==
  ASSUME NEW cell \in 45..59, NEW jitter \in -300..300, NEW g \in Geometries
  PROVE  CellUnderMarker(TranslateX(cell, jitter, g.pitch, g.width), g.pitch, g.width) = cell
<1> DEFINE units == 1000 * cell + jitter
<1>0. units \in Int /\ (units + 500) \div 1000 = cell
  OBVIOUS
<1>1. CASE g.pitch = 66 /\ g.width = 64
  <2>1. TranslateX(cell, jitter, 66, 64) = -(units * 66 + 32000)
    BY DEF TranslateX
  <2> HIDE DEF units
  <2>2. -(-(units * 66 + 32000)) - 32000 = units * 66
    BY <1>0
  <2>3. (units * 66) \div 66 = units
    BY <1>0
  <2> QED
    BY <1>0, <1>1, <2>1, <2>2, <2>3 DEF CellUnderMarker
<1>2. CASE g.pitch = 50 /\ g.width = 48
  <2>1. TranslateX(cell, jitter, 50, 48) = -(units * 50 + 24000)
    BY DEF TranslateX
  <2> HIDE DEF units
  <2>2. -(-(units * 50 + 24000)) - 24000 = units * 50
    BY <1>0
  <2>3. (units * 50) \div 50 = units
    BY <1>0
  <2> QED
    BY <1>0, <1>2, <2>1, <2>2, <2>3 DEF CellUnderMarker
<1> QED
  BY <1>1, <1>2 DEF Geometries

-----------------------------------------------------------------------------
(* How the coin lands *)

\* The coin turns on to its face, and lies there.
LEMMA FlipLands ==
  ASSUME NEW from \in 0..359, NEW draw \in {0, 1}, NEW byte \in 0..255
  PROVE  /\ RestAfterFlip(FlipTarget(from, draw, byte)) \in 0..359
         /\ FaceUpAt(RestAfterFlip(FlipTarget(from, draw, byte))) = FaceOf(draw)
<1> DEFINE turns == 4 + (byte % 4)
           face == IF draw = 1 THEN 0 ELSE 180
           on == (face - (from % 360)) % 360
           target == from + turns * 360 + on
<1>1. turns \in 4..7 /\ face \in {0, 180}
  OBVIOUS
<1>2. FlipTarget(from, draw, byte) = target
  BY DEF FlipTarget
<1> HIDE DEF turns, face
<1>3. from % 360 = from
  OBVIOUS
<1>4. target % 360 = face
  <2>1. on = IF face >= from THEN face - from ELSE face - from + 360
    BY <1>1, <1>3
  <2> HIDE DEF on
  <2>2. (from + on) = face \/ (from + on) = face + 360
    BY <1>1, <2>1
  <2>3. on \in Int
    BY <1>1, <2>1
  <2> QED
    BY <1>1, <2>2, <2>3
<1>5. RestAfterFlip(target) = face /\ face % 360 = face
  BY <1>1, <1>4 DEF RestAfterFlip
<1> HIDE DEF target
<1>6. face \in 0..359
  BY <1>1
<1>7. FaceUpAt(face) = FaceOf(draw)
  BY <1>1, <1>5 DEF FaceUpAt, FaceOf, face
<1> QED
  BY <1>2, <1>5, <1>6, <1>7

-----------------------------------------------------------------------------
(* What the dice pay *)

\* Rounding down loses less than one.
LEMMA DivisionRounds ==
  ASSUME NEW a \in Nat, NEW b \in Nat \ {0}
  PROVE  /\ a \div b \in Nat
         /\ b * (a \div b) <= a
         /\ a < b * ((a \div b) + 1)
OBVIOUS

\* As many draws win as the rule is paid for, and some draw does.
LEMMA WinsAreCounted ==
  ASSUME NEW rule \in DiceRules
  PROVE  /\ Cardinality({d \in 0..MaxDraw : IsHit(d, rule)}) = WinCount(rule.target, rule.mode)
         /\ WinCount(rule.target, rule.mode) \in Nat \ {0}
<1> DEFINE units == rule.target * Unit
           hits == {d \in 0..MaxDraw : IsHit(d, rule)}
<1>1. rule.target \in 1..MaxTarget /\ rule.mode \in {"under", "over"}
      /\ MaxTarget \in Nat /\ Unit \in Nat /\ Unit > 1
  BY GamesAssumption DEF DiceRules, Modes
<1>2. TargetUnits(rule.target) = units
  BY <1>1 DEF TargetUnits, ClampTarget
<1>3. units \in Nat /\ units >= Unit /\ units + Unit <= (MaxTarget + 1) * Unit
  <2> DEFINE t == rule.target
  <2>1. t \in Nat /\ t >= 1 /\ t <= MaxTarget
    BY <1>1
  <2> HIDE DEF t
  <2>2. t * Unit >= Unit /\ t * Unit \in Nat
    BY <1>1, <2>1
  <2>3. (MaxTarget + 1) * Unit = MaxTarget * Unit + Unit
    BY <1>1
  <2>4. t * Unit <= MaxTarget * Unit
    BY <1>1, <2>1
  <2> QED
    BY <1>1, <2>2, <2>3, <2>4 DEF t
<1>4. MaxDraw \in Nat /\ MaxDraw - units \in Nat \ {0} /\ MaxDraw > units
  <2> DEFINE all == (MaxTarget + 1) * Unit
  <2>1. MaxDraw = all - 1 /\ all \in Nat
    BY <1>1 DEF MaxDraw, Outcomes
  <2> HIDE DEF all, units
  <2>2. units + Unit <= all
    BY <1>3 DEF all
  <2> QED
    BY <1>1, <1>3, <2>1, <2>2
<1> HIDE DEF units
<1>5. CASE rule.mode = "over"
  <2>1. hits = (units + 1)..MaxDraw
    BY <1>2, <1>3, <1>4, <1>5 DEF IsHit
  <2>2. Cardinality((units + 1)..MaxDraw) = MaxDraw - units
    BY <1>3, <1>4, FS_Interval
  <2> QED
    BY <1>2, <1>4, <1>5, <2>1, <2>2 DEF WinCount
<1>6. CASE rule.mode = "under"
  <2>1. hits = 0..(units - 1)
    BY <1>2, <1>3, <1>4, <1>6 DEF IsHit
  <2>2. Cardinality(0..(units - 1)) = units
    BY <1>1, <1>3, FS_Interval
  <2>3. WinCount(rule.target, rule.mode) = units
    BY <1>2, <1>6 DEF WinCount
  <2>4. units \in Nat \ {0}
    BY <1>1, <1>3
  <2> QED
    BY <2>1, <2>2, <2>3, <2>4
<1> QED
  BY <1>1, <1>5, <1>6

\* A rule pays its return to player, rounded down.
LEMMA DicePaysWithinRtp ==
  ASSUME NEW rule \in DiceRules, NEW wins, wins = Cardinality({d \in 0..MaxDraw : IsHit(d, rule)})
  PROVE  /\ wins > 0
         /\ wins * DicePayout(rule) <= RtpBp * Outcomes
         /\ wins * (DicePayout(rule) + 1) > RtpBp * Outcomes
<1> DEFINE all == RtpBp * Outcomes
           pays == DicePayout(rule)
<1>1. wins \in Nat \ {0} /\ wins = WinCount(rule.target, rule.mode)
  BY WinsAreCounted
<1>2. all \in Nat
  <2>1. Outcomes \in Nat
    BY GamesAssumption DEF Outcomes
  <2> QED
    BY <2>1 DEF RtpBp
<1>3. pays = all \div wins
  BY <1>1 DEF DicePayout, PayoutBp
<1> HIDE DEF all, pays
<1>4. pays \in Nat /\ wins * pays <= all /\ all < wins * (pays + 1)
  BY <1>1, <1>2, <1>3, DivisionRounds
<1>5. wins * (pays + 1) \in Nat
  BY <1>1, <1>4
<1> QED
  BY <1>1, <1>2, <1>4, <1>5 DEF all, pays
-----------------------------------------------------------------------------
(* The TEE and the closure that keeps its lists *)

Games == {"dice", "roulette", "coinflip"}

Rules(g) == IF g = "dice" THEN DiceRules ELSE {g}

Receipt(g) == [bet: Nat, draw: Nat, rule: Rules(g)]

Green == [commit |-> TRUE, outcome |-> TRUE, merkle |-> TRUE]

HandleFields == {"open", "epoch", "plays", "signed", "played", "reveal"}

\* The three lists of the closure are the TEE's receipts and their rules, place by
\* place, and what is revealed is all green.
TeeInv(g, pr, t, h) ==
  /\ g \in Games
  /\ DOMAIN t = {"epoch", "receipts"} /\ DOMAIN h = HandleFields
  /\ pr # "resolved" => h.epoch = 0
  /\ t.epoch = h.epoch
  /\ t.receipts \in Seq(Receipt(g)) /\ h.played \in Seq(Rules(g))
  /\ Len(h.played) = Len(t.receipts)
  /\ \A i \in 1..Len(t.receipts) : t.receipts[i].rule = h.played[i]
  /\ h.plays = t.receipts /\ h.signed = t.receipts
  /\ h.reveal \in {Null, Green}
  /\ h.open => h.reveal = Null

-----------------------------------------------------------------------------
(* The component *)

PageFields ==
  {"teeRef", "arming", "waiting", "busy", "anim", "phase", "view", "last",
   "selection", "rolledWith", "rest", "jitter", "drawn"}

\* Where an animation to this target ends shows the draw.
EndsAt(g, target, draw) ==
  CASE g = "dice" -> target = draw
    [] g = "roulette" -> target \in 165..193 /\ PocketAtCell(target) = draw
    [] g = "coinflip" -> /\ RestAfterFlip(target) \in 0..359
                         /\ FaceUpAt(RestAfterFlip(target)) = FaceOf(draw)

\* The transform of the strip is the one of where it rests, for windows like g.
DrawnFor(p, g) ==
  /\ p.drawn.geometry = g /\ g \in Geometries
  /\ p.drawn.x = TranslateX(p.rest, p.jitter, g.pitch, g.width)

RestInv(g, p) ==
  /\ g = "roulette" => /\ p.rest \in 45..59 /\ p.jitter \in -300..300
                       /\ DrawnFor(p, p.drawn.geometry)
  /\ g = "coinflip" => p.rest \in 0..359

\* What is at rest shows the draw.
Agrees(g, p, draw) ==
  CASE g = "dice" -> p.rest = draw
    [] g = "roulette" -> PocketAtCell(p.rest) = draw
    [] g = "coinflip" -> FaceUpAt(p.rest) = FaceOf(draw)

PicturesInv(g, p) ==
  /\ RestInv(g, p)
  /\ p.anim # Null => /\ EndsAt(g, p.anim.target, p.anim.record.draw)
                      /\ p.anim.byte \in 0..255
  /\ p.last # Null => Agrees(g, p, p.last.draw)

\* A play waits for the TEE or animates, and only then may the view be old, but it is
\* of an open epoch.
ControlInv(g, pr, h, p) ==
  /\ p.selection \in DiceRules
  /\ p.teeRef => pr = "resolved"
  /\ p.arming => ~p.teeRef
  /\ p.anim # Null => p.busy /\ p.teeRef
  /\ p.waiting # Null => p.waiting \in Rules(g) /\ ~p.teeRef
  /\ p.busy /\ ~p.teeRef => p.waiting # Null
  /\ p.view # Null => p.teeRef
  /\ p.teeRef /\ ~p.busy => p.view = Snapshot(h)
  /\ p.busy /\ p.view # Null => p.view.open /\ p.view.reveal = Null

PageInv(g, pr, h, p) ==
  DOMAIN p = PageFields /\ PicturesInv(g, p) /\ ControlInv(g, pr, h, p)

DInv ==
  /\ TeeInv(game, promise, tee, handle) /\ PageInv(game, promise, handle, page)
  /\ geometry \in Geometries

-----------------------------------------------------------------------------
(* Pictures *)

\* A play is animated to where its draw shows, from wherever the game rests.
LEMMA TargetShowsDraw ==
  ASSUME game \in Games, RestInv(game, page), NEW draw \in Draws, NEW byte \in Bytes
  PROVE  EndsAt(game, TargetOf(draw, byte), draw) /\ byte \in 0..255
<1>1. byte \in 0..255
  BY GamesAssumption DEF Bytes
<1>2. CASE game = "dice"
  BY <1>1, <1>2 DEF EndsAt, TargetOf
<1>3. CASE game = "roulette"
  <2>1. draw \in Pockets /\ page.rest \in 45..59
    BY <1>3 DEF Draws, PocketCount, Pockets, RestInv
  <2> QED
    BY <1>1, <1>3, <2>1, SpinStops DEF EndsAt, TargetOf
<1>4. CASE game = "coinflip"
  <2>1. draw \in {0, 1} /\ page.rest \in 0..359
    BY <1>4 DEF Draws, RestInv
  <2> QED
    BY <1>1, <1>4, <2>1, FlipLands, ZenonT(30) DEF EndsAt, TargetOf
<1> QED
  BY <1>2, <1>3, <1>4 DEF Games

\* The page q is p, but for what shows the draw.
AtRest(g, p, draw, q) ==
  /\ DOMAIN q = PageFields /\ RestInv(g, q) /\ Agrees(g, q, draw)
  /\ \A f \in PageFields \ {"rest", "jitter", "drawn"} : q[f] = p[f]

\* applyRest draws the strip where it rests, for the window of now, and does no more.
LEMMA AppliedRestDraws ==
  ASSUME geometry \in Geometries, NEW p, DOMAIN p = PageFields, NEW q, q = AppliedRest(p)
  PROVE  /\ DOMAIN q = PageFields /\ DrawnFor(q, geometry)
         /\ \A f \in PageFields \ {"drawn"} : q[f] = p[f]
<1> DEFINE x == TranslateX(p.rest, p.jitter, geometry.pitch, geometry.width)
           drawn == [x |-> x, geometry |-> geometry]
<1>1. q = [p EXCEPT !.drawn = drawn]
  BY DEF AppliedRest
<1>2. drawn.x = x /\ drawn.geometry = geometry
  OBVIOUS
<1> HIDE DEF drawn, x
<1>3. /\ DOMAIN q = PageFields /\ q.drawn = drawn
      /\ \A f \in PageFields \ {"drawn"} : q[f] = p[f]
  BY <1>1 DEF PageFields
<1>4. q.rest = p.rest /\ q.jitter = p.jitter
  BY <1>3 DEF PageFields
<1>5. DrawnFor(q, geometry)
  BY <1>2, <1>3, <1>4 DEF DrawnFor, x
<1> QED
  BY <1>3, <1>5

\* Parked, the game shows it, and the rest of the page is as it was.
LEMMA ParkedShowsDraw ==
  ASSUME game \in Games, geometry \in Geometries, NEW p, DOMAIN p = PageFields,
         NEW target, NEW draw, NEW byte \in 0..255, EndsAt(game, target, draw),
         NEW q, q = Parked(p, target, byte, draw)
  PROVE  AtRest(game, p, draw, q)
<1>1. CASE game = "dice"
  BY <1>1 DEF Parked, EndsAt, AtRest, RestInv, Agrees, PageFields
<1>2. CASE game = "roulette"
  <2> DEFINE r == RestAfterSettle(target)
             j == Jitter(byte)
             moved == [p EXCEPT !.rest = r, !.jitter = j]
             at == AppliedRest(moved)
             straight == [at EXCEPT !.jitter = 0]
  <2>1. r \in 45..59 /\ PocketAtCell(r) = draw
    BY <1>2, RestKeepsPocket DEF EndsAt
  <2>2. j \in -300..300 /\ 0 \in -300..300
    <3>1. Jitter(byte) \in -300..300
      BY JitterIsSmall
    <3>2. 0 \in -300..300
      OBVIOUS
    <3> QED
      BY <3>1, <3>2
  <2>3. q = at \/ q = AppliedRest(straight)
    BY <1>2 DEF Parked
  <2> HIDE DEF r, j
  <2>4. /\ DOMAIN moved = PageFields /\ moved.rest = r /\ moved.jitter = j
        /\ \A f \in PageFields \ {"rest", "jitter"} : moved[f] = p[f]
    BY DEF PageFields
  <2> HIDE DEF moved
  <2>5. /\ DOMAIN at = PageFields /\ DrawnFor(at, geometry)
        /\ \A f \in PageFields \ {"drawn"} : at[f] = moved[f]
    BY <2>4, AppliedRestDraws
  <2> HIDE DEF at
  <2>6. at.rest = r /\ at.jitter = j
    BY <2>4, <2>5 DEF PageFields
  <2>7. /\ DOMAIN straight = PageFields /\ straight.rest = r /\ straight.jitter = 0
        /\ \A f \in PageFields \ {"jitter"} : straight[f] = at[f]
    BY <2>5, <2>6 DEF PageFields
  <2> HIDE DEF straight
  <2>8. /\ DOMAIN q = PageFields /\ DrawnFor(q, geometry)
        /\ q.rest = r /\ q.jitter \in -300..300
        /\ \A f \in PageFields \ {"rest", "jitter", "drawn"} : q[f] = p[f]
    <3>1. CASE q = at
      BY <2>2, <2>4, <2>5, <2>6, <3>1
    <3>2. CASE q = AppliedRest(straight)
      <4>1. /\ DOMAIN q = PageFields /\ DrawnFor(q, geometry)
            /\ \A f \in PageFields \ {"drawn"} : q[f] = straight[f]
        BY <2>7, <3>2, AppliedRestDraws
      <4>2. q.rest = r /\ q.jitter = 0
        BY <2>7, <4>1 DEF PageFields
      <4> QED
        BY <2>2, <2>4, <2>5, <2>7, <4>1, <4>2
    <3> QED
      BY <2>3, <3>1, <3>2
  <2>9. RestInv(game, q)
    BY <1>2, <2>1, <2>8 DEF RestInv, DrawnFor
  <2>10. Agrees(game, q, draw)
    BY <1>2, <2>1, <2>8 DEF Agrees
  <2> QED
    BY <2>8, <2>9, <2>10 DEF AtRest
<1>3. CASE game = "coinflip"
  <2> DEFINE r == RestAfterFlip(target)
  <2>1. r \in 0..359 /\ FaceUpAt(r) = FaceOf(draw)
    BY <1>3 DEF EndsAt
  <2>2. q = [p EXCEPT !.rest = r]
    BY <1>3 DEF Parked
  <2> HIDE DEF r
  <2> QED
    BY <1>3, <2>1, <2>2 DEF AtRest, RestInv, Agrees, PageFields
<1> QED
  BY <1>1, <1>2, <1>3 DEF Games

\* What is at rest is told by where it rests.
LEMMA RestIsAll ==
  ASSUME NEW g, NEW p, NEW q, NEW draw, q.rest = p.rest, q.jitter = p.jitter,
         q.drawn = p.drawn
  PROVE  /\ RestInv(g, p) => RestInv(g, q)
         /\ Agrees(g, p, draw) => Agrees(g, q, draw)
<1>1. RestInv(g, p) => RestInv(g, q)
  BY DEF RestInv, DrawnFor
<1>2. Agrees(g, p, draw) => Agrees(g, q, draw)
  BY DEF Agrees
<1> QED
  BY <1>1, <1>2

\* A page whose game is at rest: its view is that of the TEE.
LEMMA SettledKeeps ==
  ASSUME game \in Games, geometry \in Geometries, NEW p, DOMAIN p = PageFields, NEW h,
         p.selection \in DiceRules, p.teeRef, ~p.arming, p.waiting = Null, promise = "resolved",
         NEW record, NEW target, NEW byte \in 0..255, EndsAt(game, target, record.draw),
         NEW parked, parked = Parked(p, target, byte, record.draw),
         NEW q, q = Settled(parked, h, record)
  PROVE  PageInv(game, promise, h, q)
<1> DEFINE view == Snapshot(h)
<1>2. q = [parked EXCEPT !.busy = FALSE, !.anim = Null, !.last = record, !.view = view,
                         !.phase = "settled"]
  BY DEF Settled
<1> HIDE DEF view
<1>1. /\ DOMAIN parked = PageFields /\ RestInv(game, parked) /\ Agrees(game, parked, record.draw)
      /\ \A f \in PageFields \ {"rest", "jitter", "drawn"} : parked[f] = p[f]
  <2> DEFINE draw == record.draw
  <2>1. EndsAt(game, target, draw) /\ parked = Parked(p, target, byte, draw)
    OBVIOUS
  <2> HIDE DEF draw
  <2>2. AtRest(game, p, draw, parked)
    BY <2>1, ParkedShowsDraw
  <2> QED
    BY <2>2 DEF draw, AtRest
<1>3. /\ parked.selection = p.selection /\ parked.teeRef = p.teeRef
      /\ parked.arming = p.arming /\ parked.waiting = p.waiting
  BY <1>1 DEF PageFields
<1>4. /\ DOMAIN q = PageFields
      /\ q.busy = FALSE /\ q.anim = Null /\ q.last = record /\ q.view = view
      /\ q.selection = p.selection /\ q.teeRef = p.teeRef
      /\ q.arming = p.arming /\ q.waiting = p.waiting
      /\ q.rest = parked.rest /\ q.jitter = parked.jitter /\ q.drawn = parked.drawn
  BY <1>1, <1>2, <1>3 DEF PageFields
<1>5. PicturesInv(game, q)
  <2>0. /\ RestInv(game, parked) /\ Agrees(game, parked, record.draw)
        /\ q.rest = parked.rest /\ q.jitter = parked.jitter /\ q.drawn = parked.drawn
    BY <1>1, <1>4
  <2>1. RestInv(game, q) /\ Agrees(game, q, record.draw)
    BY <2>0, RestIsAll
  <2>3. q.anim = Null /\ q.last = record
    BY <1>4
  <2> QED
    BY <2>1, <2>3 DEF PicturesInv
<1>6. ControlInv(game, promise, h, q)
  BY <1>4 DEF ControlInv, view
<1> QED
  BY <1>4, <1>5, <1>6 DEF PageInv

-----------------------------------------------------------------------------
(* Plays *)

\* A receipt the TEE signs goes to the end of each list.
LEMMA PlayRecorded ==
  ASSUME NEW g, NEW pr, NEW t, NEW h, TeeInv(g, pr, t, h), pr = "resolved", h.open,
         NEW rule \in Rules(g), NEW draw \in Nat,
         NEW record, record = [bet |-> Len(t.receipts), draw |-> draw, rule |-> rule],
         NEW u, u = [t EXCEPT !.receipts = Append(t.receipts, record)],
         NEW k, k = [h EXCEPT !.plays = Append(h.plays, record),
                              !.signed = Append(h.signed, record),
                              !.played = Append(h.played, rule)]
  PROVE  TeeInv(g, pr, u, k) /\ k.open
<1> DEFINE receipts == t.receipts
           played == h.played
           more == Append(receipts, record)
           rules == Append(played, rule)
           n == Len(receipts)
<1>1. /\ receipts \in Seq(Receipt(g)) /\ played \in Seq(Rules(g)) /\ Len(played) = n
      /\ \A i \in 1..n : receipts[i].rule = played[i]
      /\ h.plays = receipts /\ h.signed = receipts
  BY DEF TeeInv
<1>2. n \in Nat /\ record \in Receipt(g) /\ record.rule = rule
  <2>1. n \in Nat
    BY <1>1
  <2> QED
    BY <2>1 DEF Receipt
<1>3. /\ more \in Seq(Receipt(g)) /\ rules \in Seq(Rules(g))
      /\ Len(more) = n + 1 /\ Len(rules) = n + 1
      /\ more[n + 1] = record /\ rules[n + 1] = rule
      /\ \A i \in 1..n : more[i] = receipts[i] /\ rules[i] = played[i]
  BY <1>1, <1>2
<1>4. /\ u = [t EXCEPT !.receipts = more]
      /\ k = [h EXCEPT !.plays = more, !.signed = more, !.played = rules]
  BY <1>1
<1> HIDE DEF more, rules
<1>5. ASSUME NEW i \in 1..(n + 1) PROVE more[i].rule = rules[i]
  <2>1. i \in 1..n \/ i = n + 1
    BY <1>2
  <2> QED
    BY <1>1, <1>2, <1>3, <2>1
<1>6. DOMAIN t = {"epoch", "receipts"} /\ DOMAIN h = HandleFields
  BY DEF TeeInv
<1>7. /\ DOMAIN u = {"epoch", "receipts"} /\ u.epoch = t.epoch /\ u.receipts = more
      /\ DOMAIN k = HandleFields /\ k.epoch = h.epoch /\ k.open = h.open /\ k.reveal = h.reveal
      /\ k.plays = more /\ k.signed = more /\ k.played = rules
  BY <1>4, <1>6 DEF HandleFields
<1> QED
  BY <1>3, <1>5, <1>7 DEF TeeInv

\* A page that may play.
MayPlay(p) ==
  /\ DOMAIN p = PageFields /\ p.rest = page.rest /\ p.jitter = page.jitter /\ p.drawn = page.drawn
  /\ p.selection \in DiceRules /\ p.teeRef /\ ~p.arming /\ promise = "resolved"
  /\ p.view # Null => p.view.open /\ p.view.reveal = Null

\* A play goes on the three lists and starts its animation, or ends it at once.
LEMMA PlaysKeeps ==
  ASSUME DInv, NEW p, MayPlay(p), NEW rule \in Rules(game), handle.open, Plays(p, rule)
  PROVE  DInv'
<1>0. /\ game \in Games /\ geometry \in Geometries
      /\ TeeInv(game, promise, tee, handle) /\ RestInv(game, page)
  BY DEF DInv, TeeInv, PageInv, PicturesInv
<1>1. PICK draw \in Draws, byte \in Bytes :
        LET record == [bet |-> Len(tee.receipts), draw |-> draw, rule |-> rule]
            h == [handle EXCEPT !.plays = Append(@, record), !.signed = Append(@, record),
                                !.played = Append(@, rule)]
        IN  /\ tee' = [tee EXCEPT !.receipts = Append(@, record)]
            /\ handle' = h
            /\ Animated([p EXCEPT !.waiting = Null, !.busy = TRUE, !.phase = "playing",
                                  !.last = Null], h, record, byte)
            /\ UNCHANGED <<game, geometry, promise>>
  BY DEF Plays
<1> DEFINE record == [bet |-> Len(tee.receipts), draw |-> draw, rule |-> rule]
           q == [p EXCEPT !.waiting = Null, !.busy = TRUE, !.phase = "playing", !.last = Null]
           target == TargetOf(draw, byte)
<1>2. /\ tee' = [tee EXCEPT !.receipts = Append(tee.receipts, record)]
      /\ handle' = [handle EXCEPT !.plays = Append(handle.plays, record),
                                  !.signed = Append(handle.signed, record),
                                  !.played = Append(handle.played, rule)]
      /\ Animated(q, handle', record, byte)
      /\ UNCHANGED <<game, geometry, promise>>
  BY <1>1
<1>3. draw \in Nat
  <2>1. MaxDraw \in Int
    BY GamesAssumption DEF MaxDraw, Outcomes
  <2> QED
    BY <1>0, <2>1 DEF Draws, PocketCount, Games
<1>4. TeeInv(game, promise, tee', handle')
  BY <1>0, <1>2, <1>3, PlayRecorded DEF MayPlay
<1>5. record.draw = draw /\ EndsAt(game, target, draw) /\ byte \in 0..255
  BY <1>0, TargetShowsDraw
<1>6. \/ page' = [q EXCEPT !.anim = [record |-> record, target |-> target, byte |-> byte]]
      \/ page' = Settled(Parked(q, target, byte, draw), handle', record)
  BY <1>2 DEF Animated
<1>7. /\ DOMAIN q = PageFields /\ q.waiting = Null /\ q.busy = TRUE /\ q.last = Null
      /\ q.rest = page.rest /\ q.jitter = page.jitter /\ q.drawn = page.drawn /\ q.selection = p.selection
      /\ q.teeRef = p.teeRef /\ q.arming = p.arming /\ q.view = p.view
  BY DEF MayPlay, PageFields
<1> HIDE DEF q, record, target
<1>8. CASE page' = Settled(Parked(q, target, byte, draw), handle', record)
  <2>1. PageInv(game, promise, handle', page')
    BY <1>0, <1>5, <1>7, <1>8, SettledKeeps DEF MayPlay
  <2> QED
    BY <1>2, <1>4, <2>1 DEF DInv
<1>9. CASE page' = [q EXCEPT !.anim = [record |-> record, target |-> target, byte |-> byte]]
  <2> DEFINE anim == [record |-> record, target |-> target, byte |-> byte]
  <2>1. anim.record = record /\ anim.target = target /\ anim.byte = byte
    OBVIOUS
  <2>2. page' = [q EXCEPT !.anim = anim]
    BY <1>9
  <2> HIDE DEF anim
  <2>3. /\ DOMAIN page' = PageFields /\ page'.waiting = Null /\ page'.busy = TRUE
        /\ page'.last = Null /\ page'.anim = anim
        /\ page'.rest = page.rest /\ page'.jitter = page.jitter /\ page'.drawn = page.drawn /\ page'.selection = p.selection
        /\ page'.teeRef = p.teeRef /\ page'.arming = p.arming /\ page'.view = p.view
    BY <1>7, <2>2 DEF PageFields
  <2>4. PicturesInv(game, page')
    BY <1>0, <1>5, <2>1, <2>3, RestIsAll DEF PicturesInv
  <2>5. ControlInv(game, promise, handle', page')
    BY <2>3 DEF ControlInv, MayPlay
  <2>6. PageInv(game, promise, handle', page')
    BY <2>3, <2>4, <2>5 DEF PageInv
  <2> QED
    BY <1>2, <1>4, <2>6 DEF DInv
<1> QED
  BY <1>6, <1>8, <1>9

-----------------------------------------------------------------------------
(* The other operations *)

\* A page that shows what it showed, or less.
LEMMA PictureStays ==
  ASSUME NEW g, NEW p, NEW q, PicturesInv(g, p),
         q.rest = p.rest, q.jitter = p.jitter, q.drawn = p.drawn,
         q.anim = p.anim \/ q.anim = Null, q.last = p.last \/ q.last = Null
  PROVE  PicturesInv(g, q)
<1>1. RestInv(g, q)
  BY RestIsAll DEF PicturesInv
<1>2. q.anim # Null => EndsAt(g, q.anim.target, q.anim.record.draw) /\ q.anim.byte \in 0..255
  BY DEF PicturesInv
<1>3. q.last # Null => Agrees(g, q, q.last.draw)
  <2> DEFINE draw == q.last.draw
  <2>1. q.last # Null => Agrees(g, p, draw)
    BY DEF PicturesInv
  <2> HIDE DEF draw
  <2>2. Agrees(g, p, draw) => Agrees(g, q, draw)
    BY DEF Agrees
  <2> QED
    BY <2>1, <2>2 DEF draw
<1> QED
  BY <1>1, <1>2, <1>3 DEF PicturesInv

\* The component just mounted shows nothing, and waits for nothing.
LEMMA MountedKeeps ==
  ASSUME game \in Games, geometry \in Geometries, NEW q, q = Mounted, NEW pr, NEW h
  PROVE  PageInv(game, pr, h, q)
<1> DEFINE rule == [target |-> 1, mode |-> "over"]
           cell == IF game = "roulette" THEN InitialCell ELSE 0
<1>1. rule \in DiceRules
  BY GamesAssumption DEF DiceRules, Modes
<1>2. (game = "roulette" => cell \in 45..59) /\ (game = "coinflip" => cell \in 0..359)
  BY DEF InitialCell
<1>3. 0 \in -300..300
  OBVIOUS
<1> DEFINE p == [teeRef |-> FALSE, arming |-> FALSE, waiting |-> Null, busy |-> FALSE,
                 anim |-> Null, phase |-> "cold", view |-> Null, last |-> Null,
                 selection |-> rule, rolledWith |-> Null, rest |-> cell, jitter |-> 0,
                 drawn |-> Null]
<1>4. q = IF game = "roulette" THEN AppliedRest(p) ELSE p
  BY DEF Mounted
<1> HIDE DEF rule, cell
<1>5. /\ DOMAIN p = PageFields
      /\ p.teeRef = FALSE /\ p.arming = FALSE /\ p.waiting = Null /\ p.busy = FALSE
      /\ p.anim = Null /\ p.view = Null /\ p.last = Null /\ p.selection = rule
      /\ p.rest = cell /\ p.jitter = 0
  BY DEF PageFields
<1> HIDE DEF p
<1>6. /\ DOMAIN q = PageFields /\ \A f \in PageFields \ {"drawn"} : q[f] = p[f]
      /\ game = "roulette" => DrawnFor(q, geometry)
  BY <1>4, <1>5, AppliedRestDraws
<1>7. /\ q.teeRef = FALSE /\ q.arming = FALSE /\ q.waiting = Null /\ q.busy = FALSE
      /\ q.anim = Null /\ q.view = Null /\ q.last = Null /\ q.selection = rule
      /\ q.rest = cell /\ q.jitter = 0
  BY <1>5, <1>6 DEF PageFields
<1>8. RestInv(game, q)
  BY <1>2, <1>3, <1>6, <1>7 DEF RestInv, DrawnFor
<1>9. PicturesInv(game, q)
  BY <1>7, <1>8 DEF PicturesInv
<1>10. ControlInv(game, pr, h, q)
  BY <1>1, <1>7 DEF ControlInv
<1> QED
  BY <1>6, <1>9, <1>10 DEF PageInv

\* A window that changes its size changes nothing that is kept.
LEMMA ResizeKeeps ==
  ASSUME DInv, Resize
  PROVE  DInv'
<1>1. geometry' \in Geometries /\ UNCHANGED <<game, promise, tee, handle, page>>
  BY DEF Resize
<1> QED
  BY <1>1 DEF DInv

\* A component that comes back finds the TEE as it is.
LEMMA RemountKeeps ==
  ASSUME DInv, Remount
  PROVE  DInv'
<1>1. game \in Games /\ geometry \in Geometries /\ TeeInv(game, promise, tee, handle)
  BY DEF DInv, TeeInv
<1>2. page' = Mounted /\ UNCHANGED <<game, geometry, promise, tee, handle>>
  BY DEF Remount
<1>3. PageInv(game, promise, handle, page')
  BY <1>1, <1>2, MountedKeeps
<1> QED
  BY <1>1, <1>2, <1>3 DEF DInv

\* The TEE is asked for: the page waits, with or without a play.
LEMMA ArmingKeeps ==
  ASSUME NEW g, NEW pr, NEW h, NEW p, NEW q, q = Arming(p),
         DOMAIN p = PageFields, PicturesInv(g, p), p.selection \in DiceRules,
         ~p.teeRef, p.anim = Null, p.view = Null,
         p.waiting # Null => p.waiting \in Rules(g), p.busy => p.waiting # Null
  PROVE  PageInv(g, pr, h, q)
<1> DEFINE phase == IF p.phase = "cold" THEN "arming" ELSE p.phase
<1>1. q = [p EXCEPT !.arming = TRUE, !.phase = phase]
  BY DEF Arming
<1> HIDE DEF phase
<1>2. /\ DOMAIN q = PageFields /\ q.arming = TRUE
      /\ q.teeRef = p.teeRef /\ q.waiting = p.waiting /\ q.busy = p.busy /\ q.anim = p.anim
      /\ q.view = p.view /\ q.last = p.last /\ q.selection = p.selection
      /\ q.rest = p.rest /\ q.jitter = p.jitter /\ q.drawn = p.drawn
  BY <1>1 DEF PageFields
<1>3. PicturesInv(g, q)
  BY <1>2, PictureStays
<1>4. ControlInv(g, pr, h, q)
  BY <1>2 DEF ControlInv
<1> QED
  BY <1>2, <1>3, <1>4 DEF PageInv

\* A build that starts is not yet a TEE.
LEMMA EnsureKeeps ==
  ASSUME DInv, EnsureTee, UNCHANGED <<game, geometry, tee, handle>>
  PROVE  TeeInv(game, promise', tee, handle) /\ (promise = "resolved" => promise' = "resolved")
<1>1. promise' = IF promise = "none" THEN "building" ELSE promise
  BY DEF EnsureTee
<1>2. promise = "resolved" <=> promise' = "resolved"
  BY <1>1
<1> QED
  BY <1>2 DEF DInv, TeeInv

\* The demo comes into view: it waits for the TEE, without a play.
LEMMA ScrolledIntoViewKeeps ==
  ASSUME DInv, ScrolledIntoView
  PROVE  DInv'
<1>1. DOMAIN page = PageFields /\ PicturesInv(game, page) /\ ControlInv(game, promise, handle, page)
  BY DEF DInv, PageInv
<1>2. ~page.teeRef /\ page' = Arming(page) /\ EnsureTee /\ UNCHANGED <<game, geometry, tee, handle>>
  BY DEF ScrolledIntoView
<1>3. PageInv(game, promise', handle, page')
  BY <1>1, <1>2, ArmingKeeps DEF ControlInv
<1>4. TeeInv(game, promise', tee, handle)
  BY <1>2, EnsureKeeps
<1> QED
  BY <1>2, <1>3, <1>4 DEF DInv

\* A click notes the selection, and no more.
LEMMA ClickedIs ==
  ASSUME DOMAIN page = PageFields, NEW q, q = Clicked
  PROVE  /\ DOMAIN q = PageFields
         /\ \A f \in PageFields \ {"rolledWith"} : q[f] = page[f]
BY DEF Clicked, PageFields

\* The rule of a click is one of the game.
LEMMA RuleOfIsOne ==
  ASSUME game \in Games, page.selection \in DiceRules
  PROVE  RuleOf(page) \in Rules(game) /\ RuleOf(page) # Null
BY DemoAssumption DEF RuleOf, Rules, Games

\* The first click comes before the TEE: its play waits.
LEMMA ClickPlayEarlyKeeps ==
  ASSUME DInv, ClickPlayEarly
  PROVE  DInv'
<1>1. /\ DOMAIN page = PageFields /\ PicturesInv(game, page)
      /\ ControlInv(game, promise, handle, page) /\ game \in Games
  BY DEF DInv, PageInv, TeeInv
<1> DEFINE q == Clicked
           rule == RuleOf(page)
           p == [q EXCEPT !.busy = TRUE, !.waiting = rule]
<1>2. ~page.teeRef /\ page' = Arming(p) /\ EnsureTee /\ UNCHANGED <<game, geometry, tee, handle>>
  BY DEF ClickPlayEarly
<1>3. page.selection \in DiceRules /\ page.anim = Null /\ page.view = Null
  BY <1>1, <1>2 DEF ControlInv
<1>4. rule \in Rules(game) /\ rule # Null
  BY <1>1, <1>3, RuleOfIsOne
<1>5. DOMAIN q = PageFields /\ \A f \in PageFields \ {"rolledWith"} : q[f] = page[f]
  BY <1>1, ClickedIs
<1> HIDE DEF q, rule
<1>6. /\ DOMAIN p = PageFields /\ p.busy = TRUE /\ p.waiting = rule
      /\ p.teeRef = page.teeRef /\ p.anim = page.anim /\ p.view = page.view
      /\ p.selection = page.selection /\ p.last = page.last
      /\ p.rest = page.rest /\ p.jitter = page.jitter /\ p.drawn = page.drawn
  BY <1>5 DEF PageFields
<1> HIDE DEF p
<1>7. PicturesInv(game, p)
  BY <1>1, <1>6, PictureStays
<1>8. PageInv(game, promise', handle, page')
  BY <1>2, <1>3, <1>4, <1>6, <1>7, ArmingKeeps
<1>9. TeeInv(game, promise', tee, handle)
  BY <1>2, EnsureKeeps
<1> QED
  BY <1>2, <1>8, <1>9 DEF DInv

\* A click on a busy demo changes nothing that is shown or waited for.
LEMMA ClickPlayBusyKeeps ==
  ASSUME DInv, ClickPlayBusy
  PROVE  DInv'
<1>1. /\ DOMAIN page = PageFields /\ PicturesInv(game, page)
      /\ ControlInv(game, promise, handle, page) /\ TeeInv(game, promise, tee, handle)
  BY DEF DInv, PageInv
<1>2. page' = Clicked /\ UNCHANGED <<game, geometry, promise, tee, handle>>
  BY DEF ClickPlayBusy
<1>3. DOMAIN page' = PageFields /\ \A f \in PageFields \ {"rolledWith"} : page'[f] = page[f]
  BY <1>1, <1>2, ClickedIs
<1>4. /\ page'.teeRef = page.teeRef /\ page'.arming = page.arming
      /\ page'.waiting = page.waiting /\ page'.busy = page.busy /\ page'.anim = page.anim
      /\ page'.view = page.view /\ page'.last = page.last /\ page'.selection = page.selection
      /\ page'.rest = page.rest /\ page'.jitter = page.jitter /\ page'.drawn = page.drawn
  BY <1>3 DEF PageFields
<1>5. PicturesInv(game, page')
  BY <1>1, <1>4, PictureStays
<1>6. ControlInv(game, promise, handle, page')
  BY <1>1, <1>4 DEF ControlInv
<1> QED
  BY <1>1, <1>2, <1>3, <1>5, <1>6 DEF DInv, PageInv

\* A play that is refused leaves the page at rest, with the TEE's view.
LEMMA RefusedKeeps ==
  ASSUME DInv, NEW p, DOMAIN p = PageFields, PicturesInv(game, p), p.selection \in DiceRules,
         p.teeRef, ~p.arming, p.anim = Null, promise = "resolved", Refused(p)
  PROVE  DInv'
<1> DEFINE view == Snapshot(handle)
<1>1. /\ page' = [p EXCEPT !.waiting = Null, !.busy = FALSE, !.view = view]
      /\ UNCHANGED <<game, geometry, promise, tee, handle>>
  BY DEF Refused
<1> HIDE DEF view
<1>2. /\ DOMAIN page' = PageFields
      /\ page'.waiting = Null /\ page'.busy = FALSE /\ page'.view = view
      /\ page'.teeRef = p.teeRef /\ page'.arming = p.arming /\ page'.anim = p.anim
      /\ page'.last = p.last /\ page'.selection = p.selection
      /\ page'.rest = p.rest /\ page'.jitter = p.jitter /\ page'.drawn = p.drawn
  BY <1>1 DEF PageFields
<1>3. PicturesInv(game, page')
  BY <1>2, PictureStays
<1>4. ControlInv(game, promise, handle, page')
  BY <1>2 DEF ControlInv, view
<1> QED
  BY <1>1, <1>2, <1>3, <1>4 DEF DInv, PageInv

\* A click plays in an open epoch, or is refused.
LEMMA ClickPlayKeeps ==
  ASSUME DInv, ClickPlay
  PROVE  DInv'
<1>1. /\ DOMAIN page = PageFields /\ PicturesInv(game, page)
      /\ ControlInv(game, promise, handle, page) /\ TeeInv(game, promise, tee, handle)
      /\ game \in Games
  BY DEF DInv, PageInv, TeeInv
<1> DEFINE p == Clicked
           rule == RuleOf(page)
<1>2. /\ MainButton = "play" /\ ~page.busy /\ page.teeRef
      /\ IF Playable THEN Plays(p, rule) ELSE Refused(p)
  BY DEF ClickPlay
<1>3. /\ page.selection \in DiceRules /\ page.anim = Null /\ promise = "resolved"
      /\ ~page.arming /\ page.view = Snapshot(handle)
  BY <1>1, <1>2 DEF ControlInv
<1>4. rule \in Rules(game)
  BY <1>1, <1>3, RuleOfIsOne
<1>5. DOMAIN p = PageFields /\ \A f \in PageFields \ {"rolledWith"} : p[f] = page[f]
  BY <1>1, ClickedIs
<1> HIDE DEF p, rule
<1>6. /\ p.teeRef = page.teeRef /\ p.arming = page.arming
      /\ p.anim = page.anim /\ p.view = page.view /\ p.last = page.last
      /\ p.selection = page.selection /\ p.rest = page.rest /\ p.jitter = page.jitter /\ p.drawn = page.drawn
  BY <1>5 DEF PageFields
<1>7. CASE Playable
  <2>1. handle.open /\ Plays(p, rule)
    BY <1>2, <1>7 DEF Playable
  <2>2. p.view.open /\ p.view.reveal = Null
    BY <1>1, <1>3, <1>6, <2>1 DEF Snapshot, TeeInv
  <2>3. MayPlay(p)
    BY <1>2, <1>3, <1>5, <1>6, <2>2 DEF MayPlay
  <2> QED
    BY <1>4, <2>1, <2>3, PlaysKeeps
<1>8. CASE ~Playable
  <2>1. PicturesInv(game, p)
    BY <1>1, <1>6, PictureStays
  <2> QED
    BY <1>2, <1>3, <1>5, <1>6, <1>8, <2>1, RefusedKeeps
<1> QED
  BY <1>7, <1>8

\* The TEE comes: the play that waited for it is the only one under way.
LEMMA ArmedKeeps ==
  ASSUME DInv, Armed
  PROVE  DInv'
<1>1. /\ DOMAIN page = PageFields /\ PicturesInv(game, page)
      /\ ControlInv(game, promise, handle, page) /\ TeeInv(game, promise, tee, handle)
      /\ game \in Games
  BY DEF DInv, PageInv, TeeInv
<1> DEFINE phase == IF page.phase = "revealed" THEN page.phase ELSE "ready"
           view == Snapshot(handle)
           p == [page EXCEPT !.arming = FALSE, !.teeRef = TRUE, !.view = view, !.phase = phase]
<1>2. /\ page.arming /\ promise = "resolved"
      /\ IF p.waiting = Null THEN page' = p /\ UNCHANGED <<game, geometry, promise, tee, handle>>
         ELSE IF Playable THEN Plays(p, p.waiting) ELSE Refused(p)
  BY DEF Armed
<1> HIDE DEF phase, view
<1>3. /\ DOMAIN p = PageFields /\ p.arming = FALSE /\ p.teeRef = TRUE /\ p.view = view
      /\ p.waiting = page.waiting /\ p.busy = page.busy /\ p.anim = page.anim
      /\ p.last = page.last /\ p.selection = page.selection
      /\ p.rest = page.rest /\ p.jitter = page.jitter /\ p.drawn = page.drawn
  BY <1>1 DEF PageFields
<1> HIDE DEF p
<1>4. /\ ~page.teeRef /\ page.selection \in DiceRules /\ page.anim = Null
      /\ page.waiting # Null => page.waiting \in Rules(game)
      /\ page.busy => page.waiting # Null
  BY <1>1, <1>2 DEF ControlInv
<1>5. PicturesInv(game, p)
  BY <1>1, <1>3, PictureStays
<1>6. CASE p.waiting = Null
  <2>1. page' = p /\ UNCHANGED <<game, geometry, promise, tee, handle>>
    BY <1>2, <1>6
  <2>2. ControlInv(game, promise, handle, p)
    BY <1>2, <1>3, <1>4, <1>6 DEF ControlInv, view
  <2> QED
    BY <1>1, <1>3, <1>5, <2>1, <2>2 DEF DInv, PageInv
<1>7. CASE p.waiting # Null /\ Playable
  <2> DEFINE rule == page.waiting
  <2>1. handle.open /\ Plays(p, rule) /\ rule \in Rules(game)
    BY <1>2, <1>3, <1>4, <1>7 DEF Playable
  <2> HIDE DEF rule
  <2>2. p.view.open /\ p.view.reveal = Null
    BY <1>1, <1>3, <2>1 DEF view, Snapshot, TeeInv
  <2>3. MayPlay(p)
    BY <1>2, <1>3, <1>4, <2>2 DEF MayPlay
  <2> QED
    BY <2>1, <2>3, PlaysKeeps
<1>8. CASE p.waiting # Null /\ ~Playable
  BY <1>2, <1>3, <1>4, <1>5, <1>8, RefusedKeeps
<1> QED
  BY <1>6, <1>7, <1>8

\* A build that fails leaves no TEE.
LEMMA BuildFailsKeeps ==
  ASSUME DInv, BuildFails
  PROVE  DInv'
<1>1. promise = "building" /\ promise' = "rejected" /\ UNCHANGED <<game, geometry, tee, handle, page>>
  BY DEF BuildFails
<1>2. TeeInv(game, promise', tee, handle)
  BY <1>1 DEF DInv, TeeInv
<1>3. PageInv(game, promise', handle, page)
  BY <1>1 DEF DInv, PageInv, ControlInv
<1> QED
  BY <1>1, <1>2, <1>3 DEF DInv

\* The error lets go of the play that waited.
LEMMA ArmFailsKeeps ==
  ASSUME DInv, ArmFails
  PROVE  DInv'
<1>1. /\ page.arming /\ promise = "rejected"
      /\ page' = [page EXCEPT !.arming = FALSE, !.waiting = Null, !.busy = FALSE,
                              !.phase = "error"]
      /\ UNCHANGED <<game, geometry, promise, tee, handle>>
  BY DEF ArmFails
<1>2. /\ DOMAIN page = PageFields /\ PicturesInv(game, page)
      /\ ControlInv(game, promise, handle, page) /\ TeeInv(game, promise, tee, handle)
  BY DEF DInv, PageInv
<1>3. /\ DOMAIN page' = PageFields
      /\ page'.arming = FALSE /\ page'.waiting = Null /\ page'.busy = FALSE
      /\ page'.teeRef = page.teeRef /\ page'.anim = page.anim /\ page'.view = page.view
      /\ page'.last = page.last /\ page'.selection = page.selection
      /\ page'.rest = page.rest /\ page'.jitter = page.jitter /\ page'.drawn = page.drawn
  BY <1>1, <1>2 DEF PageFields
<1>4. PicturesInv(game, page')
  BY <1>2, <1>3, PictureStays
<1>5. ControlInv(game, promise, handle, page')
  BY <1>1, <1>2, <1>3 DEF ControlInv
<1> QED
  BY <1>1, <1>2, <1>3, <1>4, <1>5 DEF DInv, PageInv

\* The animation ends where the draw shows.
LEMMA AnimationEndsKeeps ==
  ASSUME DInv, AnimationEnds
  PROVE  DInv'
<1>1. /\ DOMAIN page = PageFields /\ PicturesInv(game, page)
      /\ ControlInv(game, promise, handle, page) /\ TeeInv(game, promise, tee, handle)
      /\ game \in Games /\ geometry \in Geometries
  BY DEF DInv, PageInv, TeeInv
<1> DEFINE record == page.anim.record
           target == page.anim.target
           byte == page.anim.byte
           parked == Parked(page, target, byte, record.draw)
<1>2. /\ page.anim # Null /\ page' = Settled(parked, handle, record)
      /\ UNCHANGED <<game, geometry, promise, tee, handle>>
  BY DEF AnimationEnds
<1>3. EndsAt(game, target, record.draw) /\ byte \in 0..255
  BY <1>1, <1>2 DEF PicturesInv
<1>4. /\ page.selection \in DiceRules /\ page.teeRef /\ ~page.arming /\ promise = "resolved"
      /\ page.waiting = Null
  BY <1>1, <1>2 DEF ControlInv
<1>5. parked = Parked(page, target, byte, record.draw)
  OBVIOUS
<1> HIDE DEF record, target, byte, parked
<1>6. PageInv(game, promise, handle, page')
  BY <1>1, <1>2, <1>3, <1>4, <1>5, SettledKeeps
<1> QED
  BY <1>1, <1>2, <1>6 DEF DInv

\* The slider stays within the targets.
LEMMA SelectKeeps ==
  ASSUME DInv, Select
  PROVE  DInv'
<1>1. /\ DOMAIN page = PageFields /\ PicturesInv(game, page)
      /\ ControlInv(game, promise, handle, page) /\ TeeInv(game, promise, tee, handle)
  BY DEF DInv, PageInv
<1>2. PICK percent \in 0..(MaxTarget + 1), mode \in Modes :
        page' = [page EXCEPT !.selection = [target |-> ClampTarget(percent), mode |-> mode]]
  BY DEF Select
<1>3. UNCHANGED <<game, geometry, promise, tee, handle>>
  BY DEF Select
<1> DEFINE rule == [target |-> ClampTarget(percent), mode |-> mode]
<1>4. rule \in DiceRules
  <2>1. ClampTarget(percent) \in 1..MaxTarget
    BY GamesAssumption DEF ClampTarget
  <2> QED
    BY <2>1 DEF DiceRules
<1>5. page' = [page EXCEPT !.selection = rule]
  BY <1>2
<1> HIDE DEF rule
<1>6. /\ DOMAIN page' = PageFields /\ page'.selection = rule
      /\ page'.teeRef = page.teeRef /\ page'.arming = page.arming
      /\ page'.waiting = page.waiting /\ page'.busy = page.busy /\ page'.anim = page.anim
      /\ page'.view = page.view /\ page'.last = page.last
      /\ page'.rest = page.rest /\ page'.jitter = page.jitter /\ page'.drawn = page.drawn
  BY <1>1, <1>5 DEF PageFields
<1>7. PicturesInv(game, page')
  BY <1>1, <1>6, PictureStays
<1>8. ControlInv(game, promise, handle, page')
  BY <1>1, <1>4, <1>6 DEF ControlInv
<1> QED
  BY <1>1, <1>3, <1>6, <1>7, <1>8 DEF DInv, PageInv

-----------------------------------------------------------------------------
(* Epochs *)

\* An epoch that opens has no receipt.
LEMMA OpenedIsFresh ==
  ASSUME NEW g, NEW pr, NEW t, NEW h, TeeInv(g, pr, t, h),
         NEW k, k = Opened(h), NEW epoch, epoch = h.epoch + 1
  PROVE  TeeInv(g, "resolved", [epoch |-> epoch, receipts |-> <<>>], k)
<1> DEFINE none == <<>>
           u == [epoch |-> epoch, receipts |-> none]
<1>1. none \in Seq(Receipt(g)) /\ none \in Seq(Rules(g)) /\ Len(none) = 0
  OBVIOUS
<1>2. k = [h EXCEPT !.open = TRUE, !.epoch = epoch, !.plays = none, !.signed = none,
                    !.played = none, !.reveal = Null]
  BY DEF Opened
<1> HIDE DEF none
<1>3. DOMAIN h = HandleFields /\ g \in Games
  BY DEF TeeInv
<1>4. /\ DOMAIN k = HandleFields /\ k.open = TRUE /\ k.epoch = epoch /\ k.reveal = Null
      /\ k.plays = none /\ k.signed = none /\ k.played = none
  BY <1>2, <1>3 DEF HandleFields
<1>5. DOMAIN u = {"epoch", "receipts"} /\ u.epoch = epoch /\ u.receipts = none
  OBVIOUS
<1> HIDE DEF u
<1>6. TeeInv(g, "resolved", u, k)
  BY <1>1, <1>3, <1>4, <1>5 DEF TeeInv
<1> QED
  BY <1>6 DEF u, none

\* The build ends with the first epoch open.
LEMMA BuiltKeeps ==
  ASSUME DInv, Built
  PROVE  DInv'
<1>1. /\ promise = "building" /\ promise' = "resolved" /\ handle' = Opened(handle)
      /\ tee' = [epoch |-> 1, receipts |-> <<>>] /\ UNCHANGED <<game, geometry, page>>
  BY DEF Built
<1>2. TeeInv(game, promise, tee, handle) /\ PageInv(game, promise, handle, page)
  BY DEF DInv
<1>3. 1 = handle.epoch + 1
  BY <1>1, <1>2 DEF TeeInv
<1>4. TeeInv(game, promise', tee', handle')
  BY <1>1, <1>2, <1>3, OpenedIsFresh
<1>5. PageInv(game, promise', handle', page)
  <2>1. ~page.teeRef
    BY <1>1, <1>2 DEF PageInv, ControlInv
  <2> QED
    BY <1>2, <2>1 DEF PageInv, ControlInv
<1> QED
  BY <1>1, <1>4, <1>5 DEF DInv

\* The next epoch opens, and the page shows it.
LEMMA NextEpochKeeps ==
  ASSUME DInv, NextEpoch
  PROVE  DInv'
<1> DEFINE view == Snapshot(handle')
           epoch == tee.epoch + 1
<1>1. /\ ~page.busy /\ page.teeRef
      /\ handle' = Opened(handle) /\ tee' = [epoch |-> epoch, receipts |-> <<>>]
      /\ page' = [page EXCEPT !.view = view, !.last = Null, !.phase = "ready"]
      /\ UNCHANGED <<game, geometry, promise>>
  BY DEF NextEpoch
<1>2. /\ DOMAIN page = PageFields /\ PicturesInv(game, page)
      /\ ControlInv(game, promise, handle, page) /\ TeeInv(game, promise, tee, handle)
  BY DEF DInv, PageInv
<1>3. promise = "resolved" /\ epoch = handle.epoch + 1
  BY <1>1, <1>2 DEF ControlInv, TeeInv
<1> HIDE DEF view, epoch
<1>4. TeeInv(game, promise', tee', handle')
  BY <1>1, <1>2, <1>3, OpenedIsFresh
<1>5. /\ DOMAIN page' = PageFields /\ page'.view = view /\ page'.last = Null
      /\ page'.teeRef = page.teeRef /\ page'.arming = page.arming
      /\ page'.waiting = page.waiting /\ page'.busy = page.busy /\ page'.anim = page.anim
      /\ page'.selection = page.selection
      /\ page'.rest = page.rest /\ page'.jitter = page.jitter /\ page'.drawn = page.drawn
  BY <1>1, <1>2 DEF PageFields
<1>6. PicturesInv(game, page')
  BY <1>2, <1>5, PictureStays
<1>7. ControlInv(game, promise, handle', page')
  BY <1>1, <1>2, <1>5 DEF ControlInv, view
<1> QED
  BY <1>1, <1>4, <1>5, <1>6, <1>7 DEF DInv, PageInv

\* The reveal checks the receipts against the rules of the same plays and against
\* what the TEE closes: all green.
LEMMA RevealKeeps ==
  ASSUME DInv, Reveal
  PROVE  DInv'
<1> DEFINE view == Snapshot(handle')
           checks == Checks
<1>1. /\ ~page.busy /\ page.teeRef
      /\ handle' = [handle EXCEPT !.open = FALSE, !.reveal = checks]
      /\ page' = [page EXCEPT !.view = view, !.phase = "revealed"]
      /\ UNCHANGED <<game, geometry, promise, tee>>
  BY DEF Reveal
<1>2. /\ DOMAIN page = PageFields /\ PicturesInv(game, page)
      /\ ControlInv(game, promise, handle, page) /\ TeeInv(game, promise, tee, handle)
  BY DEF DInv, PageInv
<1>3. checks = Green
  <2> DEFINE receipts == tee.receipts
  <2>1. tee.epoch = handle.epoch /\ handle.signed = receipts
    BY <1>2 DEF TeeInv
  <2>2. receipts \in Seq(Receipt(game))
        /\ \A i \in 1..Len(receipts) : receipts[i].rule = handle.played[i]
    BY <1>2 DEF TeeInv
  <2> HIDE DEF receipts
  <2>3. \A i \in DOMAIN receipts : receipts[i].rule = handle.played[i]
    BY <2>2
  <2> QED
    BY <2>1, <2>3 DEF Checks, Green, receipts
<1> HIDE DEF view, checks
<1>4. /\ DOMAIN handle' = HandleFields /\ handle'.open = FALSE /\ handle'.reveal = checks
      /\ handle'.epoch = handle.epoch /\ handle'.plays = handle.plays
      /\ handle'.signed = handle.signed /\ handle'.played = handle.played
  BY <1>1, <1>2 DEF TeeInv, HandleFields
<1>5. TeeInv(game, promise, tee, handle')
  BY <1>2, <1>3, <1>4 DEF TeeInv
<1>6. /\ DOMAIN page' = PageFields /\ page'.view = view
      /\ page'.teeRef = page.teeRef /\ page'.arming = page.arming
      /\ page'.waiting = page.waiting /\ page'.busy = page.busy /\ page'.anim = page.anim
      /\ page'.last = page.last /\ page'.selection = page.selection
      /\ page'.rest = page.rest /\ page'.jitter = page.jitter /\ page'.drawn = page.drawn
  BY <1>1, <1>2 DEF PageFields
<1>7. PicturesInv(game, page')
  BY <1>2, <1>6, PictureStays
<1>8. ControlInv(game, promise, handle', page')
  BY <1>1, <1>2, <1>6 DEF ControlInv, view
<1> QED
  BY <1>1, <1>5, <1>6, <1>7, <1>8 DEF DInv, PageInv

-----------------------------------------------------------------------------
(* The invariant *)

\* Before anything is built the lists are empty.
LEMMA InitDInv ==
  ASSUME DemoInit
  PROVE  DInv
<1> DEFINE none == <<>>
<1>1. /\ game \in Games /\ geometry \in Geometries /\ promise = "none"
      /\ tee = [epoch |-> 0, receipts |-> none] /\ page = Mounted
      /\ handle = [open |-> FALSE, epoch |-> 0, plays |-> none, signed |-> none,
                   played |-> none, reveal |-> Null]
  BY DEF DemoInit, NoHandle, Games
<1>2. none \in Seq(Receipt(game)) /\ none \in Seq(Rules(game)) /\ Len(none) = 0
  OBVIOUS
<1> HIDE DEF none
<1>3. DOMAIN tee = {"epoch", "receipts"} /\ tee.epoch = 0 /\ tee.receipts = none
  BY <1>1
<1>4. /\ DOMAIN handle = HandleFields /\ handle.open = FALSE /\ handle.epoch = 0
      /\ handle.plays = none /\ handle.signed = none /\ handle.played = none
      /\ handle.reveal = Null
  BY <1>1 DEF HandleFields
<1>5. TeeInv(game, promise, tee, handle)
  BY <1>1, <1>2, <1>3, <1>4 DEF TeeInv
<1>6. PageInv(game, promise, handle, page)
  BY <1>1, MountedKeeps
<1> QED
  BY <1>1, <1>5, <1>6 DEF DInv

\* Every step keeps the invariant.
LEMMA NextDInv ==
  ASSUME DInv, [DemoNext]_demoVars
  PROVE  DInv'
<1>1. CASE DemoNext
  BY <1>1, RemountKeeps, ResizeKeeps, ScrolledIntoViewKeeps, BuiltKeeps, BuildFailsKeeps,
     ArmedKeeps, ArmFailsKeeps, ClickPlayKeeps, ClickPlayEarlyKeeps, ClickPlayBusyKeeps,
     AnimationEndsKeeps, SelectKeeps, RevealKeeps, NextEpochKeeps
     DEF DemoNext
<1>2. CASE UNCHANGED demoVars
  BY <1>2 DEF demoVars, DInv
<1> QED
  BY <1>1, <1>2

\* It holds in every reachable state.
LEMMA SpecDInv == DemoSpec => []DInv
<1>1. DemoInit => DInv
  BY InitDInv
<1>2. DInv /\ [DemoNext]_demoVars => DInv'
  BY NextDInv
<1> QED
  BY <1>1, <1>2, PTL DEF DemoSpec

-----------------------------------------------------------------------------
(* What the page may be relied on for *)

\* What the hand or the coin shows next to a result is the draw of its receipt, from
\* wherever the game started; so is what the strip shows while the window has the width
\* it had when the strip was parked, either of the two, and whatever widths it had
\* before or in between; and a spin stops on the strip (park, applyRest, spinTarget,
\* restAfterSettle, flipTarget).
THEOREM PicturesAreReceipts == DemoSpec => []PixelsAgreeWithReceipt
<1>1. ASSUME DInv PROVE PixelsAgreeWithReceipt
  <2>1. game \in Games /\ PicturesInv(game, page)
    BY <1>1 DEF DInv, TeeInv, PageInv
  <2>2. ASSUME page.last # Null, game = "dice" PROVE page.rest = page.last.draw
    BY <2>1, <2>2 DEF PicturesInv, Agrees
  <2>3. ASSUME page.last # Null, game = "coinflip"
        PROVE  FaceUpAt(page.rest) = FaceOf(page.last.draw)
    BY <2>1, <2>3 DEF PicturesInv, Agrees
  <2>4. ASSUME page.last # Null, game = "roulette", geometry = page.drawn.geometry
        PROVE  CellMarked(page) \in DOMAIN Strip /\ Strip[CellMarked(page)] = page.last.draw
    <3>1. /\ page.rest \in 45..59 /\ page.jitter \in -300..300
          /\ DrawnFor(page, page.drawn.geometry)
      BY <2>1, <2>4 DEF PicturesInv, RestInv
    <3>2. PocketAtCell(page.rest) = page.last.draw
      BY <2>1, <2>4 DEF PicturesInv, Agrees
    <3>3. /\ geometry \in Geometries
          /\ page.drawn.x
               = TranslateX(page.rest, page.jitter, geometry.pitch, geometry.width)
      BY <2>4, <3>1 DEF DrawnFor
    <3>4. CellMarked(page) = page.rest
      <4> DEFINE x == TranslateX(page.rest, page.jitter, geometry.pitch, geometry.width)
      <4>1. CellUnderMarker(x, geometry.pitch, geometry.width) = page.rest
        BY <3>1, <3>3, MarkerIsOverCell
      <4>2. CellMarked(page) = CellUnderMarker(x, geometry.pitch, geometry.width)
        BY <3>3 DEF CellMarked
      <4> HIDE DEF x
      <4> QED
        BY <4>1, <4>2
    <3>5. page.rest \in DOMAIN Strip /\ Strip[page.rest] = PocketAtCell(page.rest)
      BY <3>1 DEF Strip, CellCount
    <3> QED
      BY <3>2, <3>4, <3>5
  <2>5. ASSUME game = "roulette", page.anim # Null PROVE page.anim.target \in DOMAIN Strip
    <3>1. page.anim.target \in 165..193
      BY <2>1, <2>5 DEF PicturesInv, EndsAt
    <3> QED
      BY <3>1 DEF Strip, CellCount
  <2> QED
    BY <2>1, <2>2, <2>3, <2>4, <2>5 DEF PixelsAgreeWithReceipt, Games
<1> QED
  BY <1>1, SpecDInv, PTL

\* Every epoch reveals all green, and what the panel says of it is what the TEE
\* signed in it: the three lists of the closure start over together and grow together,
\* whatever was clicked (openEpoch, play, reveal, ProofPanel).
THEOREM RevealsStayGreen == DemoSpec => []EveryRevealIsGreen
<1>1. ASSUME DInv PROVE EveryRevealIsGreen
  <2>1. TeeInv(game, promise, tee, handle) /\ ControlInv(game, promise, handle, page)
    BY <1>1 DEF DInv, PageInv
  <2>2. SUFFICES ASSUME page.view # Null, page.view.reveal # Null
                 PROVE  EveryRevealIsGreen
    BY DEF EveryRevealIsGreen, ProofPanel
  <2>3. page.view = Snapshot(handle)
    BY <2>1, <2>2 DEF ControlInv
  <2>4. page.view.plays = tee.receipts /\ page.view.reveal = Green
    BY <2>1, <2>2, <2>3 DEF TeeInv, Snapshot
  <2> DEFINE panel == ProofPanel
             rules == {tee.receipts[i].rule : i \in DOMAIN tee.receipts}
             plays == Len(tee.receipts)
  <2>5. panel = [plays |-> plays, rules |-> rules, checks |-> Green]
    BY <2>2, <2>4 DEF ProofPanel
  <2> HIDE DEF panel, rules, plays
  <2>6. panel.plays = plays /\ panel.rules = rules /\ panel.checks = Green
    BY <2>5
  <2>7. \A check \in DOMAIN Green : Green[check]
    BY DEF Green
  <2> QED
    BY <2>6, <2>7 DEF EveryRevealIsGreen, panel, rules, plays
<1> QED
  BY <1>1, SpecDInv, PTL

\* A page with nothing in flight shows the TEE as it is (useDemoEpoch).
THEOREM ViewStaysCurrent == DemoSpec => []ViewIsCurrent
<1>1. DInv => ViewIsCurrent
  BY DEF DInv, PageInv, ControlInv, ViewIsCurrent
<1> QED
  BY <1>1, SpecDInv, PTL

\* Every rule that was played pays its return to player, rounded down, and some draw
\* wins under it (winCount, payoutBp), for any number of targets and of outcomes per
\* percent.
THEOREM PlaysPayWithinRtp == DemoSpec => []PaysWithinRtp
<1>1. ASSUME DInv PROVE PaysWithinRtp
  <2>1. handle.played \in Seq(Rules(game))
    BY <1>1 DEF DInv, TeeInv
  <2>2. ASSUME NEW i \in DOMAIN handle.played, game = "dice"
        PROVE  handle.played[i] \in DiceRules
    BY <2>1, <2>2 DEF Rules
  <2> QED
    BY <2>2, DicePaysWithinRtp DEF PaysWithinRtp
<1> QED
  BY <1>1, SpecDInv, PTL
=============================================================================
