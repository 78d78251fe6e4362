----------------------------- MODULE CasinoProofs -----------------------------
(***************************************************************************)
(* Proofs about Casino and the guards it goes through, for any limits, any *)
(* addresses and any number of spins.                                      *)
(***************************************************************************)
EXTENDS Casino, SetSums

-----------------------------------------------------------------------------
(* The guards *)

\* What an address counts for in the window.
Count(a) == IF a \in DOMAIN readWindows THEN readWindows[a] ELSE 0

\* No count is beyond its limit, and nobody got more than was counted, but for the
\* counts that were lost.
LimitsInv ==
  /\ readWindows \in [DOMAIN readWindows -> 0..ReadLimit]
  /\ playWindow \in 0..PlayLimit /\ granted.plays = playWindow
  /\ resets \in Nat
  /\ granted \in [reads: [Addresses -> Nat], plays: Nat]
  /\ \A a \in Addresses : granted.reads[a] <= ReadLimit * resets + Count(a)

\* The steps of the guards and of their clock.
LimitsNext ==
  \/ \E a \in Addresses, withKey \in BOOLEAN : Admitted(a, withKey)
  \/ PlayAdmitted
  \/ \E b \in BOOLEAN : SetActive(b)
  \/ \E a \in Addresses : NextWindow(a)

\* A read that is let through is counted, and the counts lost to a full map are those
\* of other addresses.
LEMMA AdmittedKeeps ==
  ASSUME LimitsInv, NEW a \in Addresses, NEW withKey, Admitted(a, withKey)
  PROVE  LimitsInv'
<1> DEFINE reads == granted.reads
           more == [reads EXCEPT ![a] = reads[a] + 1]
           kept == IF Overflows(a) THEN {} ELSE DOMAIN readWindows
           lost == ReadLimit * resets
<1>0. /\ ReadLimit \in Nat \ {0} /\ PlayLimit \in Nat
      /\ resets \in Nat /\ reads \in [Addresses -> Nat] /\ granted.plays \in Nat
      /\ granted = [reads |-> reads, plays |-> granted.plays]
  BY LimitsAssumption DEF LimitsInv
<1>1. CASE UNCHANGED <<readWindows, granted, resets>>
  BY <1>1 DEF Admitted, LimitsInv, Count
<1>2. ASSUME ~Credentialed(withKey)
      PROVE  LimitsInv'
  <2>1. /\ ~(Fresh(a) /\ readWindows[a] >= ReadLimit)
        /\ readWindows' = Counted(a)
        /\ granted' = [granted EXCEPT !.reads[a] = granted.reads[a] + 1]
        /\ resets' = IF Overflows(a) THEN resets + 1 ELSE resets
        /\ UNCHANGED <<playWindow, active>>
    BY <1>2 DEF Admitted, Refused
  <2>2. \A b \in DOMAIN readWindows : readWindows[b] \in 0..ReadLimit
    BY DEF LimitsInv
  <2>3. more \in [Addresses -> Nat] /\ more[a] = reads[a] + 1
        /\ \A b \in Addresses : b # a => more[b] = reads[b]
    BY <1>0
  <2>4. granted'.reads = more /\ granted'.plays = granted.plays
        /\ granted' = [reads |-> more, plays |-> granted.plays]
    BY <1>0, <2>1
  <2>5. /\ DOMAIN readWindows' = kept \cup {a}
        /\ \A b \in kept : b # a => readWindows'[b] = readWindows[b]
        /\ readWindows'[a] = IF Fresh(a) THEN readWindows[a] + 1 ELSE 1
        /\ readWindows' = [b \in kept \cup {a} |-> readWindows'[b]]
    BY <2>1 DEF Counted
  <2>6. readWindows'[a] \in 0..ReadLimit /\ readWindows'[a] = Count(a) + 1
    <3>1. CASE Fresh(a)
      BY <1>0, <2>1, <2>2, <2>5, <3>1 DEF Fresh, Count
    <3>2. CASE ~Fresh(a)
      BY <1>0, <2>2, <2>5, <3>2 DEF Fresh, Count
    <3> QED
      BY <3>1, <3>2
  <2>7. ASSUME NEW b \in kept \cup {a} PROVE readWindows'[b] \in 0..ReadLimit
    BY <2>2, <2>5, <2>6
  <2>8. \A b \in Addresses : Count(b) \in 0..ReadLimit /\ reads[b] <= lost + Count(b)
    BY <1>0, <2>2 DEF Count, LimitsInv
  <2>9. \A b \in Addresses : b # a /\ ~Overflows(a) => Count(b)' = Count(b)
    BY <2>5 DEF Count
  <2>10. \A b \in Addresses : b # a /\ Overflows(a) => Count(b)' = 0
    BY <2>5 DEF Count
  <2>11. Count(a)' = Count(a) + 1
    BY <2>5, <2>6 DEF Count
  <2>12. lost \in Nat /\ ReadLimit * (resets + 1) = lost + ReadLimit
    BY <1>0
  <2> HIDE DEF more, kept, reads
  <2>13. ASSUME NEW b \in Addresses
         PROVE  more[b] <= ReadLimit * resets' + Count(b)'
    <3>1. reads[b] \in Nat /\ Count(b) \in 0..ReadLimit /\ reads[b] <= lost + Count(b)
      BY <1>0, <2>8
    <3>2. CASE ~Overflows(a)
      <4>1. ReadLimit * resets' = lost
        BY <2>1, <3>2
      <4> HIDE DEF lost
      <4>2. CASE b = a
        BY <1>0, <2>3, <2>11, <2>12, <3>1, <4>1, <4>2
      <4>3. CASE b # a
        BY <1>0, <2>3, <2>9, <2>12, <3>1, <3>2, <4>1, <4>3
      <4> QED
        BY <4>2, <4>3
    <3>3. CASE Overflows(a)
      <4>1. ReadLimit * resets' = lost + ReadLimit
        BY <2>1, <2>12, <3>3
      <4> HIDE DEF lost
      <4>2. CASE b = a
        BY <1>0, <2>3, <2>11, <2>12, <3>1, <4>1, <4>2
      <4>3. CASE b # a
        BY <1>0, <2>3, <2>10, <2>12, <3>1, <3>3, <4>1, <4>3
      <4> QED
        BY <4>2, <4>3
    <3> QED
      BY <3>2, <3>3
  <2>14. resets' \in Nat
    BY <1>0, <2>1
  <2>15. granted' \in [reads: [Addresses -> Nat], plays: Nat]
    BY <1>0, <2>3, <2>4
  <2>16. readWindows' \in [DOMAIN readWindows' -> 0..ReadLimit]
    BY <2>5, <2>7
  <2> QED
    BY <2>1, <2>4, <2>13, <2>14, <2>15, <2>16 DEF LimitsInv
<1> QED
  BY <1>1, <1>2 DEF Admitted

\* A new window starts with one read.
LEMMA NextWindowKeeps ==
  ASSUME LimitsInv, NEW a \in Addresses, NextWindow(a)
  PROVE  LimitsInv'
<1> DEFINE kept == IF Cardinality(DOMAIN readWindows) > MaxAddresses THEN {} ELSE DOMAIN readWindows
           reads == [b \in Addresses |-> IF b = a THEN 1 ELSE 0]
<1>1. /\ readWindows' = [b \in kept \cup {a} |-> IF b = a THEN 1 ELSE 0]
      /\ playWindow' = 0 /\ resets' = 0
      /\ granted' = [Unused EXCEPT !.reads[a] = 1]
  BY DEF NextWindow
<1>2. granted' = [reads |-> reads, plays |-> 0]
  BY <1>1 DEF Unused
<1>3. granted' \in [reads: [Addresses -> Nat], plays: Nat] /\ granted'.plays = 0
  BY <1>2
<1> HIDE DEF kept
<1>4. readWindows' \in [DOMAIN readWindows' -> 0..ReadLimit]
  BY <1>1, LimitsAssumption
<1>5. \A b \in Addresses : granted'.reads[b] <= Count(b)'
  BY <1>1, <1>2 DEF Count
<1>6. ReadLimit * resets' = 0 /\ \A b \in Addresses : 0 + Count(b)' = Count(b)'
  BY <1>1, LimitsAssumption DEF Count
<1>7. playWindow' \in 0..PlayLimit /\ resets' \in Nat
  BY <1>1, LimitsAssumption
<1> QED
  BY <1>1, <1>3, <1>4, <1>5, <1>6, <1>7 DEF LimitsInv

\* The guards keep the invariant.
LEMMA LimitsKept ==
  ASSUME LimitsInv, LimitsNext \/ UNCHANGED limitVars
  PROVE  LimitsInv'
<1>1. ASSUME PlayAdmitted PROVE LimitsInv'
  <2>1. /\ playWindow' = playWindow + 1 /\ ~(playWindow >= PlayLimit)
        /\ granted' = [granted EXCEPT !.plays = granted.plays + 1]
        /\ UNCHANGED <<readWindows, resets>>
    BY <1>1 DEF PlayAdmitted, PlayRefused
  <2>2. /\ granted'.reads = granted.reads /\ granted'.plays = granted.plays + 1
        /\ granted' \in [reads: [Addresses -> Nat], plays: Nat]
    BY <2>1 DEF LimitsInv
  <2>3. playWindow' \in 0..PlayLimit
    BY <2>1, LimitsAssumption DEF LimitsInv
  <2> QED
    BY <2>1, <2>2, <2>3 DEF LimitsInv, Count
<1>2. ASSUME NEW b, SetActive(b) PROVE LimitsInv'
  BY <1>2 DEF SetActive, LimitsInv, Count
<1>3. ASSUME UNCHANGED limitVars PROVE LimitsInv'
  BY <1>3 DEF limitVars, LimitsInv, Count
<1> QED
  BY <1>1, <1>2, <1>3, AdmittedKeeps, NextWindowKeeps DEF LimitsNext
-----------------------------------------------------------------------------
(* The casino only goes through the guards *)

\* A request of a proof passes the read limit or leaves it alone.
LEMMA ReadsAreGuarded ==
  ASSUME NEW i \in DOMAIN rows, NEW who \in {"click", "poll"}, BackendReads(i, who)
  PROVE  LimitsNext \/ UNCHANGED limitVars
<1>0. Backend \in Addresses
  BY CasinoAssumption
<1>1. ASSUME ReadEpoch(i, who) \/ ReadPage(i, who) \/ ReadRule(i, who) \/ ReadProof(i, who)
      PROVE  LimitsNext
  <2>1. Admitted(Backend, FALSE)
    BY <1>1 DEF ReadEpoch, ReadPage, ReadRule, ReadProof
  <2> QED
    BY <1>0, <2>1 DEF LimitsNext
<1>2. ASSUME CheckRefused(i, who)
      PROVE  UNCHANGED limitVars
  BY <1>2 DEF CheckRefused
<1>3. ASSUME ProofUnknown(i, who)
      PROVE  Admitted(Backend, FALSE) \/ UNCHANGED limitVars
  BY <1>3 DEF ProofUnknown
<1> QED
  BY <1>0, <1>1, <1>2, <1>3 DEF BackendReads, LimitsNext

\* So does a spin, with the play limit.
LEMMA SpinsAreGuarded ==
  ASSUME SpinSteps \/ SpinBad \/ SpinLost
  PROVE  LimitsNext \/ UNCHANGED limitVars
<1>0. Backend \in Addresses
  BY CasinoAssumption
<1>1. ASSUME SpinRejected
      PROVE  Admitted(Backend, TRUE) \/ PlayAdmitted \/ UNCHANGED limitVars
  BY <1>1 DEF SpinRejected
<1>2. ASSUME Plays
      PROVE  PlayAdmitted
  BY <1>2 DEF Plays
<1>3. ASSUME SpinBad \/ SpinRegisters \/ SpinAnswered \/ SpinFailed \/ Settle
      PROVE  UNCHANGED limitVars
  BY <1>3 DEF SpinBad, SpinRegisters, SpinAnswered, SpinFailed, Settle
<1>4. (\E won \in BOOLEAN : SpinPlays(won)) => Plays
  BY DEF SpinPlays
<1>5. SpinLost => Plays
  BY DEF SpinLost
<1> QED
  BY <1>0, <1>1, <1>2, <1>3, <1>4, <1>5 DEF SpinSteps, LimitsNext

\* Whatever the casino does to the limits, the guards and their clock do.
LEMMA CasinoIsGuarded ==
  ASSUME CasinoNext \/ UNCHANGED casinoVars
  PROVE  LimitsNext \/ UNCHANGED limitVars
<1>0. Backend \in Addresses
  BY CasinoAssumption
<1>1. ASSUME ServerMoves PROVE UNCHANGED limitVars
  BY <1>1 DEF ServerMoves
<1>2. ASSUME SuspendOrResume PROVE SetActive(FALSE) \/ SetActive(TRUE)
  BY <1>2 DEF SuspendOrResume
<1>3. ASSUME WindowTurns PROVE NextWindow(Backend)
  BY <1>3 DEF WindowTurns
<1>4. ASSUME BackendRestarts PROVE UNCHANGED limitVars
  BY <1>4 DEF BackendRestarts
<1>5. ASSUME NEW a \in Addresses, StrangerReads(a) PROVE Admitted(a, FALSE)
  BY <1>5 DEF StrangerReads
<1>6. ASSUME NEW bet, NEW stake, DoSpin(bet, stake) PROVE UNCHANGED limitVars
  BY <1>6 DEF DoSpin
<1>7. ASSUME NEW i, NEW who, ProofLost(i, who) PROVE UNCHANGED limitVars
  BY <1>7 DEF ProofLost, OnPage
<1>8. ASSUME NEW i, Verify(i) \/ Poll(i) \/ ClickAnswered(i) \/ PollAnswered(i) \/ Hide(i)
      PROVE  UNCHANGED limitVars
  BY <1>8 DEF Verify, Poll, ClickAnswered, PollAnswered, Hide, OnPage
<1>9. ASSUME UNCHANGED casinoVars PROVE UNCHANGED limitVars
  BY <1>9 DEF casinoVars
<1>10. ASSUME \/ SuspendOrResume \/ WindowTurns
              \/ \E a \in Addresses : StrangerReads(a)
       PROVE  LimitsNext
  BY <1>0, <1>2, <1>3, <1>5, <1>10 DEF LimitsNext
<1> QED
  BY <1>1, <1>4, <1>6, <1>7, <1>8, <1>9, <1>10, ReadsAreGuarded, SpinsAreGuarded DEF CasinoNext

\* In one window no address gets more reads and the operator no more plays than the
\* limits, but for the counts that are lost, whatever the casino, its players and
\* strangers do (canActivate of ReadRateGuard and PlayRateGuard).
THEOREM LimitsAreKept == CasinoSpec => []LimitsHold
<1>1. CasinoInit => LimitsInv
  <2> SUFFICES ASSUME CasinoInit PROVE LimitsInv
    OBVIOUS
  <2>1. /\ readWindows = <<>> /\ playWindow = 0 /\ resets = 0
        /\ granted = [reads |-> [a \in Addresses |-> 0], plays |-> 0]
    BY DEF CasinoInit, LimitsInit, Unused
  <2>2. granted.plays = 0 /\ granted.reads \in [Addresses -> Nat]
        /\ \A a \in Addresses : granted.reads[a] = 0
    BY <2>1
  <2>3. DOMAIN readWindows = {} /\ readWindows \in [DOMAIN readWindows -> 0..ReadLimit]
    BY <2>1
  <2>4. \A a \in Addresses : Count(a) = 0
    BY <2>3 DEF Count
  <2>5. ReadLimit * resets = 0
    BY <2>1, LimitsAssumption
  <2> QED
    BY <2>1, <2>2, <2>3, <2>4, <2>5, LimitsAssumption DEF LimitsInv
<1>2. LimitsInv /\ [CasinoNext]_casinoVars => LimitsInv'
  BY LimitsKept, CasinoIsGuarded
<1>3. LimitsInv => LimitsHold
  <2> SUFFICES ASSUME LimitsInv PROVE LimitsHold
    OBVIOUS
  <2> DEFINE lost == ReadLimit * resets
  <2>1. /\ ReadLimit \in Nat /\ PlayLimit \in Nat /\ lost \in Nat
        /\ ReadLimit * (1 + resets) = ReadLimit + lost
    BY LimitsAssumption DEF LimitsInv
  <2>2. ASSUME NEW a \in Addresses
        PROVE  granted.reads[a] <= ReadLimit * (1 + resets)
    <3>1. Count(a) \in 0..ReadLimit
      BY LimitsAssumption DEF LimitsInv, Count
    <3>2. granted.reads[a] \in Nat /\ granted.reads[a] <= lost + Count(a)
      BY <2>2 DEF LimitsInv
    <3> HIDE DEF lost
    <3> QED
      BY <2>1, <3>1, <3>2
  <2>3. granted.plays <= PlayLimit
    BY LimitsAssumption DEF LimitsInv
  <2> QED
    BY <2>2, <2>3 DEF LimitsHold
<1> QED
  BY <1>1, <1>2, <1>3, PTL DEF CasinoSpec
-----------------------------------------------------------------------------
(* The server's ledger *)

BetRow == [bet: Nat, client: {Me, Others}, nonce: Nat]

Entry == [phase: {"sealed", "accepting"}, bets: SUBSET BetRow, revealed: BOOLEAN]

\* The bets of an epoch have numbers below their count.
Numbered(bets) ==
  /\ IsFiniteSet(bets)
  /\ \A b \in bets : b.bet < Cardinality(bets)

LedgerInv(l) ==
  /\ l \in Seq(Entry)
  /\ \A e \in 1..Len(l) : Numbered(l[e].bets)

\* The ledger only ever grows, and so does each of its epochs.
Grown(l, m) ==
  /\ Len(l) <= Len(m)
  /\ \A e \in 1..Len(l) : l[e].bets \subseteq m[e].bets

\* Bet k of epoch e is the player's.
Mine(l, e, k) == e \in 1..Len(l) /\ \E b \in l[e].bets : b.client = Me /\ b.bet = k

\* A bet stays the player's.
LEMMA MineStays ==
  ASSUME NEW l, NEW m, LedgerInv(l), LedgerInv(m), Grown(l, m), NEW e, NEW k, Mine(l, e, k)
  PROVE  Mine(m, e, k)
<1>1. e \in 1..Len(l) /\ Len(l) \in Nat /\ Len(m) \in Nat /\ e \in 1..Len(m)
  BY DEF LedgerInv, Grown, Mine
<1> QED
  BY <1>1 DEF Grown, Mine

\* Growing twice is growing.
LEMMA GrownTwice ==
  ASSUME NEW l, NEW m, NEW n, LedgerInv(l), LedgerInv(m), LedgerInv(n), Grown(l, m), Grown(m, n)
  PROVE  Grown(l, n)
<1>1. Len(l) \in Nat /\ Len(m) \in Nat /\ Len(n) \in Nat
  BY DEF LedgerInv
<1>2. 1..Len(l) \subseteq 1..Len(m)
  BY <1>1 DEF Grown
<1> QED
  BY <1>1, <1>2 DEF Grown

\* A ledger one of whose entries takes more bets, and one that stays, are good ledgers.
LEMMA EntryChanged ==
  ASSUME NEW l, LedgerInv(l), NEW n \in 1..Len(l), NEW entry \in Entry,
         l[n].bets \subseteq entry.bets, Numbered(entry.bets)
  PROVE  /\ LedgerInv([l EXCEPT ![n] = entry])
         /\ Grown(l, [l EXCEPT ![n] = entry])
         /\ Len([l EXCEPT ![n] = entry]) = Len(l)
<1> DEFINE m == [l EXCEPT ![n] = entry]
<1>1. l \in Seq(Entry) /\ Len(l) \in Nat /\ DOMAIN l = 1..Len(l)
  BY DEF LedgerInv
<1>2. m \in Seq(Entry) /\ Len(m) = Len(l) /\ m[n] = entry
      /\ \A e \in 1..Len(l) : e # n => m[e] = l[e]
  BY <1>1
<1> HIDE DEF m
<1>3. LedgerInv(m)
  BY <1>2 DEF LedgerInv
<1>4. Grown(l, m)
  BY <1>1, <1>2 DEF Grown
<1> QED
  BY <1>2, <1>3, <1>4 DEF m

\* A ledger that stays has grown by nothing.
LEMMA Ungrown ==
  ASSUME NEW l, LedgerInv(l)
  PROVE  Grown(l, l)
BY DEF LedgerInv, Grown

\* Sealing takes no bets away.
LEMMA SealingKeeps ==
  ASSUME NEW l, LedgerInv(l), NEW m \in Server!Sealings(l)
  PROVE  LedgerInv(m) /\ Grown(l, m)
<1>1. CASE m = l
  BY <1>1, Ungrown
<1>2. CASE m # l
  <2> DEFINE n == Len(l)
  <2>1. Server!Accepting(l)
    BY <1>2 DEF Server!Sealings
  <2>2. n \in 1..Len(l) /\ l[n] \in Entry
    BY <2>1 DEF Server!Accepting, LedgerInv
  <2>3. PICK b \in BOOLEAN :
          m = [l EXCEPT ![n] = [phase |-> "sealed", bets |-> l[n].bets, revealed |-> b]]
    BY <1>2, <2>1 DEF Server!Sealings
  <2> DEFINE entry == [phase |-> "sealed", bets |-> l[n].bets, revealed |-> b]
  <2>4. entry \in Entry /\ entry.bets = l[n].bets
    BY <2>2 DEF Entry
  <2>5. Numbered(entry.bets)
    BY <2>2, <2>4 DEF LedgerInv
  <2>6. m = [l EXCEPT ![n] = entry]
    BY <2>3
  <2> HIDE DEF n, entry
  <2> QED
    BY <2>2, <2>4, <2>5, <2>6, EntryChanged
<1> QED
  BY <1>1, <1>2

\* An epoch that is opened has no bets.
LEMMA CommitmentKeeps ==
  ASSUME NEW l, LedgerInv(l), NEW m \in Server!Commitments(l)
  PROVE  LedgerInv(m) /\ Grown(l, m)
<1>1. CASE m = l
  BY <1>1, Ungrown
<1>2. CASE m # l
  <2>1. m = Append(l, Server!Committed)
    BY <1>2 DEF Server!Commitments
  <2>2. Server!Committed \in Entry /\ Server!Committed.bets = {}
    BY DEF Server!Committed, Entry
  <2>3. l \in Seq(Entry) /\ Len(l) \in Nat
    BY DEF LedgerInv
  <2>4. /\ m \in Seq(Entry) /\ Len(m) = Len(l) + 1 /\ m[Len(l) + 1] = Server!Committed
        /\ \A e \in 1..Len(l) : m[e] = l[e]
    BY <2>1, <2>2, <2>3
  <2>5. Numbered({})
    BY FS_EmptySet DEF Numbered
  <2>6. ASSUME NEW e \in 1..Len(m) PROVE Numbered(m[e].bets)
    <3>1. e \in 1..Len(l) \/ e = Len(l) + 1
      BY <2>3, <2>4
    <3> QED
      BY <2>2, <2>4, <2>5, <3>1 DEF LedgerInv
  <2> QED
    BY <2>3, <2>4, <2>6 DEF LedgerInv, Grown
<1> QED
  BY <1>1, <1>2

\* The ledger counts as the casino does.
LEMMA SameCount == \A S : Server!Cardinality(S) = Cardinality(S)
BY DEF Server!Cardinality, Server!IsFiniteSet, Cardinality, IsFiniteSet

\* In m the epoch that takes bets has one more.
OneMore(l, c, m) == m = [l EXCEPT ![Len(l)].bets = @ \cup {Server!NextBet(@, c)}]

\* The next bet of an epoch has a number no bet of it has.
LEMMA BetTaken ==
  ASSUME NEW l, LedgerInv(l), Server!Accepting(l), NEW c \in {Me, Others}, NEW m,
         OneMore(l, c, m)
  PROVE  /\ LedgerInv(m) /\ Grown(l, m) /\ Len(m) = Len(l) /\ Len(l) \in 1..Len(l)
         /\ Cardinality(m[Len(l)].bets) - 1 = Cardinality(l[Len(l)].bets)
         /\ \E b \in m[Len(l)].bets : b.client = c /\ b.bet = Cardinality(l[Len(l)].bets)
<1> DEFINE n == Len(l)
           bets == l[n].bets
           next == Server!NextBet(bets, c)
           entry == [l[n] EXCEPT !.bets = bets \cup {next}]
           count == Cardinality(bets)
           mine == {b \in bets : b.client = c}
<1>1. n \in 1..Len(l) /\ l[n] \in Entry /\ Numbered(bets)
  BY DEF Server!Accepting, LedgerInv
<1>2. bets \in SUBSET BetRow /\ IsFiniteSet(bets) /\ count \in Nat /\ \A b \in bets : b.bet < count
  BY <1>1, FS_CardinalityType DEF Entry, Numbered
<1>3. Cardinality(mine) \in Nat
  BY <1>2, FS_Subset, FS_CardinalityType
<1>4. next.bet = count /\ next.client = c /\ next \in BetRow
  <2>1. next = [bet |-> count, client |-> c, nonce |-> Cardinality(mine)]
    BY SameCount DEF Server!NextBet
  <2> HIDE DEF next, count, mine
  <2> QED
    BY <1>2, <1>3, <2>1 DEF BetRow
<1>5. m = [l EXCEPT ![n] = entry]
  BY DEF OneMore
<1>6. entry \in Entry /\ entry.bets = bets \cup {next}
  BY <1>1, <1>2, <1>4 DEF Entry
<1>7. next \notin bets
  BY <1>2, <1>4 DEF BetRow
<1> HIDE DEF next, bets, count, n
<1>8. IsFiniteSet(bets \cup {next}) /\ Cardinality(bets \cup {next}) = count + 1
  BY <1>2, <1>7, FS_AddElement DEF count
<1>9. Numbered(entry.bets)
  <2>1. \A b \in bets : b.bet \in Nat
    BY <1>2 DEF BetRow
  <2> HIDE DEF entry
  <2>2. \A b \in bets \cup {next} : b.bet < count + 1
    BY <1>2, <1>4, <2>1
  <2> QED
    BY <1>6, <1>8, <2>2 DEF Numbered
<1>10. l[n].bets \subseteq entry.bets
  BY <1>6 DEF bets
<1> HIDE DEF entry
<1>11. LedgerInv(m) /\ Grown(l, m) /\ Len(m) = Len(l)
  BY <1>1, <1>5, <1>6, <1>9, <1>10, EntryChanged
<1>12. m[n].bets = bets \cup {next}
  BY <1>1, <1>5, <1>6 DEF LedgerInv
<1>13. Cardinality(m[n].bets) - 1 = count
  BY <1>2, <1>8, <1>12
<1>14. next \in m[n].bets
  BY <1>12
<1> QED
  BY <1>1, <1>4, <1>11, <1>13, <1>14 DEF n, bets, count
\* A bet that is recorded is one more.
LEMMA RecordingKeeps ==
  ASSUME NEW l, LedgerInv(l), NEW m \in Server!Recordings(l)
  PROVE  LedgerInv(m) /\ Grown(l, m)
<1>1. CASE m = l
  BY <1>1, Ungrown
<1>2. CASE m # l
  <2>1. Server!Accepting(l)
    BY <1>2 DEF Server!Recordings
  <2>2. PICK c \in {Me, Others} : OneMore(l, c, m)
    BY <1>2 DEF Server!Recordings, OneMore
  <2> QED
    BY <2>1, <2>2, BetTaken
<1> QED
  BY <1>1, <1>2

\* In m the seed of epoch e is revealed.
Shown(l, e, m) == m = [l EXCEPT ![e].revealed = TRUE]

\* A seed that is revealed takes no bets away.
LEMMA RevealKeeps ==
  ASSUME NEW l, LedgerInv(l), NEW e \in DOMAIN l, NEW m, Shown(l, e, m)
  PROVE  LedgerInv(m) /\ Grown(l, m)
<1> DEFINE entry == [l[e] EXCEPT !.revealed = TRUE]
<1>1. e \in 1..Len(l) /\ l[e] \in Entry /\ Numbered(l[e].bets)
  BY DEF LedgerInv
<1>2. entry \in Entry /\ entry.bets = l[e].bets
  BY <1>1 DEF Entry
<1>3. m = [l EXCEPT ![e] = entry]
  BY DEF Shown
<1> HIDE DEF entry
<1> QED
  BY <1>1, <1>2, <1>3, EntryChanged

\* Whatever the server does, the ledger grows.
LEMMA ServerKeeps ==
  ASSUME LedgerInv(ledger), Server!Next
  PROVE  LedgerInv(ledger') /\ Grown(ledger, ledger')
<1>1. ASSUME Server!Advance
      PROVE  LedgerInv(ledger') /\ Grown(ledger, ledger')
  <2>1. PICK sealed \in Server!Sealings(ledger) :
          \E committed \in Server!Commitments(sealed) : ledger' \in Server!Recordings(committed)
    BY <1>1 DEF Server!Advance
  <2>2. PICK committed \in Server!Commitments(sealed) : ledger' \in Server!Recordings(committed)
    BY <2>1
  <2>3. LedgerInv(sealed) /\ Grown(ledger, sealed)
    BY SealingKeeps
  <2>4. LedgerInv(committed) /\ Grown(sealed, committed)
    BY <2>3, CommitmentKeeps
  <2>5. LedgerInv(ledger') /\ Grown(committed, ledger')
    BY <2>2, <2>4, RecordingKeeps
  <2>6. Grown(ledger, committed)
    BY <2>3, <2>4, GrownTwice
  <2> QED
    BY <2>4, <2>5, <2>6, GrownTwice
<1>2. ASSUME Server!Reveal
      PROVE  LedgerInv(ledger') /\ Grown(ledger, ledger')
  <2>1. PICK e \in DOMAIN ledger : Shown(ledger, e, ledger')
    BY <1>2 DEF Server!Reveal, Shown
  <2> QED
    BY <2>1, RevealKeeps
<1> QED
  BY <1>1, <1>2 DEF Server!Next

\* An epoch is opened when none is, and then one is.
LEMMA OpenedKeeps ==
  ASSUME NEW l, LedgerInv(l)
  PROVE  LedgerInv(OpenedOf(l)) /\ Grown(l, OpenedOf(l)) /\ Server!Accepting(OpenedOf(l))
<1>1. OpenedOf(l) \in Server!Commitments(l)
  BY DEF OpenedOf, Server!Commitments
<1>2. CASE Server!Accepting(l)
  BY <1>1, <1>2, CommitmentKeeps DEF OpenedOf
<1>3. CASE ~Server!Accepting(l)
  <2> DEFINE m == Append(l, Server!Committed)
  <2>1. OpenedOf(l) = m
    BY <1>3 DEF OpenedOf
  <2>2. Server!Committed \in Entry /\ Server!Committed.phase = "accepting"
    BY DEF Server!Committed, Entry
  <2>3. l \in Seq(Entry) /\ Len(l) \in Nat
    BY DEF LedgerInv
  <2>4. Len(m) = Len(l) + 1 /\ m[Len(l) + 1] = Server!Committed
    BY <2>2, <2>3
  <2>5. m # <<>>
    BY <2>2, <2>3, <2>4
  <2>6. Server!Accepting(m)
    BY <2>2, <2>4, <2>5 DEF Server!Accepting
  <2> QED
    BY <1>1, <2>1, <2>6, CommitmentKeeps
<1> QED
  BY <1>2, <1>3

\* A bet of the player is one the player did not have.
LEMMA PlayedKeeps ==
  ASSUME NEW l, LedgerInv(l), NEW m, m = PlayedOf(l, Me)
  PROVE  /\ LedgerInv(m) /\ Grown(l, m)
         /\ Mine(m, Len(m), Cardinality(m[Len(m)].bets) - 1)
         /\ ~Mine(l, Len(m), Cardinality(m[Len(m)].bets) - 1)
<1> DEFINE open == OpenedOf(l)
           n == Len(open)
           k == Cardinality(open[n].bets)
<1>1. LedgerInv(open) /\ Grown(l, open) /\ Server!Accepting(open)
  BY OpenedKeeps
<1>2. OneMore(open, Me, m)
  BY DEF PlayedOf, OneMore
<1> HIDE DEF open
<1>3. /\ LedgerInv(m) /\ Grown(open, m) /\ Len(m) = n /\ n \in 1..n
      /\ Cardinality(m[n].bets) - 1 = k
      /\ \E b \in m[n].bets : b.client = Me /\ b.bet = k
  BY <1>1, <1>2, BetTaken
<1>4. Grown(l, m)
  BY <1>1, <1>3, GrownTwice
<1>5. Mine(m, n, k)
  BY <1>3 DEF Mine
<1>6. ASSUME Mine(l, n, k) PROVE FALSE
  <2>1. PICK b \in l[n].bets : b.bet = k
    BY <1>6 DEF Mine
  <2>2. b \in open[n].bets
    BY <1>1, <1>6, <2>1 DEF Mine, Grown
  <2>3. Numbered(open[n].bets) /\ open[n].bets \in SUBSET BetRow
    <3>1. open[n] \in Entry /\ Numbered(open[n].bets)
      BY <1>1, <1>3 DEF LedgerInv
    <3> QED
      BY <3>1 DEF Entry
  <2>4. b.bet < k /\ b.bet \in Nat
    BY <2>2, <2>3 DEF Numbered, BetRow
  <2> HIDE DEF k
  <2> QED
    BY <2>1, <2>4
<1> QED
  BY <1>3, <1>4, <1>5, <1>6
-----------------------------------------------------------------------------
(* The table of results *)

\* What a row says of its bet.
ResultFields == {"epoch", "bet", "net"}

SameRow(r, q) ==
  /\ ResultFields \subseteq DOMAIN q
  /\ q.epoch = r.epoch /\ q.bet = r.bet /\ q.net = r.net

IsTable(rs) ==
  \E n \in Nat :
    /\ DOMAIN rs = 1..n /\ rs = [i \in 1..n |-> rs[i]]
    /\ \A i \in 1..n : ResultFields \subseteq DOMAIN rs[i]

SameResults(rs, qs) ==
  /\ DOMAIN qs = DOMAIN rs /\ qs = [i \in DOMAIN rs |-> qs[i]]
  /\ \A i \in DOMAIN rs : SameRow(rs[i], qs[i])

\* A field of a proof is none of the result.
LEMMA FieldChanged ==
  ASSUME NEW r, ResultFields \subseteq DOMAIN r, NEW f \in STRING \ ResultFields, NEW v
  PROVE  SameRow(r, [r EXCEPT ![f] = v])
BY DEF SameRow, ResultFields

\* Rows with the same result as a third have each other's.
LEMMA SameRowTwice ==
  ASSUME NEW r, NEW q, NEW t, SameRow(r, q), SameRow(q, t)
  PROVE  SameRow(r, t)
BY DEF SameRow

\* A row that is replaced by one with the same result.
LEMMA RowReplaced ==
  ASSUME NEW rs, IsTable(rs), NEW i \in DOMAIN rs, NEW r, SameRow(rs[i], r)
  PROVE  SameResults(rs, [rs EXCEPT ![i] = r])
<1>1. \A j \in DOMAIN rs : SameRow(rs[j], rs[j])
  BY DEF SameRow, IsTable
<1> QED
  BY <1>1 DEF SameResults

\* A panel is rendered without a change to the result.
LEMMA RenderedKeeps ==
  ASSUME NEW r, ResultFields \subseteq DOMAIN r, NEW fetch
  PROVE  SameRow(r, Rendered(r, fetch))
BY DEF Rendered, SameRow, ResultFields

\* A fetch that fails changes no result.
LEMMA FailedKeeps ==
  ASSUME NEW r, ResultFields \subseteq DOMAIN r, NEW who \in {"click", "poll"}
  PROVE  SameRow(r, Failed(r, who))
BY DEF Failed, SameRow, ResultFields

\* Rows that stay keep their results.
LEMMA RowsStay ==
  ASSUME NEW rs, IsTable(rs)
  PROVE  SameResults(rs, rs)
BY DEF IsTable, SameResults, SameRow

\* The requests of a proof change no result.
LEMMA ReadsKeepResults ==
  ASSUME IsTable(rows), NEW i \in DOMAIN rows, NEW who \in {"click", "poll"},
         BackendReads(i, who) \/ ProofLost(i, who)
  PROVE  SameResults(rows, rows') /\ UNCHANGED <<ledger, spin, page>>
<1>0. ResultFields \subseteq DOMAIN rows[i]
  BY DEF IsTable
<1>1. ASSUME NEW fetch, Becomes(i, who, fetch)
      PROVE  SameResults(rows, rows') /\ UNCHANGED <<spin, page>>
  <2>1. rows' = [rows EXCEPT ![i] = [rows[i] EXCEPT ![who] = fetch]]
    BY <1>1 DEF Becomes
  <2>2. SameRow(rows[i], [rows[i] EXCEPT ![who] = fetch])
    BY <1>0 DEF SameRow, ResultFields
  <2> QED
    <3>1. SameResults(rows, rows')
      BY <2>1, <2>2, RowReplaced
    <3> QED
      BY <1>1, <3>1 DEF Becomes
<1>2. ASSUME rows' = [rows EXCEPT ![i] = Failed(rows[i], who)]
      PROVE  SameResults(rows, rows')
  BY <1>0, <1>2, FailedKeeps, RowReplaced
<1>3. CASE ReadEpoch(i, who) \/ ReadPage(i, who) \/ ReadRule(i, who) \/ ReadProof(i, who)
  <2>1. UNCHANGED ledger /\ \E fetch : Becomes(i, who, fetch)
    BY <1>3 DEF ReadEpoch, ReadPage, ReadRule, ReadProof
  <2> QED
    BY <1>1, <2>1
<1>4. CASE CheckRefused(i, who)
  <2>1. UNCHANGED ledger /\ \E fetch : Becomes(i, who, fetch)
    BY <1>4 DEF CheckRefused
  <2> QED
    BY <1>1, <2>1
<1>5. CASE ProofUnknown(i, who) \/ ProofLost(i, who)
  <2>1. rows' = [rows EXCEPT ![i] = Failed(rows[i], who)] /\ UNCHANGED <<ledger, spin, page>>
    BY <1>5 DEF ProofUnknown, ProofLost, OnPage, serverVars
  <2> QED
    BY <1>2, <2>1
<1> QED
  BY <1>3, <1>4, <1>5 DEF BackendReads

\* Nor do the clicks, the answers and the timer of a panel.
LEMMA PanelsKeepResults ==
  ASSUME IsTable(rows), NEW i \in DOMAIN rows,
         Verify(i) \/ Poll(i) \/ ClickAnswered(i) \/ PollAnswered(i) \/ Hide(i)
  PROVE  SameResults(rows, rows') /\ UNCHANGED <<ledger, spin, page>>
<1>0. ResultFields \subseteq DOMAIN rows[i]
  BY DEF IsTable
<1>1. UNCHANGED <<ledger, spin, page>>
  BY DEF Verify, Poll, ClickAnswered, PollAnswered, Hide, OnPage, serverVars
<1>2. ASSUME NEW r, SameRow(rows[i], r), rows' = [rows EXCEPT ![i] = r]
      PROVE  SameResults(rows, rows')
  BY <1>2, RowReplaced
<1>3. CASE Verify(i)
  <2> DEFINE r == [rows[i] EXCEPT !.cell = "dots", !.click = NewFetch]
  <2>1. rows' = [rows EXCEPT ![i] = r]
    BY <1>3 DEF Verify
  <2>2. SameRow(rows[i], r)
    BY <1>0 DEF SameRow, ResultFields
  <2> HIDE DEF r
  <2> QED
    BY <1>1, <1>2, <2>1, <2>2
<1>4. CASE Poll(i)
  <2> DEFINE r == [rows[i] EXCEPT !.due = FALSE, !.poll = NewFetch]
  <2>1. rows' = [rows EXCEPT ![i] = r]
    BY <1>4 DEF Poll
  <2>2. SameRow(rows[i], r)
    BY <1>0 DEF SameRow, ResultFields
  <2> HIDE DEF r
  <2> QED
    BY <1>1, <1>2, <2>1, <2>2
<1>5. CASE Hide(i)
  <2> DEFINE r == [rows[i] EXCEPT !.panel = "none", !.armed = FALSE, !.due = FALSE]
  <2>1. rows' = [rows EXCEPT ![i] = r]
    BY <1>5 DEF Hide
  <2>2. SameRow(rows[i], r)
    BY <1>0 DEF SameRow, ResultFields
  <2> HIDE DEF r
  <2> QED
    BY <1>1, <1>2, <2>1, <2>2
<1>6. CASE ClickAnswered(i)
  <2> DEFINE q == Rendered(rows[i], rows[i].click)
             r == [q EXCEPT !.click = Null]
  <2>1. rows' = [rows EXCEPT ![i] = r]
    BY <1>6 DEF ClickAnswered
  <2>2. SameRow(rows[i], q)
    BY <1>0, RenderedKeeps
  <2> HIDE DEF q
  <2>3. SameRow(q, r)
    BY <2>2, FieldChanged DEF SameRow, ResultFields
  <2> HIDE DEF r
  <2> QED
    BY <1>1, <1>2, <2>1, <2>2, <2>3, SameRowTwice
<1>7. CASE PollAnswered(i)
  <2> DEFINE q == IF rows[i].poll.closed THEN Rendered(rows[i], rows[i].poll) ELSE rows[i]
             r == [q EXCEPT !.poll = Null]
  <2>1. rows' = [rows EXCEPT ![i] = r]
    BY <1>7 DEF PollAnswered
  <2>2. SameRow(rows[i], q)
    BY <1>0, RenderedKeeps DEF SameRow
  <2> HIDE DEF q
  <2>3. SameRow(q, r)
    BY <2>2, FieldChanged DEF SameRow, ResultFields
  <2> HIDE DEF r
  <2> QED
    BY <1>1, <1>2, <2>1, <2>2, <2>3, SameRowTwice
<1> QED
  BY <1>1, <1>3, <1>4, <1>5, <1>6, <1>7

\* A new window and a restart reach every row, and no result.
LEMMA WindowKeepsResults ==
  ASSUME IsTable(rows), WindowTurns
  PROVE  SameResults(rows, rows')
<1>1. rows' = [i \in DOMAIN rows |-> [rows[i] EXCEPT !.due = rows[i].armed]]
  BY DEF WindowTurns
<1>2. ASSUME NEW i \in DOMAIN rows
      PROVE  SameRow(rows[i], rows'[i])
  <2>1. ResultFields \subseteq DOMAIN rows[i]
    BY DEF IsTable
  <2> QED
    BY <1>1, <2>1 DEF SameRow, ResultFields
<1> QED
  BY <1>1, <1>2 DEF SameResults

\* A restart of the backend fails fetches, and changes no result.
LEMMA RestartKeepsResults ==
  ASSUME IsTable(rows), BackendRestarts
  PROVE  SameResults(rows, rows')
<1> DEFINE polled(i) == [rows[i] EXCEPT !.poll = Null]
<1>1. rows' = [i \in DOMAIN rows |->
                 IF polled(i).click = Null THEN polled(i) ELSE Failed(polled(i), "click")]
  BY DEF BackendRestarts
<1>2. ASSUME NEW i \in DOMAIN rows
      PROVE  SameRow(rows[i], rows'[i])
  <2>1. ResultFields \subseteq DOMAIN rows[i]
    BY DEF IsTable
  <2>2. SameRow(rows[i], polled(i))
    BY <2>1 DEF SameRow, ResultFields
  <2>3. rows'[i] = IF polled(i).click = Null THEN polled(i) ELSE Failed(polled(i), "click")
    BY <1>1
  <2> HIDE DEF polled
  <2>4. SameRow(polled(i), Failed(polled(i), "click"))
    BY <2>2, FailedKeeps DEF SameRow
  <2> QED
    BY <2>2, <2>3, <2>4, SameRowTwice
<1> QED
  BY <1>1, <1>2 DEF SameResults
-----------------------------------------------------------------------------
(* The results and the chips *)

\* A receipt of a bet of the player that no row shows yet.
Ticket(l, rs, s) ==
  /\ s \in SpinRequests
  /\ s.receipt \in SpinReceipts
  /\ Mine(l, s.receipt.epoch, s.receipt.bet)
  /\ \A i \in DOMAIN rs : rs[i].epoch # s.receipt.epoch \/ rs[i].bet # s.receipt.bet

\* The results are bets of the player, each shown once.
TableInv(l, rs) ==
  /\ IsTable(rs)
  /\ \A i \in DOMAIN rs : rs[i].net \in Int /\ Mine(l, rs[i].epoch, rs[i].bet)
  /\ \A i, j \in DOMAIN rs : rs[i].epoch = rs[j].epoch /\ rs[i].bet = rs[j].bet => i = j

\* A spin is on its way, or a ball is rolling, or neither.
SpinInv(l, rs, pg, s) ==
  /\ pg \in [phase: {"idle", "asking", "spinning"}, chips: Int, pending: SpinRequests \cup {Null}]
  /\ s \in SpinRequests
  /\ pg.phase = "idle" => s = NoSpin /\ pg.pending = Null
  /\ pg.phase = "asking" => s.stage # "none" /\ pg.pending = Null
  /\ pg.phase = "spinning" => s = NoSpin /\ Ticket(l, rs, pg.pending)
  /\ s.stage = "answer" => Ticket(l, rs, s)

NetOf(rs) == [i \in DOMAIN rs |-> rs[i].net]

\* The chips are what the results and the stake on the wheel leave.
ChipsInv(rs, pg) ==
  pg.chips = StartChips + SumFunction(NetOf(rs))
               - (IF pg.pending = Null THEN 0 ELSE pg.pending.stake)

PlayInv(l, rs, pg, s) ==
  LedgerInv(l) /\ TableInv(l, rs) /\ SpinInv(l, rs, pg, s) /\ ChipsInv(rs, pg)

\* The ledger grows and the rows keep their results.
LEMMA TicketStays ==
  ASSUME NEW l, NEW m, LedgerInv(l), LedgerInv(m), Grown(l, m),
         NEW rs, NEW qs, SameResults(rs, qs), NEW s, Ticket(l, rs, s)
  PROVE  Ticket(m, qs, s)
<1>1. Mine(m, s.receipt.epoch, s.receipt.bet)
  BY MineStays DEF Ticket
<1> QED
  BY <1>1 DEF Ticket, SameResults, SameRow

\* A table with the same results is right about a ledger that has grown.
LEMMA TableStays ==
  ASSUME NEW l, NEW m, LedgerInv(l), LedgerInv(m), Grown(l, m),
         NEW rs, NEW qs, SameResults(rs, qs), TableInv(l, rs)
  PROVE  TableInv(m, qs) /\ NetOf(qs) = NetOf(rs)
<1>1. \A i \in DOMAIN rs : Mine(m, rs[i].epoch, rs[i].bet)
  BY MineStays DEF TableInv
<1>2. DOMAIN qs = DOMAIN rs
      /\ \A i \in DOMAIN rs : qs[i].epoch = rs[i].epoch /\ qs[i].bet = rs[i].bet /\ qs[i].net = rs[i].net
  BY DEF SameResults, SameRow
<1>3. IsTable(qs)
  BY DEF SameResults, SameRow, TableInv, IsTable
<1>4. NetOf(qs) = NetOf(rs)
  BY <1>2 DEF NetOf
<1> QED
  BY <1>1, <1>2, <1>3, <1>4 DEF TableInv

\* So is the page, when no spin was sent or answered in between.
LEMMA NothingBetOrShown ==
  ASSUME NEW l, NEW m, LedgerInv(m), Grown(l, m),
         NEW rs, NEW qs, SameResults(rs, qs), NEW pg, NEW s, PlayInv(l, rs, pg, s)
  PROVE  PlayInv(m, qs, pg, s)
<1>1. TableInv(m, qs) /\ NetOf(qs) = NetOf(rs)
  BY TableStays DEF PlayInv
<1>2. \A t : Ticket(l, rs, t) => Ticket(m, qs, t)
  BY TicketStays DEF PlayInv
<1>3. SpinInv(m, qs, pg, s)
  BY <1>2 DEF PlayInv, SpinInv
<1>4. ChipsInv(qs, pg)
  BY <1>1 DEF PlayInv, ChipsInv
<1> QED
  BY <1>1, <1>3, <1>4 DEF PlayInv
\* The results of a table add up.
LEMMA SumOfTable ==
  ASSUME NEW rs, IsTable(rs), \A i \in DOMAIN rs : rs[i].net \in Int
  PROVE  SumFunction(NetOf(rs)) \in Int
<1>1. PICK n \in Nat : DOMAIN rs = 1..n
  BY DEF IsTable
<1>2. IsFiniteSet(DOMAIN rs)
  BY <1>1, FS_Interval
<1>3. DOMAIN NetOf(rs) = DOMAIN rs /\ \A i \in DOMAIN rs : NetOf(rs)[i] \in Int
  BY DEF NetOf
<1>4. SumFunctionOnSet(NetOf(rs), DOMAIN rs) \in Int
  BY <1>2, <1>3, SumTakeOut
<1> QED
  BY <1>3, <1>4 DEF SumFunction

\* A new row is a new result, and adds its own to the sum.
LEMMA RowAdded ==
  ASSUME NEW l, NEW rs, TableInv(l, rs),
         NEW row, ResultFields \subseteq DOMAIN row, row.net \in Int,
         Mine(l, row.epoch, row.bet),
         \A i \in DOMAIN rs : rs[i].epoch # row.epoch \/ rs[i].bet # row.bet
  PROVE  /\ TableInv(l, Append(rs, row))
         /\ SumFunction(NetOf(Append(rs, row))) = row.net + SumFunction(NetOf(rs))
<1>1. PICK n \in Nat :
        /\ DOMAIN rs = 1..n /\ rs = [i \in 1..n |-> rs[i]]
        /\ \A i \in 1..n : ResultFields \subseteq DOMAIN rs[i]
  BY DEF TableInv, IsTable
<1> DEFINE Rows == {rs[i] : i \in 1..n} \cup {row}
           qs == Append(rs, row)
<1>2. rs \in Seq(Rows) /\ Len(rs) = n /\ row \in Rows
  <2>1. rs \in [1..n -> Rows]
    BY <1>1
  <2> HIDE DEF Rows
  <2>2. rs \in Seq(Rows) /\ Len(rs) = n
    BY <2>1
  <2> QED
    BY <2>2 DEF Rows
<1> HIDE DEF Rows
<1>3. /\ qs \in Seq(Rows) /\ Len(qs) = n + 1 /\ qs[n + 1] = row
      /\ \A i \in 1..n : qs[i] = rs[i]
  BY <1>2
<1> HIDE DEF qs
<1>4. DOMAIN qs = 1..(n + 1) /\ qs = [i \in 1..(n + 1) |-> qs[i]]
  <2>1. qs \in [1..Len(qs) -> Rows]
    BY <1>3
  <2> QED
    BY <1>3, <2>1
<1>5. n + 1 \in Nat /\ 1..(n + 1) = 1..n \cup {n + 1} /\ n + 1 \notin 1..n
  OBVIOUS
<1>6. IsTable(qs)
  BY <1>1, <1>3, <1>4, <1>5 DEF IsTable
<1>7. \A i \in DOMAIN qs : qs[i].net \in Int /\ Mine(l, qs[i].epoch, qs[i].bet)
  BY <1>1, <1>3, <1>4, <1>5 DEF TableInv
<1>8. \A i, j \in DOMAIN qs : qs[i].epoch = qs[j].epoch /\ qs[i].bet = qs[j].bet => i = j
  <2> SUFFICES ASSUME NEW i \in DOMAIN qs, NEW j \in DOMAIN qs,
                      qs[i].epoch = qs[j].epoch, qs[i].bet = qs[j].bet
               PROVE  i = j
    OBVIOUS
  <2>1. i \in 1..n \/ i = n + 1
    BY <1>4, <1>5
  <2>2. j \in 1..n \/ j = n + 1
    BY <1>4, <1>5
  <2>3. \A k \in 1..n : qs[k] = rs[k] /\ (rs[k].epoch # row.epoch \/ rs[k].bet # row.bet)
    BY <1>1, <1>3
  <2>4. CASE i \in 1..n /\ j \in 1..n
    BY <1>1, <2>3, <2>4 DEF TableInv
  <2>5. CASE i = n + 1 /\ j \in 1..n
    BY <1>3, <2>3, <2>5
  <2>6. CASE i \in 1..n /\ j = n + 1
    BY <1>3, <2>3, <2>6
  <2> QED
    BY <2>1, <2>2, <2>4, <2>5, <2>6
<1>9. SumFunction(NetOf(qs)) = row.net + SumFunction(NetOf(rs))
  <2> DEFINE f == NetOf(qs)
             g == NetOf(rs)
  <2>1. IsFiniteSet(1..n)
    BY FS_Interval
  <2>2. /\ DOMAIN f = 1..n \cup {n + 1} /\ DOMAIN g = 1..n /\ f[n + 1] = row.net
        /\ \A i \in 1..n \cup {n + 1} : f[i] \in Int
        /\ \A i \in 1..n : g[i] \in Int /\ g[i] = f[i]
    BY <1>1, <1>3, <1>4, <1>5, <1>7 DEF NetOf
  <2> HIDE DEF f, g
  <2>3. SumFunctionOnSet(f, 1..n \cup {n + 1}) = f[n + 1] + SumFunctionOnSet(f, 1..n)
    BY <1>5, <2>1, <2>2, SumAdd
  <2>4. SumFunctionOnSet(g, 1..n) = SumFunctionOnSet(f, 1..n)
    BY <2>1, <2>2, SumSame
  <2> QED
    BY <2>2, <2>3, <2>4 DEF SumFunction, f, g
<1> QED
  BY <1>6, <1>7, <1>8, <1>9 DEF TableInv, qs

\* The page and its spin, whichever way they move between them.
LEMMA SpinMoved ==
  ASSUME NEW l, NEW rs, NEW pg, NEW s, PlayInv(l, rs, pg, s),
         NEW t \in SpinRequests, s.stage # "none", t.stage # "none",
         t.stage = "answer" => Ticket(l, rs, t)
  PROVE  PlayInv(l, rs, pg, t)
<1>1. pg.phase = "asking"
  BY DEF PlayInv, SpinInv, NoSpin
<1> QED
  BY <1>1 DEF PlayInv, SpinInv

\* A spin request that reaches another stage is one still.
LEMMA StageChanged ==
  ASSUME NEW s \in SpinRequests, NEW st \in {"register", "play", "failed"}
  PROVE  /\ [s EXCEPT !.stage = st] \in SpinRequests
         /\ [s EXCEPT !.stage = st].stage = st
BY DEF SpinRequests

\* A click on SPIN asks for a spin, and takes no chips.
LEMMA DoSpinKeeps ==
  ASSUME PlayInv(ledger, rows, page, spin), NEW bet \in Bets, NEW stake \in 1..StartChips,
         DoSpin(bet, stake)
  PROVE  PlayInv(ledger', rows', page', spin')
<1> DEFINE st == IF bet \in registered THEN "play" ELSE "register"
           asked == "asking"
<1>1. UNCHANGED <<ledger, rows>> /\ page.phase = "idle"
      /\ page' = [page EXCEPT !.phase = asked]
      /\ spin' = [stage |-> st, bet |-> bet, stake |-> stake, receipt |-> Null]
  BY DEF DoSpin, serverVars
<1>2. st \in {"play", "register"}
  OBVIOUS
<1> HIDE DEF st
<1>3. stake \in Nat
  BY CasinoAssumption
<1>4. spin' \in SpinRequests /\ spin'.stage = st
  BY <1>1, <1>2, <1>3 DEF SpinRequests
<1>5. page.pending = Null
      /\ page \in [phase: {"idle", "asking", "spinning"}, chips: Int, pending: SpinRequests \cup {Null}]
  BY <1>1 DEF PlayInv, SpinInv
<1>6. asked = "asking"
  OBVIOUS
<1> HIDE DEF asked
<1>7. page' \in [phase: {"idle", "asking", "spinning"}, chips: Int, pending: SpinRequests \cup {Null}]
      /\ page'.phase = asked /\ page'.chips = page.chips /\ page'.pending = Null
  BY <1>1, <1>5, <1>6
<1>8. SpinInv(ledger', rows', page', spin')
  BY <1>2, <1>4, <1>6, <1>7 DEF SpinInv
<1>9. ChipsInv(rows', page')
  BY <1>1, <1>5, <1>7 DEF PlayInv, ChipsInv
<1> QED
  BY <1>1, <1>8, <1>9 DEF PlayInv

\* A request on its way is refused, lost or goes on.
LEMMA SpinGoesOn ==
  ASSUME PlayInv(ledger, rows, page, spin), SpinBad \/ SpinRejected \/ SpinRegisters
  PROVE  PlayInv(ledger', rows', page', spin')
<1>1. UNCHANGED <<ledger, rows, page>> /\ spin.stage \in {"register", "play"}
  BY DEF SpinBad, SpinRejected, SpinRegisters, serverVars
<1>2. PICK st \in {"register", "play", "failed"} : spin' = [spin EXCEPT !.stage = st]
  BY DEF SpinBad, SpinRejected, SpinRegisters
<1>3. spin \in SpinRequests
  BY DEF PlayInv, SpinInv
<1>4. spin' \in SpinRequests /\ spin'.stage = st
  BY <1>2, <1>3, StageChanged
<1>5. spin'.stage # "none" /\ spin'.stage # "answer" /\ spin.stage # "none"
  BY <1>1, <1>4
<1> QED
  BY <1>1, <1>4, <1>5, SpinMoved

\* The bet is recorded: a ticket comes back, or is lost.
LEMMA PlaysKeeps ==
  ASSUME PlayInv(ledger, rows, page, spin), Plays,
         NEW t \in SpinRequests, t.stage # "none",
         \/ t.stage = "failed"
         \/ /\ t.receipt \in SpinReceipts
            /\ t.receipt.epoch = Len(ledger')
            /\ t.receipt.bet = Cardinality(ledger'[Len(ledger')].bets) - 1
  PROVE  PlayInv(ledger', rows', page', t)
<1>1. UNCHANGED <<rows, page>> /\ ledger' = PlayedOf(ledger, Me) /\ spin.stage = "play"
  BY DEF Plays
<1>2. LedgerInv(ledger) /\ TableInv(ledger, rows)
  BY DEF PlayInv
<1>3. /\ LedgerInv(ledger') /\ Grown(ledger, ledger')
      /\ Mine(ledger', Len(ledger'), Cardinality(ledger'[Len(ledger')].bets) - 1)
      /\ ~Mine(ledger, Len(ledger'), Cardinality(ledger'[Len(ledger')].bets) - 1)
  BY <1>1, <1>2, PlayedKeeps
<1>4. SameResults(rows, rows)
  BY <1>2, RowsStay DEF TableInv
<1>5. PlayInv(ledger', rows, page, spin)
  BY <1>3, <1>4, NothingBetOrShown
<1>6. t.stage = "answer" => Ticket(ledger', rows, t)
  <2> SUFFICES ASSUME t.stage = "answer" PROVE Ticket(ledger', rows, t)
    OBVIOUS
  <2>1. /\ t.receipt \in SpinReceipts
        /\ Mine(ledger', t.receipt.epoch, t.receipt.bet)
        /\ ~Mine(ledger, t.receipt.epoch, t.receipt.bet)
    BY <1>3
  <2>2. \A i \in DOMAIN rows : Mine(ledger, rows[i].epoch, rows[i].bet)
    BY <1>2 DEF TableInv
  <2> QED
    BY <2>1, <2>2 DEF Ticket
<1> QED
  BY <1>1, <1>5, <1>6, SpinMoved

\* A bet the server took is of the spin in flight, also when its answer is lost.
LEMMA SpinPlayed ==
  ASSUME PlayInv(ledger, rows, page, spin), SpinLost \/ \E won \in BOOLEAN : SpinPlays(won)
  PROVE  PlayInv(ledger', rows', page', spin')
<1>0. spin \in SpinRequests
  BY DEF PlayInv, SpinInv
<1>1. CASE SpinLost
  <2>1. Plays /\ spin' = [spin EXCEPT !.stage = "failed"]
    BY <1>1 DEF SpinLost
  <2>2. spin' \in SpinRequests /\ spin'.stage = "failed"
    BY <1>0, <2>1, StageChanged
  <2>3. spin'.stage # "none"
    BY <2>2
  <2> QED
    BY <2>1, <2>2, <2>3, PlaysKeeps
<1>2. ASSUME NEW won \in BOOLEAN, SpinPlays(won)
      PROVE  PlayInv(ledger', rows', page', spin')
  <2> DEFINE e == Len(ledger')
             bet == Cardinality(ledger'[e].bets) - 1
             receipt == [epoch |-> e, bet |-> bet, won |-> won]
             answer == "answer"
  <2>1. Plays /\ spin' = [spin EXCEPT !.stage = answer, !.receipt = receipt]
    BY <1>2 DEF SpinPlays
  <2>2. LedgerInv(ledger')
    BY <2>1, PlayedKeeps DEF Plays, PlayInv
  <2>3. e \in Nat /\ bet \in Int
    <3>1. LedgerInv(ledger') /\ Mine(ledger', e, bet)
      BY <2>1, PlayedKeeps DEF Plays, PlayInv
    <3>2. e \in Nat /\ \E b \in ledger'[e].bets : b.bet = bet
      BY <3>1 DEF LedgerInv, Mine
    <3>3. ledger'[e] \in Entry
      BY <3>1 DEF LedgerInv, Mine
    <3> HIDE DEF e, bet
    <3> QED
      BY <3>2, <3>3 DEF Entry, BetRow
  <2> HIDE DEF e, bet
  <2>4. receipt \in SpinReceipts /\ receipt.epoch = e /\ receipt.bet = bet
    BY <2>3 DEF SpinReceipts
  <2>5. answer = "answer"
    OBVIOUS
  <2> HIDE DEF receipt, answer
  <2>6. spin' \in SpinRequests /\ spin'.stage = answer /\ spin'.receipt = receipt
    BY <1>0, <2>1, <2>4, <2>5 DEF SpinRequests
  <2>7. spin'.stage # "none"
    BY <2>5, <2>6
  <2> QED
    BY <2>1, <2>4, <2>6, <2>7, PlaysKeeps DEF e, bet
<1> QED
  BY <1>1, <1>2
\* The type of what the page keeps of a spin.
PageRow == [phase: {"idle", "asking", "spinning"}, chips: Int, pending: SpinRequests \cup {Null}]

\* No request is a request too.
LEMMA NoSpinIsNone == NoSpin \in SpinRequests /\ NoSpin.stage = "none"
BY DEF NoSpin, SpinRequests

\* The stake leaves the chips when the wheel turns.
LEMMA AnsweredKeeps ==
  ASSUME PlayInv(ledger, rows, page, spin), SpinAnswered
  PROVE  PlayInv(ledger', rows', page', spin')
<1> DEFINE phase == "spinning"
           chips == page.chips - spin.stake
<1>1. /\ UNCHANGED <<ledger, rows>> /\ spin.stage = "answer" /\ spin' = NoSpin
      /\ page' = [page EXCEPT !.phase = phase, !.chips = chips, !.pending = spin]
  BY DEF SpinAnswered, serverVars
<1>2. page \in PageRow /\ spin \in SpinRequests /\ Ticket(ledger, rows, spin)
  BY <1>1 DEF PlayInv, SpinInv, PageRow
<1>3. page.pending = Null
  BY <1>1, NoSpinIsNone DEF PlayInv, SpinInv
<1>4. page.chips = StartChips + SumFunction(NetOf(rows))
  <2>1. page.chips = StartChips + SumFunction(NetOf(rows)) - 0 /\ page.chips \in Int
    BY <1>2, <1>3 DEF PlayInv, ChipsInv, PageRow
  <2>2. SumFunction(NetOf(rows)) \in Int
    BY SumOfTable DEF PlayInv, TableInv
  <2> QED
    BY <2>1, <2>2, CasinoAssumption
<1>5. spin.stake \in Nat /\ spin # Null
  BY <1>2, CasinoAssumption DEF SpinRequests
<1>6. chips \in Int /\ phase = "spinning"
  BY <1>2, <1>5 DEF PageRow
<1> HIDE DEF phase
<1>7. page' \in PageRow /\ page'.phase = phase /\ page'.chips = chips /\ page'.pending = spin
  <2> HIDE DEF chips
  <2> QED
    BY <1>1, <1>2, <1>6 DEF PageRow
<1>8. SpinInv(ledger', rows', page', spin')
  BY <1>1, <1>2, <1>6, <1>7, NoSpinIsNone DEF SpinInv, PageRow
<1>9. ChipsInv(rows', page')
  <2>1. SumFunction(NetOf(rows')) = SumFunction(NetOf(rows))
    BY <1>1
  <2>2. page'.chips = StartChips + SumFunction(NetOf(rows')) - spin.stake
    <3>1. page'.chips = page.chips - spin.stake
      BY <1>7
    <3>2. page.chips = StartChips + SumFunction(NetOf(rows'))
      BY <1>4, <2>1
    <3> DEFINE sum == SumFunction(NetOf(rows'))
               stake == spin.stake
    <3>3. sum \in Int /\ stake \in Int /\ StartChips \in Int
      <4>1. SumFunction(NetOf(rows)) \in Int
        BY SumOfTable DEF PlayInv, TableInv
      <4> QED
        BY <1>5, <2>1, <4>1, CasinoAssumption
    <3>4. page'.chips = (StartChips + sum) - stake
      BY <3>1, <3>2
    <3> HIDE DEF sum, stake
    <3>5. page'.chips = StartChips + sum - stake
      BY <3>3, <3>4
    <3> QED
      BY <3>5 DEF sum, stake
  <2>3. page'.pending = spin /\ spin # Null
    BY <1>5, <1>7
  <2> QED
    BY <2>2, <2>3 DEF ChipsInv
<1> QED
  BY <1>1, <1>8, <1>9 DEF PlayInv

\* A spin that failed leaves the page as it was before the click.
LEMMA FailedSpinKeeps ==
  ASSUME PlayInv(ledger, rows, page, spin), SpinFailed
  PROVE  PlayInv(ledger', rows', page', spin')
<1> DEFINE phase == "idle"
<1>1. /\ UNCHANGED <<ledger, rows>> /\ spin.stage = "failed" /\ spin' = NoSpin
      /\ page' = [page EXCEPT !.phase = phase]
  BY DEF SpinFailed, serverVars
<1>2. page \in PageRow /\ page.pending = Null /\ phase = "idle"
  BY <1>1, NoSpinIsNone DEF PlayInv, SpinInv, PageRow
<1> HIDE DEF phase
<1>3. page' \in PageRow /\ page'.phase = phase /\ page'.chips = page.chips /\ page'.pending = Null
  BY <1>1, <1>2 DEF PageRow
<1>4. SpinInv(ledger', rows', page', spin')
  BY <1>1, <1>2, <1>3, NoSpinIsNone DEF SpinInv, PageRow
<1>5. ChipsInv(rows', page')
  BY <1>1, <1>2, <1>3 DEF PlayInv, ChipsInv
<1> QED
  BY <1>1, <1>4, <1>5 DEF PlayInv

\* A restart of the backend fails the spin on its way, whose bet may be placed.
LEMMA RestartKeeps ==
  ASSUME PlayInv(ledger, rows, page, spin), BackendRestarts
  PROVE  PlayInv(ledger', rows', page', spin')
<1> DEFINE failed == "failed"
<1>1. UNCHANGED <<ledger, page>>
      /\ spin' = IF spin = NoSpin THEN spin ELSE [spin EXCEPT !.stage = failed]
  BY DEF BackendRestarts, serverVars
<1>2. SameResults(rows, rows') /\ LedgerInv(ledger) /\ Grown(ledger, ledger)
  BY RestartKeepsResults, Ungrown DEF PlayInv, TableInv
<1>3. PlayInv(ledger', rows', page', spin)
  BY <1>1, <1>2, NothingBetOrShown
<1>4. CASE spin = NoSpin
  BY <1>1, <1>3, <1>4
<1>5. CASE spin # NoSpin
  <2>1. spin.stage # "none" /\ spin \in SpinRequests
    BY <1>5 DEF PlayInv, SpinInv, PageRow
  <2>2. spin' \in SpinRequests /\ spin'.stage = failed
    BY <1>1, <1>5, <2>1, StageChanged
  <2>3. spin'.stage # "none" /\ spin'.stage # "answer"
    BY <2>2
  <2> QED
    BY <1>3, <2>1, <2>2, <2>3, SpinMoved
<1> QED
  BY <1>4, <1>5

\* The ball stops: the row of the spin, and what it returns.
LEMMA SettleKeeps ==
  ASSUME PlayInv(ledger, rows, page, spin), Settle
  PROVE  PlayInv(ledger', rows', page', spin')
<1> DEFINE p == page.pending
           row == RowOf(p)
           phase == "idle"
           chips == page.chips + Returned(p)
<1>1. /\ UNCHANGED <<ledger, spin>> /\ page.phase = "spinning"
      /\ page' = [page EXCEPT !.phase = phase, !.chips = chips, !.pending = Null]
      /\ rows' = Append(rows, row)
  BY DEF Settle, serverVars
<1>2. page \in PageRow /\ spin = NoSpin /\ Ticket(ledger, rows, p) /\ TableInv(ledger, rows)
  BY <1>1 DEF PlayInv, SpinInv, PageRow
<1>3. p \in SpinRequests /\ p # Null /\ p.stake \in Nat /\ Returned(p) \in Nat
  BY <1>2, CasinoAssumption DEF Ticket, SpinRequests, Returned
<1>4. /\ ResultFields \subseteq DOMAIN row /\ row.net = Returned(p) - p.stake
      /\ row.epoch = p.receipt.epoch /\ row.bet = p.receipt.bet
  BY DEF RowOf, ResultFields
<1>5. row.net \in Int
  BY <1>3, <1>4
<1>6. /\ TableInv(ledger, rows')
      /\ SumFunction(NetOf(rows')) = row.net + SumFunction(NetOf(rows))
      /\ SumFunction(NetOf(rows)) \in Int
  <2> HIDE DEF row
  <2>1. /\ Mine(ledger, row.epoch, row.bet)
        /\ \A i \in DOMAIN rows : rows[i].epoch # row.epoch \/ rows[i].bet # row.bet
    BY <1>2, <1>4 DEF Ticket
  <2>2. /\ TableInv(ledger, Append(rows, row))
        /\ SumFunction(NetOf(Append(rows, row))) = row.net + SumFunction(NetOf(rows))
    BY <1>2, <1>4, <1>5, <2>1, RowAdded
  <2>3. SumFunction(NetOf(rows)) \in Int
    BY <1>2, SumOfTable DEF TableInv
  <2> QED
    BY <1>1, <2>2, <2>3
<1>7. phase = "idle" /\ chips \in Int
  BY <1>2, <1>3 DEF PageRow
<1>8. page' \in PageRow /\ page'.phase = phase /\ page'.chips = chips /\ page'.pending = Null
  <2> HIDE DEF phase, chips, p
  <2> QED
    BY <1>1, <1>2, <1>7 DEF PageRow
<1>9. SpinInv(ledger', rows', page', spin')
  <2> HIDE DEF phase, chips, p
  <2> QED
    BY <1>1, <1>2, <1>7, <1>8, NoSpinIsNone DEF SpinInv, PageRow
<1>10. page.chips = StartChips + SumFunction(NetOf(rows)) - p.stake
  BY <1>3 DEF PlayInv, ChipsInv
<1>11. ChipsInv(rows', page')
  <2>1. chips = StartChips + SumFunction(NetOf(rows')) - 0
    <3> DEFINE sum == SumFunction(NetOf(rows))
               back == Returned(p)
               stake == p.stake
    <3>1. sum \in Int /\ back \in Int /\ stake \in Int /\ StartChips \in Int
      BY <1>3, <1>6, CasinoAssumption
    <3>2. chips = (StartChips + sum - stake) + back
      BY <1>10
    <3>3. SumFunction(NetOf(rows')) = (back - stake) + sum
      BY <1>4, <1>6
    <3> HIDE DEF sum, back, stake, chips
    <3> QED
      BY <3>1, <3>2, <3>3
  <2> QED
    BY <1>8, <2>1 DEF ChipsInv
<1> QED
  BY <1>1, <1>6, <1>9, <1>11 DEF PlayInv
\* Every step of the casino keeps the results true and the chips with them.
LEMMA CasinoKeepsPlay ==
  ASSUME PlayInv(ledger, rows, page, spin), CasinoNext \/ UNCHANGED casinoVars
  PROVE  PlayInv(ledger', rows', page', spin')
<1>0. LedgerInv(ledger) /\ IsTable(rows) /\ Grown(ledger, ledger) /\ SameResults(rows, rows)
  BY Ungrown, RowsStay DEF PlayInv, TableInv
<1>1. ASSUME UNCHANGED <<ledger, spin, page>>, SameResults(rows, rows')
      PROVE  PlayInv(ledger', rows', page', spin')
  BY <1>0, <1>1, NothingBetOrShown
<1>2. ASSUME UNCHANGED <<rows, spin, page>>, LedgerInv(ledger'), Grown(ledger, ledger')
      PROVE  PlayInv(ledger', rows', page', spin')
  BY <1>0, <1>2, NothingBetOrShown
<1>3. CASE ServerMoves
  BY <1>0, <1>2, <1>3, ServerKeeps DEF ServerMoves
<1>4. CASE WindowTurns
  <2>1. ledger' = OpenedOf(ledger) /\ UNCHANGED <<spin, page>>
    BY <1>4 DEF WindowTurns
  <2>2. LedgerInv(ledger') /\ Grown(ledger, ledger')
    BY <1>0, <2>1, OpenedKeeps
  <2>3. SameResults(rows, rows')
    BY <1>0, <1>4, WindowKeepsResults
  <2> QED
    BY <2>1, <2>2, <2>3, NothingBetOrShown
<1>5. CASE SuspendOrResume \/ (\E a \in Addresses : StrangerReads(a)) \/ UNCHANGED casinoVars
  <2>1. UNCHANGED <<ledger, rows, spin, page>>
    BY <1>5 DEF SuspendOrResume, StrangerReads, casinoVars, serverVars
  <2> QED
    BY <2>1
<1>6. CASE BackendRestarts
  BY <1>6, RestartKeeps
<1>7. CASE \E bet \in Bets, stake \in 1..StartChips : DoSpin(bet, stake)
  BY <1>7, DoSpinKeeps
<1>8. CASE SpinSteps \/ SpinBad \/ SpinLost
  BY <1>8, SpinGoesOn, SpinPlayed, AnsweredKeeps, FailedSpinKeeps, SettleKeeps DEF SpinSteps
<1>9. CASE \E i \in DOMAIN rows, who \in {"click", "poll"} : BackendReads(i, who) \/ ProofLost(i, who)
  BY <1>0, <1>1, <1>9, ReadsKeepResults
<1>10. CASE \E i \in DOMAIN rows : Verify(i) \/ Poll(i) \/ ClickAnswered(i) \/ PollAnswered(i) \/ Hide(i)
  BY <1>0, <1>1, <1>10, PanelsKeepResults
<1> QED
  BY <1>3, <1>4, <1>5, <1>6, <1>7, <1>8, <1>9, <1>10 DEF CasinoNext

\* A page just opened has all its chips and no rows.
LEMMA InitPlays ==
  ASSUME CasinoInit
  PROVE  PlayInv(ledger, rows, page, spin)
<1>1. /\ ledger = <<Server!Committed>> /\ rows = <<>> /\ spin = NoSpin
      /\ page = [phase |-> "idle", chips |-> StartChips, pending |-> Null]
  BY DEF CasinoInit
<1>2. LedgerInv(ledger)
  <2>1. Server!Committed \in Entry /\ Server!Committed.bets = {}
    BY DEF Server!Committed, Entry
  <2>2. ledger \in Seq(Entry) /\ Len(ledger) = 1 /\ ledger[1] = Server!Committed
    BY <1>1, <2>1
  <2>3. Numbered({})
    BY FS_EmptySet DEF Numbered
  <2>4. ASSUME NEW e \in 1..Len(ledger) PROVE Numbered(ledger[e].bets)
    <3>1. e = 1
      BY <2>2
    <3>2. ledger[e].bets = {}
      BY <2>1, <2>2, <3>1
    <3> QED
      BY <2>3, <3>2
  <2> QED
    BY <2>2, <2>4 DEF LedgerInv
<1>3. DOMAIN rows = {}
  BY <1>1
<1>4. IsTable(rows)
  <2>1. DOMAIN rows = 1..0 /\ rows = [i \in 1..0 |-> rows[i]]
    BY <1>1
  <2> QED
    BY <2>1 DEF IsTable
<1>5. TableInv(ledger, rows)
  BY <1>3, <1>4 DEF TableInv
<1>6. SpinInv(ledger, rows, page, spin)
  BY <1>1, NoSpinIsNone, CasinoAssumption DEF SpinInv
<1>7. SumFunction(NetOf(rows)) = 0
  <2>1. DOMAIN NetOf(rows) = {}
    BY <1>3 DEF NetOf
  <2> QED
    BY <2>1, SumZero, FS_EmptySet DEF SumFunction
<1>8. ChipsInv(rows, page)
  BY <1>1, <1>7, CasinoAssumption DEF ChipsInv
<1> QED
  BY <1>2, <1>5, <1>6, <1>8 DEF PlayInv

\* Every result the page shows is a bet of the player in the server's ledger, each is
\* shown once, and the chips are what they leave, whatever fails on the way: an answer
\* that is lost, a refusal, a restart of the backend (doSpin, settle).
THEOREM ResultsStayBets == CasinoSpec => []ResultsAreBets
<1> DEFINE Inv == PlayInv(ledger, rows, page, spin)
<1>1. CasinoInit => Inv
  BY InitPlays
<1>2. Inv /\ [CasinoNext]_casinoVars => Inv'
  BY CasinoKeepsPlay
<1>3. Inv => ResultsAreBets
  BY DEF PlayInv, TableInv, ChipsInv, NetOf, Mine, ResultsAreBets
<1> HIDE DEF Inv
<1> QED
  BY <1>1, <1>2, <1>3, PTL DEF CasinoSpec
=============================================================================







