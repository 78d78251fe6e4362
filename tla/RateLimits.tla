------------------------------ MODULE RateLimits ------------------------------
(***************************************************************************)
(* The guards in front of every route (server/src/guards.ts, wired in      *)
(* app.module.ts): fixed windows in memory, one count per address for      *)
(* callers without a valid key and one per operator for plays.             *)
(*                                                                         *)
(* Both windows are 10 seconds of the same clock, so they turn together.   *)
(* An entry of an earlier window and a count of zero are the same to the   *)
(* code: both start over at 1, and both count for the size of the map.     *)
(* One operator is followed: nothing of its window depends on another.     *)
(***************************************************************************)
EXTENDS Integers, FiniteSets

CONSTANTS
  Addresses,     \* client addresses, by x-forwarded-for or by socket
  ReadLimit,     \* requests of an address in a window, 300 in the code
  PlayLimit,     \* plays of an operator in a window, 60 in the code
  MaxAddresses   \* entries beyond which the map is emptied, 50000 in the code

ASSUME LimitsAssumption ==
  /\ ReadLimit \in Nat \ {0}
  /\ PlayLimit \in Nat \ {0}
  /\ MaxAddresses \in Nat

VARIABLES
  readWindows,  \* ReadRateGuard.windows: address to count
  playWindow,   \* PlayRateGuard.windows of the operator
  active,       \* column active of the operator
  granted,      \* history: reads an address and plays the operator got in this window
  resets        \* history: times counts were lost in this window

limitVars == <<readWindows, playWindow, active, granted, resets>>

Fresh(a) == a \in DOMAIN readWindows /\ readWindows[a] > 0

\* An active operator's key is a credential; a suspended one's is not.
Credentialed(withKey) == withKey /\ active

Overflows(a) == ~Fresh(a) /\ Cardinality(DOMAIN readWindows) > MaxAddresses

Counted(a) ==
  LET kept == IF Overflows(a) THEN {} ELSE DOMAIN readWindows
  IN  [b \in kept \cup {a} |->
         IF b # a THEN readWindows[b] ELSE IF Fresh(a) THEN readWindows[a] + 1 ELSE 1]

\* Bug: lets one more through.
RefusedLate(a, withKey) ==
  ~Credentialed(withKey) /\ Fresh(a) /\ readWindows[a] > ReadLimit

\* ReadRateGuard.canActivate, on every route.
Refused(a, withKey) ==
  ~Credentialed(withKey) /\ Fresh(a) /\ readWindows[a] >= ReadLimit

Admitted(a, withKey) ==
  /\ ~Refused(a, withKey)
  /\ IF Credentialed(withKey) THEN UNCHANGED <<readWindows, granted, resets>>
     ELSE /\ readWindows' = Counted(a)
          /\ granted' = [granted EXCEPT !.reads[a] = @ + 1]
          /\ resets' = IF Overflows(a) THEN resets + 1 ELSE resets
  /\ UNCHANGED <<playWindow, active>>

\* OperatorGuard and PlayRateGuard, after it, on POST /play.
PlayRefused == ~active \/ playWindow >= PlayLimit

PlayAdmitted ==
  /\ ~PlayRefused
  /\ playWindow' = playWindow + 1
  /\ granted' = [granted EXCEPT !.plays = @ + 1]
  /\ UNCHANGED <<readWindows, active, resets>>

\* POST /admin/operators/:id/active
SetActive(b) ==
  /\ active # b
  /\ active' = b
  /\ UNCHANGED <<readWindows, playWindow, granted, resets>>

Unused == [reads |-> [a \in Addresses |-> 0], plays |-> 0]

\* The next 10 seconds begin, with a request of a that has no key.
NextWindow(a) ==
  /\ readWindows' =
       LET kept == IF Cardinality(DOMAIN readWindows) > MaxAddresses THEN {} ELSE DOMAIN readWindows
       IN  [b \in kept \cup {a} |-> IF b = a THEN 1 ELSE 0]
  /\ playWindow' = 0
  /\ granted' = [Unused EXCEPT !.reads[a] = 1]
  /\ resets' = 0
  /\ UNCHANGED active

LimitsInit ==
  /\ readWindows = <<>>
  /\ playWindow = 0
  /\ active = TRUE
  /\ granted = Unused
  /\ resets = 0

-----------------------------------------------------------------------------
\* No address gets more reads, and no operator more plays, in one window than the
\* limit, but for a fresh read limit each time the counts are lost because another
\* address found the map full (canActivate of both guards).
LimitsHold ==
  /\ \A a \in Addresses : granted.reads[a] <= ReadLimit * (1 + resets)
  /\ granted.plays <= PlayLimit
=============================================================================
