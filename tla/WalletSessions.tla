---------------------------- MODULE WalletSessions ----------------------------
(***************************************************************************)
(* Wallet login in the orchestration server (server/src/wallet.ts): a      *)
(* wallet asks for a nonce, signs it and gets a token.  Nonces and tokens  *)
(* are two bounded Maps, kept here as sequences in insertion order; tokens *)
(* are also rows of table sessions, which a new process reads back.        *)
(*                                                                         *)
(* Every call runs to completion.  Nonces and tokens are random: one       *)
(* counter numbers all draws.  A signature is the signer and the nonce it  *)
(* signed; recovery yields the signer for that nonce and nobody known for  *)
(* any other.                                                              *)
(***************************************************************************)
EXTENDS Integers, Sequences, FiniteSets

CONSTANTS
  Wallets,    \* wallets that may log in
  Null,       \* no wallet
  NonceTtl,   \* seconds a nonce may be signed, 300 in the code
  TokenTtl,   \* seconds a token lasts, 86400 in the code
  MapCap,     \* entries a Map may hold, 10000 in the code
  MaxDraws,   \* bound: nonces and tokens ever drawn
  MaxClock,   \* bound: last second the clock shows
  MaxBoots    \* bound: processes started

ASSUME SessionNullAssumption == Null \notin Wallets
ASSUME SessionBoundsAssumption ==
  /\ NonceTtl \in Nat /\ TokenTtl \in Nat /\ MapCap \in Nat \ {0}
  /\ MaxDraws \in Nat /\ MaxClock \in Nat /\ MaxBoots \in Nat \ {0}

VARIABLES
  nonces,    \* WalletSessions.nonces, by wallet
  tokens,    \* WalletSessions.tokens, by token
  sessions,  \* table sessions, in rowid order
  clock,     \* now(), in seconds
  drawn,     \* random values drawn
  boots,     \* processes started, for MaxBoots
  told,      \* history: entries of the tokens handed to clients
  logins     \* history: the nonces that logged a wallet in, by occurrence

sessionVars == <<nonces, tokens, sessions, clock, drawn, boots, told, logins>>

\* An entry of either Map: id is the nonce or the token.
Entry == [id: Nat, wallet: Wallets, expires: Nat]

-----------------------------------------------------------------------------
Alive(entry) == entry.expires >= clock

\* The entries of a Map at some of its places, in order.
Only(map, places) ==
  LET Before(i) == {j \in places : j < i}
  IN  [k \in 1..Cardinality(places) |->
         map[CHOOSE i \in places : Cardinality(Before(i)) = k - 1]]

Live(map) == Only(map, {i \in DOMAIN map : Alive(map[i])})

\* Bug: makes room for one entry, whatever the size.
PrunedOne(map) ==
  LET live == Live(map)
  IN  IF Len(live) < MapCap THEN live ELSE Tail(live)

\* prune: the expired go, then the first until one more fits.
Pruned(map) ==
  LET live == Live(map)
  IN  IF Len(live) < MapCap THEN live ELSE SubSeq(live, Len(live) - MapCap + 2, Len(live))

At(map, w) == {i \in DOMAIN map : map[i].wallet = w}

\* Bug: replaces the entry of a wallet that has one by the bare nonce.
SetNonceBare(map, entry) ==
  IF At(map, entry.wallet) = {} THEN Append(map, entry)
  ELSE [map EXCEPT ![CHOOSE i \in At(map, entry.wallet) : TRUE] = [id |-> entry.id]]

\* Map.set by wallet: a wallet that has an entry keeps its place.
SetNonce(map, entry) ==
  IF At(map, entry.wallet) = {} THEN Append(map, entry)
  ELSE [map EXCEPT ![CHOOSE i \in At(map, entry.wallet) : TRUE] = entry]

\* issueNonce, behind GET /auth/nonce
IssueNonce(w) ==
  /\ drawn < MaxDraws
  /\ drawn' = drawn + 1
  /\ nonces' = SetNonce(Pruned(nonces),
                        [id |-> drawn + 1, wallet |-> w, expires |-> clock + NonceTtl])
  /\ UNCHANGED <<tokens, sessions, clock, boots, told, logins>>

\* recoverWallet over loginMessage(w, nonce): true for the wallet's own signature
\* of the nonce it was issued last.
Signed(w, by, nonce) == by = w /\ \E i \in At(nonces, w) : nonces[i].id = nonce

\* 401 without a pending nonce or for another signer.
MayLogIn(w, by, nonce) ==
  /\ \E i \in At(nonces, w) : Alive(nonces[i])
  /\ Signed(w, by, nonce)

TokenOf(w) == [id |-> drawn + 1, wallet |-> w, expires |-> clock + TokenTtl]

\* Bug: the nonce stays and can be signed in with again.
TakesNonceAndKeepsIt(w, nonce) ==
  /\ drawn < MaxDraws
  /\ drawn' = drawn + 1
  /\ nonces' = nonces
  /\ tokens' = Append(Pruned(tokens), TokenOf(w))
  /\ logins' = Append(logins, nonce)

\* What login does before it writes to the table: the nonce is used up and the
\* token is in the Map.
TakesNonce(w, nonce) ==
  /\ drawn < MaxDraws
  /\ drawn' = drawn + 1
  /\ nonces' = Only(nonces, DOMAIN nonces \ At(nonces, w))
  /\ tokens' = Append(Pruned(tokens), TokenOf(w))
  /\ logins' = Append(logins, nonce)

\* Bug: keeps the token for this process only.
LoginInMemory(w, by, nonce) ==
  /\ MayLogIn(w, by, nonce)
  /\ TakesNonce(w, nonce)
  /\ sessions' = Live(sessions)
  /\ told' = told \cup {TokenOf(w)}
  /\ UNCHANGED <<clock, boots>>

\* POST /auth/login: the expired rows go and the token's row comes.
Login(w, by, nonce) ==
  /\ MayLogIn(w, by, nonce)
  /\ TakesNonce(w, nonce)
  /\ sessions' = Append(Live(sessions), TokenOf(w))
  /\ told' = told \cup {TokenOf(w)}
  /\ UNCHANGED <<clock, boots>>

\* The INSERT fails, and the answer with it: the nonce is gone, the token is in
\* memory and nobody knows it.
LoginStoreFails(w, by, nonce) ==
  /\ MayLogIn(w, by, nonce)
  /\ TakesNonce(w, nonce)
  /\ sessions' = Live(sessions)
  /\ UNCHANGED <<clock, boots, told>>

Held(id) == {i \in DOMAIN tokens : tokens[i].id = id /\ Alive(tokens[i])}

\* walletFor, as walletOf in controllers.ts uses it: Null is a 401.
WalletFor(id) == IF Held(id) = {} THEN Null ELSE tokens[CHOOSE i \in Held(id) : TRUE].wallet

\* Bug: starts without the database.
RebootForgets ==
  /\ boots < MaxBoots
  /\ boots' = boots + 1
  /\ nonces' = <<>>
  /\ tokens' = <<>>
  /\ UNCHANGED <<sessions, clock, drawn, told, logins>>

\* A new process: no nonces, and the tokens of the unexpired rows, all of them.
Reboot ==
  /\ boots < MaxBoots
  /\ boots' = boots + 1
  /\ nonces' = <<>>
  /\ tokens' = Live(sessions)
  /\ UNCHANGED <<sessions, clock, drawn, told, logins>>

SessionClock ==
  /\ clock < MaxClock
  /\ clock' = clock + 1
  /\ UNCHANGED <<nonces, tokens, sessions, drawn, boots, told, logins>>

-----------------------------------------------------------------------------
SessionsTypeOK ==
  /\ nonces \in Seq(Entry) /\ tokens \in Seq(Entry) /\ sessions \in Seq(Entry)
  /\ clock \in 0..MaxClock /\ drawn \in 0..MaxDraws /\ boots \in 1..MaxBoots
  /\ told \subseteq Entry
  /\ logins \in Seq(1..MaxDraws)

SessionsInit ==
  /\ nonces = <<>>
  /\ tokens = <<>>
  /\ sessions = <<>>
  /\ clock = 0
  /\ drawn = 0
  /\ boots = 1
  /\ told = {}
  /\ logins = <<>>

SessionsNext ==
  \/ \E w \in Wallets : IssueNonce(w)
  \/ \E w, by \in Wallets, n \in 1..MaxDraws : Login(w, by, n) \/ LoginStoreFails(w, by, n)
  \/ Reboot
  \/ SessionClock

SessionsSpec == SessionsInit /\ [][SessionsNext]_sessionVars

-----------------------------------------------------------------------------
(* Safety *)

\* A token a client was given is good until it expires, restarts included, unless
\* MapCap later logins are held in its place ("Sessions survive a restart", prune).
ToldTokenIsGood ==
  \A t \in told : Alive(t) =>
    \/ WalletFor(t.id) = t.wallet
    \/ Cardinality({i \in DOMAIN tokens : tokens[i].id > t.id}) >= MapCap

\* One signature logs in once: not again in this process, and not in the next one,
\* which has forgotten the nonce and kept the token (login).
NonceLogsInOnce == \A i, j \in DOMAIN logins : logins[i] = logins[j] => i = j

\* No login makes a Map larger than MapCap, even where the reload at boot made it
\* larger: what is over the cap goes with the next login (prune).
MapsStayBounded ==
  [][/\ nonces' # nonces => Len(nonces') <= MapCap
     /\ logins' # logins => Len(tokens') <= MapCap]_sessionVars

=============================================================================
