------------------------------ MODULE Dashboard ------------------------------
(***************************************************************************)
(* The operator dashboard (web/app/dashboard/page.tsx): one browser tab    *)
(* over the login of WalletSessions and the services of a wallet.          *)
(*                                                                         *)
(* signIn and createService are async: between two requests anything else  *)
(* may happen, a switch of wallet, another sign-in, a restart of the       *)
(* server.  A request and its answer are one action, taken when the answer *)
(* arrives; a lost answer is an action of its own where the server has     *)
(* changed by then.  started.current follows account, so the effect that   *)
(* signs in runs exactly when account changes, as part of that step.       *)
(***************************************************************************)
EXTENDS WalletSessions

CONSTANTS
  SignIns,     \* calls of signIn that can be in flight together
  MaxServices  \* services a wallet may create, 5 in the code

ASSUME DashboardAssumption == MaxServices \in Nat /\ Null \notin Nat

VARIABLES
  account,   \* useAccount().address
  session,   \* the state session
  signIns,   \* calls of signIn in flight
  create,    \* the call of createService in flight; creating is that there is one
  issued,    \* the wallet whose new API key is in state issued
  storage,   \* sessionStorage: a token per wallet
  services   \* the server's table operators: services per wallet

page == <<account, session, signIns, create, issued, storage>>
dashboardVars == <<sessionVars, page, services>>

-----------------------------------------------------------------------------
NoMe == [wallet |-> Null, services |-> 0]
Empty == [addr |-> Null, phase |-> "idle", me |-> NoMe]
Idle == [addr |-> Null, stage |-> "idle", token |-> Null, nonce |-> Null, by |-> Null]

\* MeResponse: the wallet of the token and what it owns.
MeOf(token) == [wallet |-> WalletFor(token), services |-> services[WalletFor(token)]]

\* What the page renders: another wallet's session counts as none.
Shown == IF session.addr = account THEN session ELSE Empty

\* The button of FirstService, greyed while a service is created.
FirstService == IF create = Idle THEN {"create"} ELSE {}

\* The buttons the page offers next to what it shows.
Offered ==
  IF Shown.phase = "loaded"
  THEN (IF issued # Null THEN {"dismiss"} ELSE {})
         \cup (IF Shown.me.services = 0 THEN FirstService ELSE {})
  ELSE IF Shown.phase = "error" /\ account # Null THEN {"retry"} ELSE {}

\* signIn up to its first await: the cached token is read here.
SignIn(k, a) ==
  /\ signIns[k] = Idle
  /\ session' = [addr |-> a, phase |-> "signing", me |-> NoMe]
  /\ signIns' = [signIns EXCEPT ![k] =
       [Idle EXCEPT !.addr = a, !.token = storage[a],
                    !.stage = IF storage[a] = Null THEN "nonce" ELSE "cached"]]
  /\ UNCHANGED <<sessionVars, create, issued, storage, services>>

\* The wallet connects, or switches to another account.
Connect(k, a) ==
  /\ account # a
  /\ account' = a
  /\ SignIn(k, a)

\* retry, offered next to an error.
Retry(k) ==
  /\ "retry" \in Offered
  /\ SignIn(k, account)
  /\ UNCHANGED account

Disconnect ==
  /\ account # Null
  /\ account' = Null
  /\ UNCHANGED <<sessionVars, session, signIns, create, issued, storage, services>>

\* The tab is reloaded: only sessionStorage stays, and wagmi connects again.
Reload ==
  /\ account' = Null
  /\ session' = Empty
  /\ signIns' = [k \in SignIns |-> Idle]
  /\ create' = Idle
  /\ issued' = Null
  /\ UNCHANGED <<sessionVars, storage, services>>

-----------------------------------------------------------------------------
(* signIn, after each of its awaits *)

\* The catch of signIn, whichever wallet is connected by now.
Failed(k) ==
  /\ session' = [addr |-> signIns[k].addr, phase |-> "error", me |-> NoMe]
  /\ signIns' = [signIns EXCEPT ![k] = Idle]
  /\ UNCHANGED <<account, create, issued, storage, services>>

\* Bug: never leaves the signing phase when something fails.
FailedSilently(k) ==
  /\ signIns[k] # Idle
  /\ signIns' = [signIns EXCEPT ![k] = Idle]
  /\ UNCHANGED <<sessionVars, account, session, create, issued, storage, services>>

\* A request fails, is refused or limited, or the user rejects the prompt.
SignInFails(k) ==
  /\ signIns[k] # Idle
  /\ Failed(k)
  /\ UNCHANGED sessionVars

\* settle, with the 200 of GET /billing/me for a cached or a new token.
Loads(k) ==
  /\ signIns[k].stage \in {"cached", "me"}
  /\ WalletFor(signIns[k].token) # Null
  /\ session' = [addr |-> signIns[k].addr, phase |-> "loaded", me |-> MeOf(signIns[k].token)]
  /\ signIns' = [signIns EXCEPT ![k] = Idle]
  /\ UNCHANGED <<sessionVars, account, create, issued, storage, services>>

\* The server no longer knows the cached token: drop it and ask for a signature.
CachedRefused(k) ==
  /\ signIns[k].stage = "cached"
  /\ WalletFor(signIns[k].token) = Null
  /\ storage' = [storage EXCEPT ![signIns[k].addr] = Null]
  /\ signIns' = [signIns EXCEPT ![k].stage = "nonce"]
  /\ UNCHANGED <<sessionVars, account, session, create, issued, services>>

\* GET /auth/nonce is answered; the connected account is asked to sign.
PromptOpens(k) ==
  /\ signIns[k].stage = "nonce"
  /\ account # Null
  /\ IssueNonce(signIns[k].addr)
  /\ signIns' = [signIns EXCEPT ![k] = [@ EXCEPT !.stage = "prompt", !.nonce = drawn + 1,
                                                 !.by = account]]
  /\ UNCHANGED <<account, session, create, issued, storage, services>>

\* Bug: stores the token under the wallet that is connected by now.
SignedStoredForAccount(k) ==
  /\ signIns[k].stage = "prompt"
  /\ account # Null
  /\ Login(signIns[k].addr, signIns[k].by, signIns[k].nonce)
  /\ storage' = [storage EXCEPT ![account] = drawn + 1]
  /\ signIns' = [signIns EXCEPT ![k] = [@ EXCEPT !.stage = "me", !.token = drawn + 1]]
  /\ UNCHANGED <<account, session, create, issued, services>>

\* The user signs and POST /auth/login is answered.
SignedIn(k) ==
  /\ signIns[k].stage = "prompt"
  /\ Login(signIns[k].addr, signIns[k].by, signIns[k].nonce)
  /\ storage' = [storage EXCEPT ![signIns[k].addr] = drawn + 1]
  /\ signIns' = [signIns EXCEPT ![k] = [@ EXCEPT !.stage = "me", !.token = drawn + 1]]
  /\ UNCHANGED <<account, session, create, issued, services>>

\* The login is done at the server and its answer is lost, or its row is.
LoginUnanswered(k) ==
  /\ signIns[k].stage = "prompt"
  /\ \/ Login(signIns[k].addr, signIns[k].by, signIns[k].nonce)
     \/ LoginStoreFails(signIns[k].addr, signIns[k].by, signIns[k].nonce)
  /\ Failed(k)

-----------------------------------------------------------------------------
(* createService *)

\* The button of FirstService, on the page of a wallet that owns nothing.
CreateService ==
  /\ "create" \in Offered
  /\ storage[account] # Null
  /\ create' = [Idle EXCEPT !.addr = account, !.token = storage[account], !.stage = "post"]
  /\ UNCHANGED <<sessionVars, account, session, signIns, issued, storage, services>>

\* POST /billing/operators at the server, for the wallet of the token.
AddService ==
  /\ create.stage = "post"
  /\ WalletFor(create.token) # Null
  /\ services[WalletFor(create.token)] < MaxServices
  /\ services' = [services EXCEPT ![WalletFor(create.token)] = @ + 1]

\* The key is in the answer, and nowhere else.
ServiceCreated ==
  /\ AddService
  /\ issued' = WalletFor(create.token)
  /\ create' = [create EXCEPT !.stage = "me"]
  /\ UNCHANGED <<sessionVars, account, session, signIns, storage>>

ServiceCreatedUnanswered ==
  /\ AddService
  /\ create' = Idle
  /\ UNCHANGED <<sessionVars, account, session, signIns, issued, storage>>

\* 401, 409 or no answer: an error below the button, the rest as it was. So is a
\* second request that fails.
CreateFails ==
  /\ create # Idle
  /\ create' = Idle
  /\ UNCHANGED <<sessionVars, account, session, signIns, issued, storage, services>>

\* GET /billing/me again: the page of the wallet that created the service.
ServiceListed ==
  /\ create.stage = "me"
  /\ WalletFor(create.token) # Null
  /\ session' = [addr |-> create.addr, phase |-> "loaded", me |-> MeOf(create.token)]
  /\ create' = Idle
  /\ UNCHANGED <<sessionVars, account, signIns, issued, storage, services>>

\* "I saved it"
Dismiss ==
  /\ "dismiss" \in Offered
  /\ issued' = Null
  /\ UNCHANGED <<sessionVars, account, session, signIns, create, storage, services>>

-----------------------------------------------------------------------------
\* Another tab of the wallet asks for a nonce; the server restarts; time passes.
Elsewhere ==
  /\ (\E w \in Wallets : IssueNonce(w)) \/ Reboot \/ SessionClock
  /\ UNCHANGED <<page, services>>

DashboardInit ==
  /\ SessionsInit
  /\ account = Null
  /\ session = Empty
  /\ signIns = [k \in SignIns |-> Idle]
  /\ create = Idle
  /\ issued = Null
  /\ storage = [w \in Wallets |-> Null]
  /\ services = [w \in Wallets |-> 0]

Answered(k) ==
  SignInFails(k) \/ Loads(k) \/ CachedRefused(k) \/ PromptOpens(k) \/ SignedIn(k)
    \/ LoginUnanswered(k)

CreateAnswered ==
  ServiceCreated \/ ServiceCreatedUnanswered \/ CreateFails \/ ServiceListed

DashboardNext ==
  \/ \E k \in SignIns :
       (\E a \in Wallets : Connect(k, a)) \/ Retry(k) \/ Answered(k)
  \/ Disconnect \/ Reload
  \/ CreateService \/ CreateAnswered \/ Dismiss
  \/ Elsewhere

DashboardSpec == DashboardInit /\ [][DashboardNext]_dashboardVars

\* A request is answered or fails, and the user answers the prompt.
DashboardFairSpec ==
  /\ DashboardSpec
  /\ \A k \in SignIns : WF_dashboardVars(Answered(k))
  /\ WF_dashboardVars(CreateAnswered)

-----------------------------------------------------------------------------
(* Properties *)

\* Whatever answers arrive after a switch of wallet, a page never shows one wallet
\* the services of another (signIn, createService, session.addr).
LoadedIsOwn == Shown.phase = "loaded" => Shown.me.wallet = account

\* "tokens live for the tab so a reload never re-prompts": a sign-in that started
\* with a token in the tab asks for a signature only once that token has expired,
\* restarts of the server included, or has been evicted, for which MapCap others must
\* have been drawn since.
NoPromptWithLiveToken ==
  [][\A k \in SignIns :
       (signIns[k].stage = "nonce" /\ signIns'[k].stage = "prompt") =>
          \A t \in told :
            t.id = signIns[k].token => ~Alive(t) \/ drawn >= t.id + MapCap]_dashboardVars

\* "Check your wallet and sign the message" is eventually over, whatever else is in
\* flight (signIn).
SigningEnds == (Shown.phase = "signing") ~> (Shown.phase # "signing")

\* "connecting or reconnecting asks to sign straight away", and "a session belongs
\* to one wallet, switching clears it": the page of a connected wallet is not left
\* at the start, with no sign-in under way and nothing to press.
ConnectedIsNeverStranded ==
  account # Null =>
    Shown.phase # "idle" \/ \E k \in SignIns : signIns[k].addr = account

=============================================================================
