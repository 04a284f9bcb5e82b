---------------------------- MODULE BrowserSignIn ----------------------------
(* Signing in in a browser (web/src/auth.ts, main.tsx).                                  *)
(*                                                                                      *)
(* The tabs of a browser share localStorage: the tokens, and a flag that somebody signed  *)
(* in here.  Each tab has its sessionStorage: the state of the sign-in it began.  A tab   *)
(* authenticates when it loads and, with a minute's timer, while it shows the app.  A     *)
(* token or a sign-in is a number; 0 is none.                                           *)
EXTENDS Naturals, FiniteSets

CONSTANTS
    Tabs,          \* tabs of one browser
    BrowserBudget  \* bounds: tokens and sign-ins, expiries, failures, closed tabs, timers

ASSUME BrowserSignInAssumption ==
    BrowserBudget \subseteq [tokens : Nat, made : {0}, loads : Nat, expiries : Nat,
                            failures : Nat, closes : Nat, rotates : BOOLEAN]

VARIABLES
    kept,      \* localStorage: refresh token, whether the access token is fresh, the flag
    tab,       \* where authenticate is in each tab, and what the tab shows
    taken,     \* refresh tokens the provider takes
    spoiled,   \* an answer of the provider was lost, and nobody signed in since
    luckLeft   \* remaining budget; the number of tokens and sign-ins; whether the provider
               \* replaces the refresh token at every refresh or never

browserSignInVars == <<kept, tab, taken, spoiled, luckLeft>>

Nothing == [refresh |-> 0, fresh |-> FALSE, tokens |-> FALSE, flag |-> FALSE]
NoTab == [at |-> "idle", shows |-> "nothing", state |-> 0, code |-> 0, got |-> 0]
At(t, at) == tab' = [tab EXCEPT ![t].at = at]
Stores(t) == tab[t].at \in {"saveCode", "save"}

\* The tab loads the page, by itself or as the provider's callback, whose code is for the
\* sign-in of this tab, or for another one: a copied or an old address.
Load(t, code) ==
    /\ tab[t].at = "idle" /\ tab[t].shows \notin {"app", "offline"} /\ luckLeft.loads > 0
    /\ code # 0 => code <= luckLeft.made
    /\ tab' = [tab EXCEPT ![t].at = "config", ![t].shows = "nothing", ![t].code = code]
    /\ luckLeft' = [luckLeft EXCEPT !.loads = @ - 1]
    /\ UNCHANGED <<kept, taken, spoiled>>

\* refreshAuthentication, while the app is shown and the device thinks it is online.
Timer(t) ==
    /\ tab[t].at = "idle" /\ tab[t].shows \in {"app", "offline"} /\ luckLeft.loads > 0
    /\ At(t, "config")
    /\ luckLeft' = [luckLeft EXCEPT !.loads = @ - 1]
    /\ UNCHANGED <<kept, taken, spoiled>>

\* How authenticate ends without a token.  A page that is there stays.
Fails(t, offline) ==
    tab' = [tab EXCEPT ![t].at = "idle",
               ![t].shows = IF @ \in {"app", "offline"} THEN @
                            ELSE IF offline THEN "offline" ELSE "error"]

\* The configuration cannot be had: the flag alone lets the app start offline.
NoConfiguration(t) ==
    /\ tab[t].at = "config" /\ luckLeft.failures > 0
    /\ Fails(t, kept.flag)
    /\ luckLeft' = [luckLeft EXCEPT !.failures = @ - 1]
    /\ UNCHANGED <<kept, taken, spoiled>>

\* The provider cannot be reached: as before, unless the address has a code.
NoDiscovery(t) ==
    /\ tab[t].at = "config" /\ luckLeft.failures > 0
    /\ Fails(t, kept.flag /\ tab[t].code = 0)
    /\ luckLeft' = [luckLeft EXCEPT !.failures = @ - 1]
    /\ UNCHANGED <<kept, taken, spoiled>>

\* finishAuthorization: only a callback of the sign-in this tab began is exchanged.
Discovered(t) ==
    /\ tab[t].at = "config"
    /\ IF tab[t].code = 0 THEN At(t, "tokens")
       ELSE IF tab[t].code = tab[t].state THEN At(t, "exchange") ELSE Fails(t, FALSE)
    /\ UNCHANGED <<kept, taken, spoiled, luckLeft>>

\* The provider answers the tab with a new refresh token and takes the one used no more; or,
\* if it replaces none, it answers without one, and the tab keeps the one it used.
ProviderAnswers(t, used, next) ==
    \/ /\ used = 0 \/ luckLeft.rotates
       /\ luckLeft.made < luckLeft.tokens
       /\ luckLeft' = [luckLeft EXCEPT !.made = @ + 1]
       /\ taken' = (taken \ {used}) \cup {luckLeft.made + 1}
       /\ tab' = [tab EXCEPT ![t].at = next, ![t].got = luckLeft.made + 1]
    \/ /\ used = 0 \/ ~luckLeft.rotates
       /\ tab' = [tab EXCEPT ![t].at = next, ![t].got = used]
       /\ UNCHANGED <<taken, luckLeft>>

\* The code is exchanged for tokens, or the exchange is refused.
Exchange(t) ==
    /\ tab[t].at = "exchange"
    /\ \/ ProviderAnswers(t, 0, "saveCode")
       \/ Fails(t, FALSE) /\ UNCHANGED <<taken, luckLeft>>
    /\ UNCHANGED <<kept, spoiled>>

\* saveTokens after an exchange: what came is what is kept, and the sign-in is over.
SaveCode(t) ==
    /\ tab[t].at = "saveCode"
    /\ kept' = [kept EXCEPT !.refresh = tab[t].got, !.fresh = TRUE, !.tokens = TRUE]
    /\ tab' = [tab EXCEPT ![t].at = "tokens", ![t].state = 0, ![t].code = 0, ![t].got = 0]
    /\ spoiled' = FALSE
    /\ UNCHANGED <<taken, luckLeft>>

\* beginAuthorization: the tab goes to the provider, and whatever it showed is gone.
BeginAuthorization(t) ==
    /\ luckLeft.made < luckLeft.tokens
    /\ tab' = [tab EXCEPT ![t] = [NoTab EXCEPT !.shows = "provider",
                                               !.state = luckLeft.made + 1]]

SignedIn(t) ==
    /\ kept' = [kept EXCEPT !.flag = TRUE]
    /\ tab' = [tab EXCEPT ![t].at = "idle", ![t].shows = "app", ![t].got = 0]

\* loadTokens: tokens that are about to expire are refreshed if they can be; tokens that are
\* fresh let the app start; otherwise a sign-in begins.
LoadTokens(t) ==
    /\ tab[t].at = "tokens"
    /\ \/ /\ kept.tokens /\ kept.fresh
          /\ SignedIn(t)
          /\ UNCHANGED luckLeft
       \/ /\ kept.tokens /\ ~kept.fresh /\ kept.refresh # 0
          /\ tab' = [tab EXCEPT ![t].at = "refresh", ![t].got = kept.refresh]
          /\ UNCHANGED <<kept, luckLeft>>
       \/ /\ ~kept.tokens \/ (~kept.fresh /\ kept.refresh = 0)
          /\ BeginAuthorization(t)
          /\ luckLeft' = [luckLeft EXCEPT !.made = @ + 1]
          /\ UNCHANGED kept
    /\ UNCHANGED <<taken, spoiled>>

\* refresh, with the token that was loaded: the provider refuses it when another tab used it
\* in the meantime.  Any failure, also of the network and after the provider replaced the
\* token, begins a sign-in.
RefreshTokens(t) ==
    /\ tab[t].at = "refresh"
    /\ \/ /\ tab[t].got \in taken
          /\ ProviderAnswers(t, tab[t].got, "save")
          /\ UNCHANGED spoiled
       \/ /\ BeginAuthorization(t)
          /\ IF tab[t].got \notin taken
             THEN /\ luckLeft' = [luckLeft EXCEPT !.made = @ + 1]
                  /\ UNCHANGED <<taken, spoiled>>
             ELSE /\ luckLeft.failures > 0
                  /\ luckLeft' = [luckLeft EXCEPT !.made = @ + 1, !.failures = @ - 1]
                  /\ taken' \in {taken, IF luckLeft.rotates THEN taken \ {tab[t].got} ELSE taken}
                  /\ spoiled' = TRUE
    /\ UNCHANGED kept

\* The refresh token the provider replaced is kept.
SaveTokens_Old(t) ==
    /\ tab[t].at = "save"
    /\ kept' = [kept EXCEPT !.fresh = TRUE, !.tokens = TRUE, !.flag = TRUE]
    /\ tab' = [tab EXCEPT ![t].at = "idle", ![t].shows = "app", ![t].got = 0]
    /\ UNCHANGED <<taken, spoiled, luckLeft>>

\* saveTokens after a refresh; the app starts or goes on.
SaveTokens(t) ==
    /\ tab[t].at = "save"
    /\ kept' = [refresh |-> tab[t].got, fresh |-> TRUE, tokens |-> TRUE, flag |-> TRUE]
    /\ tab' = [tab EXCEPT ![t].at = "idle", ![t].shows = "app", ![t].got = 0]
    /\ UNCHANGED <<taken, spoiled, luckLeft>>

\* A tab closes; an answer it had not saved is lost, with its sessionStorage.
CloseTab(t) ==
    /\ tab[t] # NoTab /\ luckLeft.closes > 0
    /\ tab' = [tab EXCEPT ![t] = NoTab]
    /\ spoiled' = (spoiled \/ Stores(t))
    /\ luckLeft' = [luckLeft EXCEPT !.closes = @ - 1]
    /\ UNCHANGED <<kept, taken>>

\* wipeBrowserData clears both storages and loads the page; the other tabs go on.
Wipe(t) ==
    /\ tab[t].shows \in {"app", "offline"} /\ luckLeft.closes > 0
    /\ kept' = Nothing
    /\ tab' = [tab EXCEPT ![t] = NoTab]
    /\ luckLeft' = [luckLeft EXCEPT !.closes = @ - 1]
    /\ UNCHANGED <<taken, spoiled>>

\* The access token is about to expire.
BrowserExpire ==
    /\ kept.fresh /\ luckLeft.expiries > 0
    /\ kept' = [kept EXCEPT !.fresh = FALSE]
    /\ luckLeft' = [luckLeft EXCEPT !.expiries = @ - 1]
    /\ UNCHANGED <<tab, taken, spoiled>>

BrowserSignInInit ==
    /\ kept = Nothing /\ tab = [t \in Tabs |-> NoTab]
    /\ taken = {} /\ spoiled = FALSE
    /\ luckLeft \in BrowserBudget

BrowserSignInNext ==
    \/ \E t \in Tabs :
          \/ \E code \in 0 .. luckLeft.made : Load(t, code)
          \/ Timer(t) \/ NoConfiguration(t) \/ NoDiscovery(t) \/ Discovered(t) \/ Exchange(t)
          \/ SaveCode(t) \/ LoadTokens(t) \/ RefreshTokens(t) \/ SaveTokens(t)
          \/ CloseTab(t) \/ Wipe(t)
    \/ BrowserExpire

BrowserSignInSpec == BrowserSignInInit /\ [][BrowserSignInNext]_browserSignInVars

-----------------------------------------------------------------------------
(* Properties *)

BrowserSignInTypeOK ==
    /\ kept \in [refresh : 0 .. luckLeft.made, fresh : BOOLEAN, tokens : BOOLEAN, flag : BOOLEAN]
    /\ taken \subseteq 1 .. luckLeft.made
    /\ \A t \in Tabs :
          /\ tab[t].at \in {"idle", "config", "exchange", "saveCode", "tokens", "refresh", "save"}
          /\ tab[t].shows \in {"nothing", "provider", "app", "offline", "error"}
          /\ tab[t].got \in 0 .. luckLeft.made /\ tab[t].state \in 0 .. luckLeft.made

\* The refresh token in the browser is one the provider takes, whichever of its tabs signs
\* in, refreshes and stores last, unless a tab has an answer to store or an answer was lost
\* and nobody signed in since (auth.ts:49-58, 108-147).
BrowserTokenLive ==
    kept.refresh = 0 \/ kept.refresh \in taken \/ spoiled \/ \E t \in Tabs : Stores(t)
=============================================================================
