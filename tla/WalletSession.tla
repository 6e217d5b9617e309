--------------------------- MODULE WalletSession ---------------------------
(* The connected wallet of the frontend, in one of the two stores that keep   *)
(* it: the React context of the pages (context/WalletContext.js), or the      *)
(* persisted store of the header and the transfer form (store/walletStore.js, *)
(* hooks/useFreighterSync.js). Both read balances from Horizon                *)
(* (lib/horizonClient.js); into the persisted one the header's BalanceDisplay *)
(* and the redemption form read the balance of the wallet linked to the       *)
(* signed-in user as well, from the backend (routes/wallet.js).               *)
(*                                                                            *)
(* A balance is the number of changes its wallet has seen. Answers come late  *)
(* and in any order; the user connects, disconnects, reloads the page and     *)
(* switches the account of the extension meanwhile.                           *)
EXTENDS Integers, FiniteSets

CONSTANTS Wallet, NoWallet, \* accounts of the extension
          Read,             \* reads of a balance that may be on their way
          MaxChanges,       \* bound on changes of balances
          MaxReloads        \* bound on reloads of the page

SessionAssumption ==
  NoWallet \notin Wallet /\ IsFiniteSet(Read) /\ MaxChanges \in Nat /\ MaxReloads \in Nat

VARIABLES store,      \* which of the stores
          linked,     \* the wallet the backend has for the user, if one is signed in
          account,    \* the extension's account
          holdings,   \* wallet -> changes of its balance
          publicKey,  \* the connected wallet, which localStorage keeps
          shown,      \* the balance the store has, and of which wallet
          prompt,     \* connect: the account it was given
          reads,      \* the reads on their way
          reloads,
          crossed,    \* history: the wallet changed while a read was on its way, the
                      \* read whose failure took it away included, or without one
          overlapped, \* history: two reads were on their way
          backwards,  \* history: an older balance replaced a newer one
          robbed      \* history: a read that failed took another wallet away, though
                      \* none had changed while it was on its way

walletVars == <<store, linked, account, holdings, publicKey, shown, prompt, reads, reloads,
                crossed, overlapped, backwards, robbed>>

Nothing == [of |-> NoWallet, balance |-> 0]
NoRead == [step |-> "none", of |-> NoWallet, balance |-> 0, hydrates |-> FALSE]
Asked(key, hydrates) == [step |-> "asked", of |-> key, balance |-> 0, hydrates |-> hydrates]

Init ==
  /\ store \in {"context", "store"}
  /\ linked \in Wallet \union {NoWallet} /\ (store = "context" => linked = NoWallet)
  /\ account \in Wallet
  /\ holdings = [w \in Wallet |-> 0]
  /\ publicKey = NoWallet /\ shown = Nothing /\ prompt = NoWallet
  /\ reads = [r \in Read |-> NoRead]
  /\ reloads = 0
  /\ crossed = FALSE /\ overlapped = FALSE /\ backwards = FALSE /\ robbed = FALSE

OnTheirWay == {r \in Read : reads[r] # NoRead}

SetKey(key) ==
  /\ publicKey' = key
  /\ crossed' = (crossed \/ (key # publicKey /\ OnTheirWay # {}))

Ask(r, key) ==
  /\ reads[r] = NoRead /\ reads' = [reads EXCEPT ![r] = Asked(key, FALSE)]
  /\ overlapped' = (overlapped \/ OnTheirWay # {})

-----------------------------------------------------------------------------
(* The world: transfers, the extension, Horizon.                            *)

Change(w) ==
  /\ holdings[w] < MaxChanges /\ holdings' = [holdings EXCEPT ![w] = @ + 1]
  /\ UNCHANGED <<store, linked, account, publicKey, shown, prompt, reads, reloads, crossed,
                 overlapped, backwards, robbed>>

Answer(r) ==
  /\ reads[r].step = "asked"
  /\ reads' = [reads EXCEPT ![r].step = "answered", ![r].balance = holdings[reads[r].of]]
  /\ UNCHANGED <<store, linked, account, holdings, publicKey, shown, prompt, reloads, crossed,
                 overlapped, backwards, robbed>>

\* Where useFreighterSync is mounted it writes the account into the persisted store at
\* once, connected or not, and reads no balance.
SwitchAccount(w, synced) ==
  /\ account # w /\ account' = w
  /\ IF synced /\ store = "store"
     THEN publicKey' = w /\ crossed' = TRUE
     ELSE UNCHANGED <<publicKey, crossed>>
  /\ UNCHANGED <<store, linked, holdings, shown, prompt, reads, reloads, overlapped, backwards, robbed>>

-----------------------------------------------------------------------------
(* connect, disconnect, refreshBalance.                                     *)

\* The extension gives its account; the network it is on is asked for next.
Approve ==
  /\ prompt = NoWallet /\ publicKey = NoWallet /\ prompt' = account
  /\ UNCHANGED <<store, linked, account, holdings, publicKey, shown, reads, reloads, crossed,
                 overlapped, backwards, robbed>>

\* The wallet is set, and its balance asked for.
Connect(r) ==
  /\ prompt # NoWallet /\ prompt' = NoWallet
  /\ SetKey(prompt) /\ Ask(r, prompt)
  /\ UNCHANGED <<store, linked, account, holdings, shown, reloads, backwards, robbed>>

Disconnect ==
  /\ publicKey # NoWallet
  /\ SetKey(NoWallet) /\ shown' = Nothing
  /\ UNCHANGED <<store, linked, account, holdings, prompt, reads, reloads, overlapped, backwards, robbed>>

RefreshBalance(r) ==
  /\ publicKey # NoWallet
  /\ Ask(r, publicKey)
  /\ UNCHANGED <<store, linked, account, holdings, publicKey, shown, prompt, reloads, crossed,
                 backwards, robbed>>

\* fetchBalanceFromAPI, when the header is mounted with a wallet, when the wallet
\* changes, and after a redemption, whatever the wallet is by then. A user without a
\* linked wallet gets an error, which changes nothing here.
FetchBalanceFromAPI(r) ==
  /\ linked # NoWallet
  /\ Ask(r, linked)
  /\ UNCHANGED <<store, linked, account, holdings, publicKey, shown, prompt, reloads, crossed,
                 backwards, robbed>>

\* A page that is loaded takes the wallet from localStorage and asks for its balance;
\* what was on its way is gone with the old page.
Reload(r) ==
  /\ reloads < MaxReloads /\ reloads' = reloads + 1
  /\ reads' = [q \in Read |->
       IF q = r /\ publicKey # NoWallet THEN Asked(publicKey, TRUE) ELSE NoRead]
  /\ shown' = Nothing /\ prompt' = NoWallet
  /\ crossed' = FALSE /\ overlapped' = FALSE /\ backwards' = FALSE /\ robbed' = FALSE
  /\ UNCHANGED <<store, linked, account, holdings, publicKey>>

-----------------------------------------------------------------------------
(* An answer comes, or an error.                                            *)

\* It is stored whatever the wallet is by now.
Arrive(r) ==
  LET balance == [of |-> reads[r].of, balance |-> reads[r].balance]
  IN
  /\ reads[r].step = "answered" /\ reads' = [reads EXCEPT ![r] = NoRead]
  /\ shown' = balance
  /\ backwards' = (backwards \/ (shown.of = balance.of /\ balance.balance < shown.balance))
  /\ UNCHANGED <<store, linked, account, holdings, publicKey, prompt, reloads, crossed, overlapped, robbed>>

\* A refresh or a fetch only shows an error. The read of a loading page takes the wallet away,
\* whichever it is by now, and in the persisted store the balance with it.
Fail(r) ==
  /\ reads[r] # NoRead /\ reads' = [reads EXCEPT ![r] = NoRead]
  /\ IF reads[r].hydrates
     THEN /\ SetKey(NoWallet)
          /\ shown' = IF store = "store" THEN Nothing ELSE shown
          /\ robbed' = (robbed \/ (~crossed /\ publicKey \notin {NoWallet, reads[r].of}))
     ELSE UNCHANGED <<publicKey, shown, crossed, robbed>>
  /\ UNCHANGED <<store, linked, account, holdings, prompt, reloads, overlapped, backwards>>

Next ==
  \/ \E w \in Wallet : Change(w) \/ \E synced \in BOOLEAN : SwitchAccount(w, synced)
  \/ Approve \/ Disconnect
  \/ \E r \in Read :
       \/ Answer(r) \/ Arrive(r) \/ Fail(r) \/ Reload(r)
       \/ Connect(r) \/ RefreshBalance(r) \/ FetchBalanceFromAPI(r)

-----------------------------------------------------------------------------
TypeOK ==
  /\ store \in {"context", "store"} /\ linked \in Wallet \union {NoWallet}
  /\ account \in Wallet /\ holdings \in [Wallet -> 0..MaxChanges]
  /\ {publicKey, prompt, shown.of} \subseteq Wallet \union {NoWallet}
  /\ shown.balance \in 0..MaxChanges
  /\ reads \in [Read -> [step : {"none", "asked", "answered"}, of : Wallet \union {NoWallet},
                        balance : 0..MaxChanges, hydrates : BOOLEAN]]
  /\ reloads \in 0..MaxReloads
  /\ {crossed, overlapped, backwards, robbed} \subseteq BOOLEAN

\* The balance beside a connected wallet is its own or that of the user's linked wallet,
\* through reconnections, reloads and failures, unless the wallet changed while a read
\* was on its way. In the context nothing is read of another wallet.
BalanceIsOfWallet ==
  publicKey # NoWallet /\ ~crossed => shown.of \in {publicKey, linked, NoWallet}

\* A balance never goes back to what it was, unless two reads of it were on their way.
BalanceNotBackwards == backwards => overlapped

\* Only when the wallet changed under way can a failed read disconnect one it was not
\* about.
KeptUnlessCrossed == ~robbed
=============================================================================
