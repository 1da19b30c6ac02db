---------------------------- MODULE LauncherCore ----------------------------
(***************************************************************************)
(* launcher::Core: the accounts of the launcher's window, sign-in through  *)
(* a helper's window or by hand, library refreshes, and the installed      *)
(* games and Steam sync they share the worker with (GameSessions).         *)
(*                                                                         *)
(* The owner's thread applies completions, polls the sign-in window and    *)
(* carries out the user's acts; every step here is one of them, one task   *)
(* of the worker, or a step of a process outside.  The vault is what       *)
(* AccountVault's operations leave: per slot, whose token it holds.        *)
(***************************************************************************)
EXTENDS GameSessions, FiniteSets, Functions

ASSUME AccountsAssumption == IsFiniteSet(Accounts)

VARIABLES
  vault,         (* per slot: the owner of its token, "out" or "absent"    *)
  active,        (* the vault's active slot                                *)
  view,          (* accounts_: slots signed in when it was last reloaded   *)
  session,       (* session_: the owner of its token                       *)
  key,           (* account_key_                                           *)
  scope,         (* account_scope_ and session_->account_id                *)
  dl,            (* the account the download manager works for             *)
  signingIn, verifying, auth, manual,  (* signing_in_ ... auth_manual_     *)
  helper,        (* the sign-in window's process: "none", "open", "ending" *)
  events,        (* what the window reported and tick() has not polled     *)
  refreshing, adding,  (* refreshing_, adding_                             *)
  libraryPending,  (* library_pending_                                     *)
  wanted,        (* account of the sign-in being verified (history)        *)
  out            (* accounts signed out here and not in again (history)    *)

slots   == <<vault, active>>
window  == <<session, key, scope, dl>>
browser == <<helper, events>>
signIn  == <<signingIn, verifying, auth, manual, wanted>>
fetches == <<refreshing, adding, libraryPending>>
accountVars == <<slots, view, window, browser, signIn, fetches, out>>
vars == <<accountVars, games, worker, ops>>

\* The tasks whose completions compare epochs.
Epochs == {"begin", "complete", "refresh", "add"}

\* Mutant: a completion of an earlier epoch is applied.
Current_Any(t) == TRUE

Current(t) == t.current

-----------------------------------------------------------------------------
(* The vault and the accounts shown.                                       *)

In(v)  == {a \in Accounts : v[a] \in Accounts}
Reload == view' = In(vault')

\* vault_.upsert: the session's token goes to the slot its label names.
Upsert(label, owner) ==
  /\ vault' = [vault EXCEPT ![label] = owner]
  /\ active' = label

\* refresh_accounts: the accounts it asks for, in the order of the index,
\* which is any.
Stale == {a \in view' \intersect In(vault') : a # key' /\ a \notin libraryPending}

Orders(asked) == Bijection(1..Cardinality(asked), asked)

AccountTasks(order) == [i \in DOMAIN order |-> Make("account", order[i], {})]

\* browser_.close(): the window ends and its reader reports that.
CloseBrowser ==
  /\ helper' = "none"
  /\ events' = IF helper = "none" THEN events ELSE Append(events, "closed")

\* ++epoch_, browser_.close() and auth_.reset().
Abandon(more) ==
  /\ Queue(results, Epochs, more)
  /\ CloseBrowser
  /\ signingIn' = FALSE /\ verifying' = FALSE /\ auth' = FALSE
  /\ wanted' = None
  /\ UNCHANGED manual

-----------------------------------------------------------------------------
(* Accounts.                                                               *)

RefreshTask == Make("refresh", session', {})

\* The new session's library is fetched at once.
SwitchAccount(a) ==
  /\ Acts
  /\ a # key /\ a \in view \intersect In(vault)
  /\ active' = a
  /\ session' = vault[a] /\ key' = a /\ scope' = a /\ dl' = a
  /\ view' = In(vault)
  /\ refreshing' = TRUE
  /\ Abandon(<<RefreshTask>>)
  /\ UNCHANGED <<vault, adding, libraryPending, out, games>>

\* Mutant: signing out leaves what is under way alone.
SignOutAbandon_Not ==
  /\ Queue(results, {}, <<>>)
  /\ CloseBrowser
  /\ signingIn' = FALSE /\ verifying' = FALSE /\ auth' = FALSE
  /\ wanted' = None
  /\ UNCHANGED manual

SignOutAbandon == Abandon(<<>>)

\* sign_out_account, and remove_account with gone = "absent".
Leave(a, gone) ==
  /\ vault' = [vault EXCEPT ![a] = gone]
  /\ active' = IF active = a THEN None ELSE active
  /\ view' = In(vault')
  /\ out' = IF wanted = a /\ key # a THEN out ELSE out \union {a}
  /\ UNCHANGED <<adding, libraryPending, games>>
  /\ IF key = a
     THEN /\ session' = None /\ key' = None /\ scope' = None /\ dl' = None
          /\ refreshing' = FALSE
          /\ SignOutAbandon
     ELSE UNCHANGED <<window, refreshing, browser, signIn, worker>>

SignOut(a) ==
  /\ Acts
  /\ a \in view /\ vault[a] # "absent"
  /\ Leave(a, "out")

RemoveAccount(a) ==
  /\ Acts
  /\ \A g \in Games : runs[g] = "no"
  /\ vault[a] # "absent"
  /\ Leave(a, "absent")

\* Another process signs the account out or selects it.
Elsewhere(a) ==
  /\ Acts
  /\ a \in In(vault)
  /\ \/ vault' = [vault EXCEPT ![a] = "out"] /\ active' = IF active = a THEN None ELSE active
     \/ active # a /\ active' = a /\ UNCHANGED vault
  /\ UNCHANGED <<view, window, browser, signIn, fetches, out, games, worker>>

-----------------------------------------------------------------------------
(* Library refreshes.                                                      *)

Refresh ==
  /\ Acts
  /\ session # None /\ ~refreshing
  /\ refreshing' = TRUE
  /\ Queue(results, {}, <<Make("refresh", session, {})>>)
  /\ UNCHANGED <<slots, view, window, browser, signIn, adding, libraryPending, out, games>>

AddOwned ==
  /\ Acts
  /\ session # None /\ ~adding
  /\ adding' = TRUE
  /\ Queue(results, {}, <<Make("add", session, {})>>)
  /\ UNCHANGED <<slots, view, window, browser, signIn, refreshing, libraryPending, out, games>>

\* Nothing but the caller's flag changes.
Ignored ==
  /\ Queue(Tail(results), {}, <<>>)
  /\ UNCHANGED <<slots, view, window, libraryPending, games>>

\* Meta answered for another account than the one the window shows.
OtherAccount(r) ==
  session # None /\ scope # None /\ r.full /\ r.task.by # scope

\* merge and the rest of the refresh need the account's id.
Unusable(r) == ~r.ok \/ OtherAccount(r) \/ (scope = None /\ ~r.full)

\* The vault's write may fail after the library has been merged.
RefreshDone(r) ==
  /\ r.task.kind = "refresh"
  /\ refreshing' = (refreshing /\ ~Current(r.task))
  /\ UNCHANGED <<adding, browser, signIn, out>>
  /\ IF ~Current(r.task) \/ Unusable(r)
     THEN Ignored
     ELSE /\ scope' = IF r.full THEN r.task.by ELSE scope
          /\ UNCHANGED session
          /\ \/ /\ IF session = None
                   THEN UNCHANGED <<slots, view, key, dl>>
                   ELSE /\ Upsert(scope', session) /\ Reload
                        /\ key' = IF key = None THEN active' ELSE key
                        /\ dl' = key'
                /\ libraryPending' = libraryPending \union Stale
                /\ \E order \in Orders(Stale) :
                     SaveLibrary(Tail(results), AccountTasks(order))
             \/ /\ session # None
                /\ UNCHANGED <<slots, view, key, dl, libraryPending, games>>
                /\ Queue(Tail(results), {}, <<>>)

\* Mutant: a refresh of another account that failed stays pending.
Forgets_OnlyGood(r) == r.ok

\* Every refresh of another account is forgotten, even one that failed.
Forgets(r) == TRUE

\* Mutant: the profile is saved with the session the fetch was started with.
ProfileSaved_Fetched(a) == [vault EXCEPT ![a] = a]

\* update_profile: a slot that is signed in is saved again, with the names the
\* fetch brought and the session the slot holds now.
ProfileSaved(a) == IF a \in In(vault) THEN [vault EXCEPT ![a] = @] ELSE vault

\* No epoch is compared.  update_profile may throw.
AccountDone(r) ==
  /\ r.task.kind = "account"
  /\ libraryPending' = IF Forgets(r) THEN libraryPending \ {r.task.by} ELSE libraryPending
  /\ UNCHANGED <<active, window, browser, signIn, refreshing, adding, out>>
  /\ \/ /\ r.ok
        /\ vault' = ProfileSaved(r.task.by) /\ Reload
        /\ SaveLibrary(Tail(results), <<>>)
     \/ /\ UNCHANGED <<vault, view, games>>
        /\ Queue(Tail(results), {}, <<>>)

AddDone(r) ==
  /\ r.task.kind = "add"
  /\ adding' = (adding /\ ~Current(r.task))
  /\ UNCHANGED <<refreshing, browser, signIn, out>>
  /\ IF ~Current(r.task) \/ ~r.ok \/ OtherAccount(r)
     THEN Ignored
     ELSE /\ UNCHANGED <<slots, view, window, libraryPending>>
          /\ SaveLibrary(Tail(results), <<>>)

-----------------------------------------------------------------------------
(* Sign-in.                                                                *)

\* Mutant: the verification of an earlier sign-in is not forgotten.
Verifies_Still == verifying

Verifies == FALSE

\* sign_in and add_account; the frame has polled what a close left behind.
SignIn ==
  /\ Acts
  /\ ~signingIn /\ events = <<>>
  /\ signingIn' = TRUE /\ verifying' = Verifies /\ wanted' = None
  /\ refreshing' = FALSE
  /\ Queue(results, Epochs, <<Make("begin", None, {})>>)
  /\ UNCHANGED <<slots, view, window, browser, auth, manual, adding, libraryPending,
                 out, games>>

\* The window opens, unless its process cannot be started.
BeginDone(r) ==
  /\ r.task.kind = "begin"
  /\ Queue(Tail(results), {}, <<>>)
  /\ UNCHANGED <<slots, view, window, fetches, verifying, wanted, out, games>>
  /\ IF ~Current(r.task) THEN UNCHANGED <<signingIn, auth, manual, browser>>
     ELSE IF ~r.ok
     THEN signingIn' = FALSE /\ UNCHANGED <<auth, manual, browser>>
     ELSE /\ auth' = TRUE /\ manual' = FALSE /\ UNCHANGED signingIn
          /\ events' = <<>> /\ helper' \in {"open", "none"}

\* complete_sign_in, with the address of a sign-in as a.
Verifiable == auth /\ signingIn /\ ~verifying

CompleteSignIn(a) ==
  /\ verifying' = TRUE /\ wanted' = a /\ out' = out \ {a}
  /\ Queue(results, {}, <<Make("complete", a, {})>>)
  /\ UNCHANGED <<signingIn, auth, manual>>

\* The vault may refuse the session; the sign-in is over either way.
CompleteDone(r) ==
  /\ r.task.kind = "complete"
  /\ UNCHANGED <<browser, manual, fetches, out>>
  /\ IF ~Current(r.task)
     THEN UNCHANGED <<slots, view, window, signIn, games>> /\ Queue(Tail(results), {}, <<>>)
     ELSE /\ signingIn' = FALSE /\ verifying' = FALSE /\ auth' = FALSE /\ wanted' = None
          /\ LET a == r.task.by
             IN  \/ /\ r.ok
                    /\ Upsert(a, a) /\ Reload
                    /\ session' = a /\ key' = a /\ scope' = a /\ dl' = a
                    /\ SaveLibrary(Tail(results), <<>>)
                 \/ /\ UNCHANGED <<slots, view, window, games>>
                    /\ Queue(Tail(results), {}, <<>>)

CancelSignIn ==
  /\ Acts
  /\ signingIn
  /\ Abandon(<<>>)
  /\ UNCHANGED <<slots, view, window, fetches, out, games>>

\* The user pastes the address another browser got.
PasteSignIn(a) ==
  /\ Acts
  /\ Verifiable
  /\ CompleteSignIn(a)
  /\ UNCHANGED <<slots, view, window, browser, fetches, games>>

-----------------------------------------------------------------------------
(* The sign-in window (platform/posix/auth_browser.cpp): a process that    *)
(* reports what happens and ends; its reader then reports that it closed.  *)

WindowReports(e) ==
  /\ events' = Append(events, e)
  /\ UNCHANGED <<slots, view, window, signIn, fetches, out, games, worker, ops>>

\* It reaches the address of account a, or fails.
HelperReports(e) ==
  /\ helper = "open" /\ helper' = "ending"
  /\ WindowReports(e)

HelperCloses ==
  /\ helper # "none" /\ helper' = "none"
  /\ WindowReports("closed")

\* tick() polls one event.
PollBrowser ==
  /\ events # <<>>
  /\ events' = Tail(events)
  /\ UNCHANGED <<helper, slots, view, window, fetches, games, ops>>
  /\ \/ /\ Head(events) = "error"
        /\ IF Verifiable
           THEN manual' = TRUE /\ UNCHANGED signingIn
           ELSE signingIn' = FALSE /\ UNCHANGED manual
        /\ UNCHANGED <<verifying, auth, wanted, out, worker>>
     \/ /\ Head(events) = "closed"
        /\ IF signingIn /\ ~verifying
           THEN /\ signingIn' = FALSE /\ auth' = FALSE
                /\ Queue(results, Epochs, <<>>)
           ELSE UNCHANGED <<signingIn, auth, worker>>
        /\ UNCHANGED <<verifying, manual, wanted, out>>
     \/ /\ Head(events) \in Accounts
        /\ IF Verifiable
           THEN CompleteSignIn(Head(events))
           ELSE UNCHANGED <<signIn, out, worker>>

-----------------------------------------------------------------------------
\* A snapshot may come without its account's id (store.cpp).
RunFetch ==
  /\ tasks # <<>> /\ Head(tasks).kind \notin {"scan", "steam"}
  /\ \E ok, full \in BOOLEAN :
       /\ full \/ (ok /\ Head(tasks).kind = "refresh")
       /\ Finished(Answer(Head(tasks), ok, full, {}))
  /\ UNCHANGED <<accountVars, games, ops>>

Run == RunFetch \/ ((RunScan \/ RunSteam) /\ UNCHANGED accountVars)

Apply ==
  /\ results # <<>>
  /\ UNCHANGED ops
  /\ LET r == Head(results)
     IN  \/ (ScanDone(r) \/ SteamDone(r)) /\ UNCHANGED accountVars
         \/ RefreshDone(r) \/ AccountDone(r) \/ AddDone(r)
         \/ BeginDone(r) \/ CompleteDone(r)

Tick == PollBrowser \/ ((Poll \/ PollSteam) /\ UNCHANGED accountVars)

UserActs ==
  \/ \E a \in Accounts : \/ SwitchAccount(a) \/ SignOut(a) \/ RemoveAccount(a)
                         \/ PasteSignIn(a)
  \/ Refresh \/ AddOwned \/ SignIn \/ CancelSignIn
  \/ GameActs /\ UNCHANGED accountVars

WindowActs ==
  \/ \E e \in Accounts \union {"error"} : HelperReports(e)
  \/ HelperCloses

Start(a, k) ==
  /\ session = a /\ key = k /\ dl = k
  /\ tasks = <<Make("scan", None, {})>>
             \o (IF a = None THEN <<>> ELSE <<Make("refresh", a, {})>>)
  /\ refreshing = (a # None)

\* After the constructor and start().  A session without a slot is one of the
\* first version, whose account may not be known yet.
Init ==
  /\ GamesInit
  /\ \/ \E signed \in SUBSET Accounts : \E a \in signed \union {None} :
          /\ vault = [b \in Accounts |-> IF b \in signed THEN b ELSE "absent"]
          /\ active = a /\ scope = a
          /\ Start(a, a)
     \/ \E a \in Accounts :
          /\ vault = [b \in Accounts |-> "absent"]
          /\ active = None /\ scope \in {a, None}
          /\ Start(a, None)
  /\ view = In(vault)
  /\ signingIn = FALSE /\ verifying = FALSE /\ auth = FALSE /\ manual = FALSE
  /\ helper = "none" /\ events = <<>> /\ adding = FALSE /\ libraryPending = {}
  /\ wanted = None /\ out = {} /\ results = <<>>

Next ==
  \/ open /\ (Run \/ Apply \/ Tick \/ UserActs \/ WindowActs)
  \/ OutsideActs /\ UNCHANGED accountVars
  \/ \E a \in Accounts : Elsewhere(a)

Spec == Init /\ [][Next]_vars

-----------------------------------------------------------------------------
(* Properties.                                                             *)

LauncherTypeOK ==
  /\ WorkerTypeOK /\ GamesTypeOK
  /\ vault \in [Accounts -> Accounts \union {"out", "absent"}]
  /\ {active, session, key, scope, dl, wanted} \subseteq Accounts \union {None}
  /\ view \subseteq Accounts /\ out \subseteq Accounts /\ libraryPending \subseteq Accounts
  /\ {signingIn, verifying, auth, manual, refreshing, adding} \subseteq BOOLEAN
  /\ helper \in {"none", "open", "ending"}
  /\ events \in Seq(Accounts \union {"error", "closed"})

\* The session, the account key, the scope that games are filed under and the
\* account downloads run for are of one account, whatever answer arrives late
\* and whichever write of the vault fails; and no slot of the vault holds
\* another account's token.
SessionIsOfKey ==
  /\ dl = key
  /\ key # None => session = key /\ scope = key
  /\ scope # None => session = scope
  /\ \A a \in In(vault) : vault[a] = a

\* An account signed out in this window is not signed in again by what was
\* under way then, only by a sign-in completed since.
SignedOutStaysOut == out \intersect In(vault) = {}

\* A completion changes whose session a slot holds only for the session shown
\* or for the sign-in being verified, and changes the session only to the
\* latter: what another account's fetch saves, long after that account was
\* signed out, replaced or removed, is what its slot holds by then.
OnlyWantedChanges ==
  [][Len(results') < Len(results)
       => /\ session' # session => verifying /\ session' = wanted
          /\ vault' # vault =>
               \E a \in Accounts :
                 /\ \A b \in Accounts \ {a} : vault'[b] = vault[b]
                 /\ a = session \/ (verifying /\ a = wanted)]_<<results, session, vault>>

\* "Verifying" shows exactly while an answer is coming that will not be
\* dropped, and "Opening" only while the sign-in's address is: a sign-in never
\* waits for nothing, and no abandoned one is completed.
SignInHasAnswer ==
  /\ verifying <=> Underway("complete") # {}
  /\ signingIn /\ ~verifying /\ ~auth => Underway("begin") # {}

\* An account whose library is being fetched has exactly one fetch under way,
\* so that the next refresh asks for it again.
PendingHasTask ==
  \A a \in Accounts :
    Cardinality({i \in DOMAIN Submitted : /\ Submitted[i].kind = "account"
                                          /\ Submitted[i].by = a})
      = IF a \in libraryPending THEN 1 ELSE 0

\* core.cpp: once the window could not open, "The sign-in still works in any
\* browser: keep waiting for its address."
ManualKeepsWaiting ==
  [][Verifiable /\ manual /\ PollBrowser => signingIn']_vars
=============================================================================
