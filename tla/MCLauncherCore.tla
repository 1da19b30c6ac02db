--------------------------- MODULE MCLauncherCore ---------------------------
(***************************************************************************)
(* A small launcher for TLC: two accounts and one game.  The accounts and  *)
(* the games meet in the worker's queue and in save_library; three         *)
(* instances share a run, so that each part is followed further than both  *)
(* can be together: the accounts with Steam left alone, the games with one *)
(* account at most, and everything for fewer acts.                         *)
(***************************************************************************)
EXTENDS LauncherCore

CONSTANTS anna, bert, AccountOps, GameOps, BothOps

VARIABLE focus

MCInit ==
  /\ Init
  /\ focus \in {"accounts", "games", "both"}
  /\ focus = "accounts" =>
       /\ disk = {} /\ shortcuts = {} /\ ~steamUp /\ ~enabled
       /\ session \in {anna, None} /\ In(vault) \in {{}, Accounts}
  /\ focus = "games" => In(vault) \subseteq {anna} /\ session \in {key, None} /\ enabled
  /\ focus = "both" =>
       session \in {anna, None} /\ disk = Games /\ shortcuts = {} /\ enabled /\ steamUp

MCBound ==
  CASE focus = "accounts" -> AccountOps
    [] focus = "games" -> GameOps
    [] focus = "both" -> BothOps

MCNext ==
  /\ Next
  /\ UNCHANGED focus
  /\ ops' <= MCBound
  /\ focus = "accounts" =>
       /\ UNCHANGED <<locks, disk, completed, prefs, steamUp>>
       /\ scanning' \/ reliable'
  /\ focus = "both" => open'
  /\ focus = "games" => UNCHANGED <<signIn, key, libraryPending>> /\ (adding' => adding)

MCSpec == MCInit /\ [][MCNext]_<<vars, focus>>
=============================================================================
