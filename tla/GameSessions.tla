---------------------------- MODULE GameSessions ----------------------------
(***************************************************************************)
(* Installed games in the launcher (Core): the scan of their records, the  *)
(* locks that keep a running game from being uninstalled or started twice, *)
(* and the sync that lists them in Steam (common/steam_library.cpp).       *)
(*                                                                         *)
(* Other RiftLift processes (the command line, a launch from Steam) start, *)
(* end and uninstall games of the same data folder at any time.  A         *)
(* launcher that closes or dies lets go of its locks while its games run   *)
(* on, until they notice.  Steam starts and closes at any time, and its    *)
(* shortcuts are only written while it is closed.                          *)
(***************************************************************************)
EXTENDS Worker

CONSTANT MaxOps  (* bound: acts of the user and of other processes         *)

ASSUME GamesAssumption == MaxOps \in Nat

VARIABLES
  disk,          (* games with a complete record                           *)
  installs,      (* installs_, what the last scan found                    *)
  scanning, reliable,  (* scanning_, steam_scan_reliable_                  *)
  lock,          (* who holds locks/game-<package>.lock                    *)
  runs,          (* running_: "no", "alive", or "exited" and not polled    *)
  others,        (* the same, of another process's launcher                *)
  orphans,       (* games that run on after their launcher                 *)
  open,          (* this launcher's window is there                        *)
  completed,     (* downloads completed since the last poll                *)
  enabled, skip, (* settings: add_games_to_steam, steam_skip               *)
  shortcuts,     (* RiftLift's entries in Steam's shortcuts.vdf            *)
  steamUp,       (* steam_library::running()                               *)
  busy,          (* steam_busy_                                            *)
  steamPending,  (* steam_pending_: titles wait for Steam to close         *)
  restart,       (* steam_restart_: Steam was asked to close for them      *)
  probed,        (* the sync the worker runs has passed its last probe     *)
  sure,          (* the last scan applied was authoritative (history)      *)
  leftOut,       (* games the user ever left out of Steam (history)        *)
  failed,        (* the last sync applied had failed (history)             *)
  ops            (* acts so far (bound)                                    *)

scans   == <<installs, scanning, reliable, sure>>
away    == <<others, orphans, open>>
locks   == <<lock, runs, away>>
prefs   == <<enabled, skip, leftOut>>
client  == <<restart, steamUp>>
sync    == <<busy, steamPending, failed>>
games   == <<disk, scans, locks, completed, prefs, client, sync, shortcuts, probed>>

Acts == ops < MaxOps /\ ops' = ops + 1

\* The games Steam should list.
Titles(found, left) == found \ left

-----------------------------------------------------------------------------
(* sync_steam and rescan.                                                  *)

\* Mutant: a scan that could not read every record drives the sync too.
Authoritative_Any(full) == TRUE

Authoritative(full) == full

Moves == {"steam"}

\* sync_steam, after the assignments of its caller: idle is steam_busy_ and
\* waits steam_pending_ at the call.
SyncSteam(rest, idle, waits, more) ==
  LET begins == ~scanning' /\ reliable' /\ idle /\ enabled'
  IN  /\ busy' = (begins \/ ~idle)
      /\ steamPending' = (waits /\ (scanning' \/ (reliable' /\ (~idle \/ enabled'))))
      /\ Queue(rest, Moves,
               (IF begins THEN <<Make("steam", None, Titles(installs', skip'))>> ELSE <<>>)
               \o more)

\* Steam, closed for a restart, is started again; that may fail.
StartClient(starts) ==
  IF starts
  THEN restart' = FALSE /\ steamUp' \in {steamUp, TRUE}
  ELSE UNCHANGED client

\* Without an authoritative scan Steam comes back regardless.
GivesUp == ~scanning' /\ ~reliable' /\ restart /\ ~steamUp

Sync(rest, more) ==
  /\ SyncSteam(rest, ~busy, steamPending, more)
  /\ StartClient(GivesUp)
  /\ UNCHANGED <<failed, shortcuts, probed>>

Rescan(rest) ==
  /\ UNCHANGED <<installs, sure, sync, client, shortcuts, probed>>
  /\ IF scanning
     THEN UNCHANGED <<scanning, reliable>> /\ Queue(rest, {}, <<>>)
     ELSE /\ scanning' = TRUE /\ reliable' = FALSE
          /\ Queue(rest, {"steam"}, <<Make("scan", None, {})>>)

\* save_library: the catalog is saved, and the sync follows unless a scan,
\* which ends with it, is under way.
SaveLibrary(rest, more) ==
  /\ UNCHANGED <<disk, scans, locks, completed, prefs>>
  /\ IF scanning
     THEN Queue(rest, {}, more) /\ UNCHANGED <<sync, client, shortcuts, probed>>
     ELSE Sync(rest, more)

-----------------------------------------------------------------------------
(* The worker's tasks and their completions.                               *)

\* library::scan reads every record it can.
RunScan ==
  /\ tasks # <<>> /\ Head(tasks).kind = "scan"
  /\ \/ \E found \in SUBSET disk :
          Finished(Answer(Head(tasks), TRUE, found = disk, found))
     \/ Finished(Answer(Head(tasks), FALSE, FALSE, {}))
  /\ UNCHANGED <<games, ops>>

ScanDone(r) ==
  /\ r.task.kind = "scan"
  /\ scanning' = FALSE
  /\ UNCHANGED <<disk, locks, completed, prefs>>
  /\ \/ /\ r.ok
        /\ installs' = r.games /\ reliable' = Authoritative(r.full)
        /\ sure' = r.full
        /\ Sync(Tail(results), <<>>)
     \/ /\ ~r.ok
        /\ UNCHANGED <<installs, reliable, sure, sync, client, shortcuts, probed>>
        /\ Queue(Tail(results), {}, <<>>)

\* steam_library::sync asks before it writes whether it should still.
Deferred(t) == steamUp \/ ~t.current

RunSteam ==
  /\ tasks # <<>> /\ Head(tasks).kind = "steam"
  /\ LET t == Head(tasks)
     IN  \/ /\ probed                        \* the write
            /\ shortcuts' = t.games /\ probed' = FALSE
            /\ Finished(Answer(t, TRUE, TRUE, {}))
         \/ /\ ~probed /\ ~Deferred(t)
            /\ probed' = TRUE
            /\ UNCHANGED <<shortcuts, worker>>
         \/ /\ ~probed /\ Deferred(t)
            /\ Finished(Answer(t, TRUE, shortcuts = t.games, {}))
            /\ UNCHANGED <<shortcuts, probed>>
         \/ /\ Finished(Answer(t, FALSE, FALSE, {}))  \* an exception
            /\ probed' = FALSE
            /\ UNCHANGED shortcuts
  /\ UNCHANGED <<disk, scans, locks, completed, prefs, client, sync, ops>>

\* Mutant: a sync the titles changed under is taken for the last one.
Again_Never(t) == FALSE

Again(t) == ~t.current

\* A failed sync is not retried until something changes.
SteamDone(r) ==
  /\ r.task.kind = "steam"
  /\ failed' = ~r.ok
  /\ UNCHANGED <<disk, scans, locks, completed, prefs, shortcuts, probed>>
  /\ LET waits == r.ok /\ ~r.full
     IN  IF Again(r.task)
         THEN SyncSteam(Tail(results), TRUE, waits, <<>>)
         ELSE /\ busy' = FALSE /\ steamPending' = waits
              /\ Queue(Tail(results), {}, <<>>)
  /\ StartClient(IF r.ok /\ Again(r.task) THEN GivesUp
                 ELSE restart /\ (~r.ok \/ r.full))

-----------------------------------------------------------------------------
(* The user, other processes and the poll of tick().                       *)

\* Mutant: the game's lock is not taken.
Free_Any(g) == TRUE

Free(g) == lock[g] = None

Launch(g) ==
  /\ Acts
  /\ g \in installs /\ runs[g] = "no" /\ lock[g] = None
  /\ runs' = [runs EXCEPT ![g] = "alive"]
  /\ lock' = [lock EXCEPT ![g] = "window"]
  /\ UNCHANGED <<disk, scans, away, completed, prefs>>
  /\ \/ UNCHANGED <<worker, sync, client, shortcuts, probed>>
     \/ ~scanning /\ Sync(results, <<>>)  \* the catalog has the game

GameExits(g) ==
  /\ runs[g] = "alive"
  /\ runs' = [runs EXCEPT ![g] = "exited"]
  /\ UNCHANGED <<disk, scans, lock, away, completed, prefs, client, sync, shortcuts,
                 probed, worker, ops>>

\* library::uninstall reads the record again, which may be gone.
Uninstall(g) ==
  /\ Acts
  /\ g \in installs \intersect disk /\ Free(g)
  /\ disk' = disk \ {g}
  /\ Rescan(results)
  /\ UNCHANGED <<locks, completed, prefs>>

Exited == {g \in Games : runs[g] = "exited"}

\* Mutant: a game that ended keeps its lock.
Released_Keeps(g) == lock[g]

Released(g) == IF g \in Exited THEN None ELSE lock[g]

\* tick() every 400 ms: games that ended, downloads that completed.
Poll ==
  /\ Exited # {} \/ completed
  /\ runs' = [g \in Games |-> IF g \in Exited THEN "no" ELSE runs[g]]
  /\ lock' = [g \in Games |-> Released(g)]
  /\ completed' = FALSE
  /\ Rescan(results)
  /\ UNCHANGED <<disk, away, prefs, ops>>

Download(g) ==
  /\ Acts
  /\ disk' = disk \union {g} /\ completed' = TRUE
  /\ UNCHANGED <<scans, locks, prefs, client, sync, shortcuts, probed, worker>>

\* shutdown(), or the end of the process: the games started run on, and the
\* locks are gone with the descriptors that held them.
Quit ==
  /\ Acts
  /\ open' = FALSE
  /\ orphans' = orphans \union {g \in Games : runs[g] = "alive"}
  /\ runs' = [g \in Games |-> "no"]
  /\ lock' = [g \in Games |-> IF lock[g] = "window" THEN None ELSE lock[g]]
  /\ UNCHANGED <<disk, scans, others, completed, prefs, client, sync, shortcuts,
                 probed, worker>>

Outside == UNCHANGED <<disk, scans, runs, open, completed, prefs, client, sync,
                       shortcuts, probed, worker>>

OtherLaunch(g) ==
  /\ Acts
  /\ g \in disk /\ lock[g] = None
  /\ lock' = [lock EXCEPT ![g] = "other"] /\ others' = [others EXCEPT ![g] = "alive"]
  /\ UNCHANGED orphans /\ Outside

OtherEnds(g) ==
  /\ others[g] = "alive"
  /\ others' = [others EXCEPT ![g] = "exited"]
  /\ UNCHANGED <<lock, orphans, ops>> /\ Outside

\* The other launcher notices that its game ended, closes or dies.
OtherExit(g) ==
  /\ others[g] # "no"
  /\ others' = [others EXCEPT ![g] = "no"] /\ lock' = [lock EXCEPT ![g] = None]
  /\ orphans' = IF others[g] = "alive" THEN orphans \union {g} ELSE orphans
  /\ UNCHANGED ops /\ Outside

\* The runtime finds its --parent-pid gone and stops the game.
OrphanEnds(g) ==
  /\ g \in orphans
  /\ orphans' = orphans \ {g}
  /\ UNCHANGED <<lock, others, ops>> /\ Outside

OtherUninstall(g) ==
  /\ Acts
  /\ g \in disk /\ Free(g)
  /\ disk' = disk \ {g}
  /\ UNCHANGED <<scans, locks, completed, prefs, client, sync, shortcuts, probed,
                 worker>>

SetInSteam(g) ==
  /\ Acts
  /\ skip' = (skip \ {g}) \union ({g} \ skip)
  /\ leftOut' = leftOut \union {g}
  /\ UNCHANGED <<enabled, disk, scans, locks, completed>>
  /\ Sync(results, <<>>)

ApplySettings ==
  /\ Acts
  /\ enabled' = ~enabled
  /\ UNCHANGED <<skip, leftOut, disk, locks, completed>>
  /\ Rescan(results)

SteamChanges ==
  /\ \/ Acts
     \/ restart /\ steamUp /\ UNCHANGED ops
  /\ steamUp' = ~steamUp
  /\ UNCHANGED <<disk, scans, locks, completed, prefs, restart, sync, shortcuts,
                 probed, worker>>

RestartSteam ==
  /\ Acts
  /\ ~restart /\ steamPending
  /\ restart' = TRUE
  /\ UNCHANGED <<disk, scans, locks, completed, prefs, steamUp, sync, shortcuts,
                 probed, worker>>

\* tick() every two seconds, once Steam has closed.
PollSteam ==
  /\ steamPending \/ restart
  /\ ~busy /\ ~steamUp
  /\ UNCHANGED <<disk, scans, locks, completed, prefs, ops>>
  /\ IF ~enabled /\ restart
     THEN StartClient(TRUE) /\ UNCHANGED <<sync, shortcuts, probed, worker>>
     ELSE Sync(results, <<>>)

\* After start(), with the first scan on its way.
GamesInit ==
  /\ disk \in SUBSET Games /\ shortcuts \in SUBSET Games
  /\ installs = {} /\ scanning = TRUE /\ reliable = FALSE /\ sure = FALSE
  /\ lock = [g \in Games |-> None] /\ runs = [g \in Games |-> "no"]
  /\ others = [g \in Games |-> "no"] /\ orphans = {} /\ open = TRUE
  /\ completed = FALSE /\ enabled \in BOOLEAN /\ skip = {} /\ leftOut = {}
  /\ steamUp \in BOOLEAN /\ busy = FALSE /\ steamPending = FALSE
  /\ restart = FALSE /\ probed = FALSE /\ failed = FALSE /\ ops = 0

GameActs ==
  \/ \E g \in Games : Launch(g) \/ GameExits(g) \/ Uninstall(g) \/ Download(g) \/ SetInSteam(g)
  \/ ApplySettings \/ RestartSteam \/ Quit

OutsideActs ==
  \/ \E g \in Games : \/ OtherLaunch(g) \/ OtherEnds(g) \/ OtherExit(g)
                      \/ OrphanEnds(g) \/ OtherUninstall(g)
  \/ SteamChanges

GamesTypeOK ==
  /\ disk \subseteq Games /\ installs \subseteq Games
  /\ lock \in [Games -> {None, "window", "other"}]
  /\ runs \in [Games -> {"no", "alive", "exited"}]
  /\ others \in [Games -> {"no", "alive", "exited"}]
  /\ \A g \in Games : /\ lock[g] = "window" <=> runs[g] # "no"
                      /\ lock[g] = "other" <=> others[g] # "no"
  /\ orphans \subseteq Games /\ open \in BOOLEAN
  /\ {scanning, reliable, sure, completed, enabled, steamUp, busy, steamPending,
      restart, probed, failed} \subseteq BOOLEAN
  /\ skip \subseteq leftOut /\ leftOut \subseteq Games
  /\ shortcuts \subseteq Games /\ ops \in 0..MaxOps

-----------------------------------------------------------------------------
(* Properties.                                                             *)

\* The games a launcher that is still there started and that run.
Watched == {g \in Games : runs[g] = "alive" \/ others[g] = "alive"}

\* No process uninstalls a running game as long as the launcher that started
\* it is there, however launches, ends, polls and uninstalls of several
\* processes interleave; one whose launcher has closed or died is unlocked
\* until it notices, and only such a game can go while it runs.
RunningStaysInstalled ==
  [][\A g \in (Watched \union orphans) \intersect disk :
        g \notin disk' => g \in orphans \ Watched]_<<disk, runs, others, orphans>>

\* With nothing under way, Steam lists the games of the last scan that the
\* user has not left out: a change during a sync is never lost
\* (steam_generation_), unless the sync failed.
SteamIsCurrent ==
  enabled /\ reliable /\ ~scanning /\ ~busy /\ ~steamPending /\ ~failed
    => shortcuts = Titles(installs, skip)

\* library.h: a scan that is not authoritative "must never drive removal of
\* Steam shortcuts".
RemovalsAreSure ==
  [][\A g \in shortcuts \ shortcuts' : g \in leftOut \/ (sure /\ g \notin installs)]_shortcuts
=============================================================================
