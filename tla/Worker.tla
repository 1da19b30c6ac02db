------------------------------- MODULE Worker -------------------------------
(***************************************************************************)
(* launcher/worker.h: one thread runs the launcher's tasks in the order    *)
(* they were submitted; what a task returns is applied by the owner's      *)
(* thread, which is the only one that touches the launcher's state.        *)
(*                                                                         *)
(* A task remembers the epoch (or the generation of the Steam sync) it was *)
(* made in and its completion compares it with the counter then.  Only     *)
(* that comparison is kept: current is TRUE until the counter moves.       *)
(***************************************************************************)
EXTENDS Naturals, Sequences

CONSTANTS
  Accounts,  (* Meta accounts, which also name their slots of the vault    *)
  Games,     (* packages                                                   *)
  None       (* no account, no holder                                      *)

\* The words that stand beside accounts, and beside None, below.
Words == {"out", "absent", "error", "closed", "window", "other"}

ASSUME WorkerAssumption ==
  ({None} \union Words) \intersect Accounts = {} /\ None \notin Words

VARIABLES
  tasks,    (* tasks_, in order                                            *)
  results   (* results_, in order                                          *)

worker == <<tasks, results>>

TaskKinds == {"scan", "steam", "begin", "complete", "refresh", "add", "account"}

\* by: the account whose token it uses; games: the titles of a Steam sync.
Task == [kind: TaskKinds, by: Accounts \union {None}, games: SUBSET Games,
         current: BOOLEAN]
\* full: the scan is authoritative, Steam lists the titles, the snapshot
\* names its account, or the library could be listed after the sign-in.
Result == [task: Task, ok: BOOLEAN, full: BOOLEAN, games: SUBSET Games]

Make(kind, by, games) ==
  [kind |-> kind, by |-> by, games |-> games, current |-> TRUE]

Answer(t, ok, full, games) ==
  [task |-> t, ok |-> ok, full |-> full, games |-> games]

\* The counter that tasks of these kinds compare with has moved.
Outdated(t, kinds) == [t EXCEPT !.current = @ /\ t.kind \notin kinds]

\* The owner's thread: it leaves these results, outdates tasks, submits more.
Queue(rest, kinds, more) ==
  /\ tasks' = [i \in 1..Len(tasks) |-> Outdated(tasks[i], kinds)] \o more
  /\ results' = [i \in 1..Len(rest) |->
                   [rest[i] EXCEPT !.task = Outdated(@, kinds)]]

\* The worker's thread finishes the first task.
Finished(r) ==
  /\ tasks' = Tail(tasks)
  /\ results' = Append(results, r)

\* What was submitted and has not been applied, in order.
Submitted == [i \in 1..Len(results) |-> results[i].task] \o tasks

\* Those with a completion that will not be dropped.
Underway(kind) ==
  {i \in DOMAIN Submitted : Submitted[i].kind = kind /\ Submitted[i].current}

WorkerTypeOK == tasks \in Seq(Task) /\ results \in Seq(Result)
=============================================================================
