--------------------------- MODULE DownloadQueue ---------------------------
(***************************************************************************)
(* download::Manager: the list of download jobs, the pool of worker        *)
(* threads that takes jobs from it, and the copy of the list it keeps in   *)
(* downloads.json.  Every public method of Manager is an action of the     *)
(* user-interface thread; a worker thread is a program counter that walks  *)
(* through Manager::run.  What a worker does to the games folder and to    *)
(* the segment cache is left to module GameInstall, which refines this     *)
(* one: here an installation is the states it passes through and its       *)
(* outcome.                                                                *)
(*                                                                         *)
(* An entry is an object behind a shared_ptr.  It outlives its place in    *)
(* the list while a worker or the user-interface thread still holds it,    *)
(* so entries have an identity of their own, distinct from the job.        *)
(***************************************************************************)
EXTENDS Naturals, Sequences, FiniteSets

CONSTANTS
  Apps,         (* application ids                                         *)
  Accounts,     (* account keys                                            *)
  NoAccount,    (* the empty key: nobody active, or a job of an old file   *)
  Versions,     (* binary ids a user may pin                               *)
  Newest,       (* "the newest build", the version of a job not pinned     *)
  Requests,     (* the jobs the user may ask for                           *)
  Restored,     (* downloads.json as the first start finds it              *)
  MaxEntries,   (* bound: entry objects alive at one time                  *)
  Workers,      (* worker threads                                          *)
  MaxOps,       (* bound: calls of Manager's methods, crashes and restarts *)
  SavesMayFail, (* whether writing downloads.json can fail                 *)
  ReadsMayFail, (* whether reading it, or the accounts, can fail           *)
  None          (* no entry                                                *)

Entries == 1..MaxEntries

\* "named" is whether the package, the name of the game's folder, is known.
Job == [app: Apps, account: Accounts \union {NoAccount},
        version: Versions \union {Newest}, named: BOOLEAN]

ASSUME QueueAssumption ==
  /\ NoAccount \notin Accounts
  /\ Newest \notin Versions
  /\ MaxEntries \in Nat /\ MaxOps \in Nat
  /\ None \notin Entries
  /\ IsFiniteSet(Workers)
  /\ Requests \subseteq {r \in Job : r.account \in Accounts}
  /\ Restored \in Seq(Job) /\ Len(Restored) <= MaxEntries
  /\ SavesMayFail \in BOOLEAN /\ ReadsMayFail \in BOOLEAN

VARIABLES
  jobs,      (* jobs_: entries in queue order                              *)
  job,       (* what each entry downloads                                  *)
  state,     (* Job::state                                                 *)
  token,     (* whether the entry holds an access token                    *)
  stop,      (* whether the entry's stop_source was asked to stop          *)
  removed,   (* Entry::removed                                             *)
  discard,   (* Entry::discard                                             *)
  active,    (* active_account_                                            *)
  parallel,  (* parallel_                                                  *)
  pc,        (* where each worker is in Manager::run                       *)
  mine,      (* the entry each worker holds                                *)
  ui,        (* the entry whose files remove() is about to discard         *)
  saved,     (* downloads.json                                             *)
  stale,     (* whether the last write of downloads.json failed            *)
  process,   (* "up", "closing" (the destructor runs) or "down"            *)
  signedOut, (* accounts signed out since their last request (history)     *)
  ops        (* calls made so far (bound)                                  *)

listVars   == <<jobs, job, state, token, stop, removed, discard>>
workerVars == <<pc, mine>>
fileVars   == <<saved, stale>>
vars == <<listVars, active, parallel, workerVars, ui, fileVars, process,
          signedOut, ops>>

States      == {"queued", "checking", "downloading", "paused", "failed", "complete"}
InProgress  == {"checking", "downloading"}

-----------------------------------------------------------------------------
(* The list.                                                               *)

\* One job per account and app, and one per account and pinned version.
Same(a, b) == /\ a.app = b.app
              /\ a.account = b.account
              /\ a.version = b.version

Listed     == {jobs[i] : i \in DOMAIN jobs}
Visible(e) == job[e].account = active
Running    == {e \in Listed : state[e] \in InProgress}
Held       == {mine[w] : w \in Workers} \union {ui}

\* Takes an entry, which is there at most once, out of the list.
Without(e) ==
  IF e \in Listed
  THEN LET at == CHOOSE i \in DOMAIN jobs : jobs[i] = e
       IN  [i \in 1..(Len(jobs) - 1) |-> IF i < at THEN jobs[i] ELSE jobs[i + 1]]
  ELSE jobs

\* The i-th smallest of a set of numbers.
Nth(K, i) == CHOOSE k \in K : Cardinality({m \in K : m <= k}) = i

\* Mutant: a removed job stays in the file until its worker lets it go.
Kept_Removed == {i \in DOMAIN jobs : state[jobs[i]] # "complete"}

\* The places in the list of the jobs still to finish.
Kept == {i \in DOMAIN jobs : state[jobs[i]] # "complete" /\ ~removed[jobs[i]]}

\* What save_locked writes: those jobs, in order.
Unfinished == [i \in 1..Cardinality(Kept) |-> job[jobs[Nth(Kept, i)]]]

\* Stated last in an action, when the list's next value is known.
Save == \/ /\ saved' = Unfinished'
           /\ stale' = FALSE
        \/ /\ SavesMayFail
           /\ saved' = saved
           /\ stale' = TRUE

\* Mutant: nobody is notified.
Woken_Lost == pc

\* cv_.notify_all(): workers blocked in the wait test its predicate again.
Woken == [w \in Workers |-> IF pc[w] = "wait" THEN "check" ELSE pc[w]]

-----------------------------------------------------------------------------
(* Start, as Manager's constructor does it: the jobs it can read, all      *)
(* paused, and the list written again.  Core::start sets the account and   *)
(* the parallel jobs before anything else is asked of it.                  *)

\* What a sequence is when any of its elements are left out.
Excerpts(s) ==
  {[i \in DOMAIN at |-> s[at[i]]] :
     at \in {f \in UNION {[1..n -> DOMAIN s] : n \in 0..Len(s)} :
              \A i, k \in DOMAIN f : i < k => f[i] < f[k]}}

\* The jobs read from a file.  An account index or a file that cannot be read
\* costs all of them, an unsound row itself or, when it throws, the rest too.
Read(file) == IF ReadsMayFail THEN Excerpts(file) ELSE {file}

StartJobs(file) == [i \in DOMAIN file |-> i]
StartJob(file)  == [e \in Entries |-> IF e \in DOMAIN file THEN file[e] ELSE None]

Init ==
  /\ \E file \in Read(Restored) :
       /\ jobs = StartJobs(file)
       /\ job = StartJob(file)
       /\ \/ saved = file /\ stale = FALSE
          \/ SavesMayFail /\ saved = Restored /\ stale = TRUE
  /\ state = [e \in Entries |-> "paused"]
  /\ token = [e \in Entries |-> FALSE]
  /\ stop = [e \in Entries |-> FALSE]
  /\ removed = [e \in Entries |-> FALSE]
  /\ discard = [e \in Entries |-> FALSE]
  /\ active \in Accounts
  /\ parallel \in 1..Cardinality(Workers)
  /\ pc = [w \in Workers |-> "check"]
  /\ mine = [w \in Workers |-> None]
  /\ ui = None
  /\ process = "up"
  /\ signedOut = {}
  /\ ops = 0

-----------------------------------------------------------------------------
(* The user-interface thread.  It makes one call at a time, and is busy    *)
(* while remove() deletes files.                                           *)

Call == /\ process = "up"
        /\ ui = None
        /\ ops < MaxOps
        /\ ops' = ops + 1

\* The first entry of the list the request matches, if there is one.
Matches(r, e) ==
  \E i \in DOMAIN jobs : /\ jobs[i] = e
                         /\ Same(job[e], r)
                         /\ \A k \in 1..(i - 1) : ~Same(job[jobs[k]], r)

\* Mutant: only a queued job counts as already on its way.
Refuses_Queued(e) == removed[e] \/ state[e] = "queued"

\* enqueue_job returns or throws without a change for these.
Refuses(e) == removed[e] \/ state[e] \in InProgress \union {"queued"}

\* enqueue_job finds the job in the list and queues it again.
EnqueueAgain(r) ==
  /\ Call
  /\ r.account = active
  /\ \E e \in Entries :
       /\ Matches(r, e)
       /\ ~Refuses(e)
       /\ state' = [state EXCEPT ![e] = "queued"]
       /\ token' = [token EXCEPT ![e] = TRUE]
       /\ stop' = [stop EXCEPT ![e] = FALSE]
  /\ signedOut' = signedOut \ {r.account}
  /\ pc' = Woken
  /\ UNCHANGED <<jobs, job, removed, discard, active, parallel, mine, ui, process>>
  /\ Save

\* enqueue_job appends a new entry, an object nothing else refers to.
EnqueueNew(r) ==
  /\ Call
  /\ r.account = active
  /\ \A i \in DOMAIN jobs : ~Same(job[jobs[i]], r)
  /\ \E e \in Entries \ (Listed \union Held) :
       /\ \A f \in Entries \ (Listed \union Held) : e <= f
       /\ jobs' = Append(jobs, e)
       /\ job' = [job EXCEPT ![e] = r]
       /\ state' = [state EXCEPT ![e] = "queued"]
       /\ token' = [token EXCEPT ![e] = TRUE]
       /\ stop' = [stop EXCEPT ![e] = FALSE]
       /\ removed' = [removed EXCEPT ![e] = FALSE]
       /\ discard' = [discard EXCEPT ![e] = FALSE]
  /\ signedOut' = signedOut \ {r.account}
  /\ pc' = Woken
  /\ UNCHANGED <<active, parallel, mine, ui, process>>
  /\ Save

\* Mutant: the token of a job that no longer waits is kept.
Halt_KeepsToken(asked, cleared) ==
  /\ stop' = [e \in Entries |-> stop[e] \/ e \in asked]
  /\ state' = [e \in Entries |-> IF e \in asked /\ state[e] = "queued" THEN "paused" ELSE state[e]]
  /\ UNCHANGED <<jobs, job, token, removed, discard, active, parallel, workerVars, ui>>
  /\ Save

\* Mutant: only the jobs being installed are stopped.
Halt_LeavesQueued(asked, cleared) ==
  /\ stop' = [e \in Entries |-> stop[e] \/ e \in asked]
  /\ UNCHANGED <<jobs, job, state, token, removed, discard, active, parallel, workerVars, ui>>
  /\ Save

\* Asks every entry of a set to stop.  A queued one is paused on the spot, and
\* those of a second set lose their token.
Halt(asked, cleared) ==
  /\ stop' = [e \in Entries |-> stop[e] \/ e \in asked]
  /\ state' = [e \in Entries |-> IF e \in asked /\ state[e] = "queued" THEN "paused" ELSE state[e]]
  /\ token' = [e \in Entries |-> token[e] /\ e \notin cleared]
  /\ UNCHANGED <<jobs, job, removed, discard, active, parallel, workerVars, ui>>
  /\ Save

\* cancel(): the visible job of an app, not its pinned versions.
Cancel(app) ==
  /\ Call
  /\ LET asked == {e \in Listed : job[e].app = app /\ job[e].version = Newest /\ Visible(e)}
     IN  Halt(asked, {e \in asked : state[e] = "queued"})
  /\ UNCHANGED <<process, signedOut>>

\* cancel_account(), when an account signs out or is removed.
CancelAccount(a) ==
  /\ Call
  /\ LET asked == {e \in Listed : job[e].account = a} IN Halt(asked, asked)
  /\ signedOut' = signedOut \union {a}
  /\ UNCHANGED process

\* cancel_all(), when the only session there is signs out.
CancelAll ==
  /\ Call
  /\ Halt(Listed, Listed)
  /\ signedOut' = Accounts
  /\ UNCHANGED process

\* remove(): the entry leaves at once unless a worker is installing it.  The
\* files go after the lock is released.
Remove(e, withFiles) ==
  /\ Call
  /\ \E i \in DOMAIN jobs :
       /\ jobs[i] = e
       /\ Visible(e)
       /\ ~removed[e]
       /\ \A k \in 1..(i - 1) : removed[jobs[k]] \/ ~Same(job[jobs[k]], job[e])
  /\ stop' = [stop EXCEPT ![e] = TRUE]
  /\ token' = [token EXCEPT ![e] = FALSE]
  /\ removed' = [removed EXCEPT ![e] = TRUE]
  /\ discard' = [discard EXCEPT ![e] = withFiles]
  /\ IF state[e] \in InProgress
     THEN UNCHANGED <<jobs, ui>>
     ELSE /\ jobs' = Without(e)
          /\ ui' = IF withFiles THEN e ELSE None
  /\ UNCHANGED <<job, state, active, parallel, workerVars, process, signedOut>>
  /\ Save

\* remove() calls discard_files and returns.
RemoveDiscards ==
  /\ process = "up"
  /\ ui # None
  /\ ui' = None
  /\ UNCHANGED <<listVars, active, parallel, workerVars, fileVars, process, signedOut, ops>>

\* move(): two neighbours among the rows the user sees change places.
Shown(i) == Visible(jobs[i]) /\ ~removed[jobs[i]]

\* Mutant: the new order is not saved.
Move_Unsaved(i, k) ==
  /\ Call
  /\ i < k /\ Shown(i) /\ Shown(k)
  /\ \A m \in (i + 1)..(k - 1) : ~Shown(m)
  /\ jobs' = [jobs EXCEPT ![i] = jobs[k], ![k] = jobs[i]]
  /\ UNCHANGED <<job, state, token, stop, removed, discard, active, parallel,
                 workerVars, ui, fileVars, process, signedOut>>

Move(i, k) ==
  /\ Call
  /\ i < k /\ Shown(i) /\ Shown(k)
  /\ \A m \in (i + 1)..(k - 1) : ~Shown(m)
  /\ jobs' = [jobs EXCEPT ![i] = jobs[k], ![k] = jobs[i]]
  /\ UNCHANGED <<job, state, token, stop, removed, discard, active, parallel,
                 workerVars, ui, process, signedOut>>
  /\ Save

SetAccount(a) ==
  /\ Call
  /\ active' = a
  /\ UNCHANGED <<listVars, parallel, workerVars, ui, fileVars, process, signedOut>>

SetParallel(n) ==
  /\ Call
  /\ parallel' = n
  /\ pc' = Woken
  /\ UNCHANGED <<listVars, active, mine, ui, fileVars, process, signedOut>>

\* adopt_legacy(): the jobs of a file written before accounts were kept apart.
AdoptLegacy(primary) ==
  /\ Call
  /\ job' = [e \in Entries |-> IF e \in Listed /\ job[e].account = NoAccount
                               THEN [job[e] EXCEPT !.account = primary]
                               ELSE job[e]]
  /\ UNCHANGED <<jobs, state, token, stop, removed, discard, active, parallel,
                 workerVars, ui, process, signedOut>>
  /\ Save

-----------------------------------------------------------------------------
(* A worker thread.                                                        *)

\* It is inside install().
Installing(w) == pc[w] \in {"install", "folder"}

\* Mutant: the jobs of one game may run side by side.
Startable_AnyGame(e) == state[e] = "queued"

\* The job's game has no other job running.
Startable(e) == /\ state[e] = "queued"
                /\ \A f \in Running : job[f].app # job[e].app

\* The predicate of the wait: which entry the worker may take.
NextJob(e) ==
  /\ Cardinality(Running) < parallel
  /\ \E i \in DOMAIN jobs : /\ jobs[i] = e
                            /\ Startable(e)
                            /\ \A k \in 1..(i - 1) : ~Startable(jobs[k])

Take(w) ==
  /\ process = "up"
  /\ pc[w] = "check"
  /\ \E e \in Entries :
       /\ NextJob(e)
       /\ state' = [state EXCEPT ![e] = "checking"]
       /\ token' = [token EXCEPT ![e] = FALSE]
       /\ mine' = [mine EXCEPT ![w] = e]
  /\ pc' = [pc EXCEPT ![w] = "install"]
  /\ UNCHANGED <<jobs, job, stop, removed, discard, active, parallel, ui, fileVars,
                 process, signedOut, ops>>

Wait(w) ==
  /\ process = "up"
  /\ pc[w] = "check"
  /\ \A e \in Entries : ~NextJob(e)
  /\ pc' = [pc EXCEPT ![w] = "wait"]
  /\ UNCHANGED <<listVars, active, parallel, mine, ui, fileVars, process, signedOut, ops>>

\* install() has the build's plan, which names the folder of a new game.
Plan(w) ==
  LET e == mine[w] IN
  /\ pc[w] = "install"
  /\ job' = [job EXCEPT ![e].named = TRUE]
  /\ UNCHANGED <<jobs, state, token, stop, removed, discard, active, parallel,
                 workerVars, ui, process, signedOut, ops>>
  /\ Save

\* install() was not asked to stop so far, and prepares the game's folder.
OpenFolder(w) ==
  LET e == mine[w] IN
  /\ pc[w] = "install"
  /\ job[e].named
  /\ ~stop[e]
  /\ pc' = [pc EXCEPT ![w] = "folder"]
  /\ UNCHANGED <<listVars, active, parallel, mine, ui, fileVars, process, signedOut, ops>>

\* install() knows what is missing, and starts to fetch it.
Fetch(w) ==
  /\ pc[w] = "folder"
  /\ state[mine[w]] = "checking"
  /\ state' = [state EXCEPT ![mine[w]] = "downloading"]
  /\ UNCHANGED <<jobs, job, token, stop, removed, discard, active, parallel,
                 workerVars, ui, fileVars, process, signedOut, ops>>

\* install() returned, or threw: a job asked to stop is paused, except that
\* unexpected JSON from Meta always counts as a failure.
Outcome(e, s) ==
  \/ s = "complete" /\ state[e] = "downloading"
  \/ s = "paused" /\ stop[e]
  \/ s = "failed"

Finish(w, s) ==
  LET e == mine[w] IN
  /\ Installing(w)
  /\ Outcome(e, s)
  /\ state' = [state EXCEPT ![e] = s]
  /\ pc' = [pc EXCEPT ![w] = "notify"]
  /\ UNCHANGED <<jobs, job, token, stop, removed, discard, active, parallel, mine, ui,
                 process, signedOut, ops>>
  /\ Save

\* release() tells the other workers before it takes the lock.
Notify(w) ==
  /\ pc[w] = "notify"
  /\ pc' = [Woken EXCEPT ![w] = "release"]
  /\ UNCHANGED <<listVars, active, parallel, mine, ui, fileVars, process, signedOut, ops>>

\* Mutant: a removed entry stays in the list.
LeftBy_Nobody(e) == jobs

\* The list once a worker lets an entry go.
LeftBy(e) == IF removed[e] THEN Without(e) ELSE jobs

\* release() drops an entry removed while it was being installed.
Release(w) ==
  LET e == mine[w] IN
  /\ pc[w] = "release"
  /\ jobs' = LeftBy(e)
  /\ IF removed[e] /\ discard[e]
     THEN pc' = [pc EXCEPT ![w] = "discard"] /\ UNCHANGED mine
     ELSE pc' = [pc EXCEPT ![w] = "check"] /\ mine' = [mine EXCEPT ![w] = None]
  /\ UNCHANGED <<job, state, token, stop, removed, discard, active, parallel, ui,
                 process, signedOut, ops>>
  /\ IF removed[e] THEN Save ELSE UNCHANGED fileVars

\* Mutant: the worker keeps its reference to the entry.
Discard_Holds(w) ==
  /\ pc[w] = "discard"
  /\ pc' = [pc EXCEPT ![w] = "check"]
  /\ UNCHANGED <<listVars, active, parallel, mine, ui, fileVars, process, signedOut, ops>>

\* release() calls discard_files, outside the lock.
Discard(w) ==
  /\ pc[w] = "discard"
  /\ pc' = [pc EXCEPT ![w] = "check"]
  /\ mine' = [mine EXCEPT ![w] = None]
  /\ UNCHANGED <<listVars, active, parallel, ui, fileVars, process, signedOut, ops>>

-----------------------------------------------------------------------------
(* The end of the process, and its next start.                             *)

\* ~Manager cancels every job and waits for the workers.
Close ==
  /\ Call
  /\ process' = "closing"
  /\ Halt(Listed, Listed)
  /\ UNCHANGED signedOut

\* Mutant: a worker blocked in the wait does not notice.
Exit_Asleep(w) ==
  /\ process = "closing"
  /\ pc[w] = "check"
  /\ pc' = [pc EXCEPT ![w] = "exit"]
  /\ UNCHANGED <<listVars, active, parallel, mine, ui, fileVars, process, signedOut, ops>>

\* A worker back at the head of its loop finds it was asked to stop.
Exit(w) ==
  /\ process = "closing"
  /\ pc[w] \in {"check", "wait"}
  /\ pc' = [pc EXCEPT ![w] = "exit"]
  /\ UNCHANGED <<listVars, active, parallel, mine, ui, fileVars, process, signedOut, ops>>

Forget ==
  /\ jobs' = <<>>
  /\ job' = StartJob(<<>>)
  /\ state' = [e \in Entries |-> "paused"]
  /\ token' = [e \in Entries |-> FALSE]
  /\ stop' = [e \in Entries |-> FALSE]
  /\ removed' = [e \in Entries |-> FALSE]
  /\ discard' = [e \in Entries |-> FALSE]
  /\ pc' = [w \in Workers |-> "exit"]
  /\ mine' = [w \in Workers |-> None]
  /\ ui' = None
  /\ process' = "down"

Closed ==
  /\ process = "closing"
  /\ \A w \in Workers : pc[w] = "exit"
  /\ Forget
  /\ UNCHANGED <<active, parallel, fileVars, signedOut, ops>>

\* The process dies between any two steps: only downloads.json is left.
Crash ==
  /\ process # "down"
  /\ ops < MaxOps
  /\ ops' = ops + 1
  /\ Forget
  /\ UNCHANGED <<active, parallel, fileVars, signedOut>>

Restart ==
  /\ process = "down"
  /\ process' = "up"
  /\ \E file \in Read(saved) : jobs' = StartJobs(file) /\ job' = StartJob(file)
  /\ pc' = [w \in Workers |-> "check"]
  /\ UNCHANGED <<state, token, stop, removed, discard, active, parallel, mine, ui,
                 signedOut, ops>>
  /\ Save

-----------------------------------------------------------------------------
WorkerStep(w) ==
  \/ Take(w)
  \/ Wait(w)
  \/ Plan(w)
  \/ OpenFolder(w)
  \/ Fetch(w)
  \/ \E s \in {"complete", "paused", "failed"} : Finish(w, s)
  \/ Notify(w)
  \/ Release(w)
  \/ Discard(w)
  \/ Exit(w)

UserStep ==
  \/ \E r \in Requests : EnqueueAgain(r) \/ EnqueueNew(r)
  \/ \E app \in Apps : Cancel(app)
  \/ \E a \in Accounts : CancelAccount(a) \/ AdoptLegacy(a)
  \/ \E a \in Accounts \union {NoAccount} : SetAccount(a)
  \/ CancelAll
  \/ \E e \in Entries, withFiles \in BOOLEAN : Remove(e, withFiles)
  \/ \E i, k \in DOMAIN jobs : Move(i, k)
  \/ \E n \in 1..Cardinality(Workers) : SetParallel(n)
  \/ Close

Next ==
  \/ UserStep
  \/ RemoveDiscards
  \/ \E w \in Workers : WorkerStep(w)
  \/ Closed
  \/ Crash
  \/ Restart

Spec == Init /\ [][Next]_vars

\* The threads are scheduled and a transfer ends: http/client.cpp bounds every
\* one in time.  Nothing obliges the user to make a call, or the process to die.
Fairness ==
  /\ \A w \in Workers : WF_vars(WorkerStep(w))
  /\ WF_vars(RemoveDiscards)
  /\ WF_vars(Closed)

FairSpec == Spec /\ Fairness

-----------------------------------------------------------------------------
(* Properties.                                                             *)

Types ==
  /\ jobs \in Seq(Entries)
  /\ job \in [Entries -> Job \union {None}]
  /\ state \in [Entries -> States]
  /\ token \in [Entries -> BOOLEAN]
  /\ stop \in [Entries -> BOOLEAN]
  /\ removed \in [Entries -> BOOLEAN]
  /\ discard \in [Entries -> BOOLEAN]
  /\ active \in Accounts \union {NoAccount}
  /\ parallel \in Nat
  /\ pc \in [Workers -> {"check", "wait", "install", "folder", "notify", "release", "discard", "exit"}]
  /\ mine \in [Workers -> Entries \union {None}]
  /\ ui \in Entries \union {None}
  /\ saved \in Seq(Job) /\ Len(saved) <= MaxEntries
  /\ stale \in BOOLEAN
  /\ process \in {"up", "closing", "down"}
  /\ signedOut \subseteq Accounts
  /\ ops \in Nat

\* No entry is in the list twice, and whatever is listed or held is a job.
ListSound ==
  /\ \A i, k \in DOMAIN jobs : jobs[i] = jobs[k] => i = k
  /\ \A i \in DOMAIN jobs : job[jobs[i]] \in Job
  /\ \A w \in Workers : mine[w] # None => job[mine[w]] \in Job
  /\ ui # None => job[ui] \in Job

WorkersHold ==
  \A w \in Workers : mine[w] = None <=> pc[w] \in {"check", "wait", "exit"}

\* Nothing of the list survives the process.
DownIsEmpty ==
  process = "down" =>
    /\ jobs = <<>> /\ ui = None
    /\ \A w \in Workers : pc[w] = "exit"
    /\ \A e \in Entries : state[e] = "paused" /\ ~token[e] /\ ~stop[e] /\ ~removed[e]

\* Every variable keeps to its type, the list names each entry once, and a worker
\* holds an entry from the moment it takes it from the list until it has let it
\* go (run's Release object).
TypeOK == Types /\ ListSound /\ WorkersHold /\ DownIsEmpty

\* An entry is being installed exactly while its state says so, by one worker
\* and no other: an entry whose worker has gone would block its game for good,
\* and two workers would write one job's files (Manager::run, enqueue_job).
OneWorkerPerEntry ==
  /\ \A e \in Entries : state[e] \in InProgress => \E w \in Workers : Installing(w) /\ mine[w] = e
  /\ \A w \in Workers : Installing(w) => state[mine[w]] \in InProgress
  /\ \A w, v \in Workers : Installing(w) /\ Installing(v) /\ mine[w] = mine[v] => w = v

\* Two workers install one game at the same time only after the user removed
\* the job one of them still works on (the wait's predicate in Manager::run).
GameExclusive ==
  \A w, v \in Workers :
    /\ Installing(w) /\ Installing(v) /\ w # v
    /\ job[mine[w]].app = job[mine[v]].app
    => removed[mine[w]] \/ removed[mine[v]]

\* What the header promises of two jobs of one game: "jobs of one game always
\* run one after another" (manager.h).
OneAfterAnother ==
  \A w, v \in Workers :
    Installing(w) /\ Installing(v) /\ w # v => job[mine[w]].app # job[mine[v]].app

\* A queued job holds the token it will start with, and no other job keeps
\* one: not one that was cancelled, removed, signed out or that ended.
TokenOnlyWhileQueued ==
  \A e \in Listed : token[e] <=> state[e] = "queued"

\* After an account signs out, none of its jobs waits to start, and the ones
\* being installed were told to stop, until the account asks for a job again
\* (cancel_account, and cancel_all for a session without a key).
SignedOutQuiet ==
  \A e \in Listed \union {mine[w] : w \in Workers} :
    (e # None /\ job[e].account \in signedOut)
      => /\ state[e] # "queued" \/ e \notin Listed
         /\ state[e] \in InProgress => stop[e]

\* An entry removed while it is installed is still in the list only as long as
\* a worker will take it out: until then a new request for the job is refused
\* ("The cancelled download is still stopping", enqueue_job and release).
RemovedIsLeaving ==
  \A e \in Listed :
    removed[e] => \E w \in Workers : mine[w] = e /\ (Installing(w) \/ pc[w] \in {"notify", "release"})

\* downloads.json holds the jobs that are neither complete nor removed, in queue
\* order, at every moment at which the process could die, unless the last
\* attempt to write it failed (save_locked and its callers).
SavedIsCurrent ==
  process # "down" /\ ~stale =>
    \E at \in [DOMAIN saved -> DOMAIN jobs] :
      /\ \A i \in DOMAIN saved : saved[i] = job[jobs[at[i]]]
      /\ \A i, k \in DOMAIN saved : i < k => at[i] < at[k]
      /\ {at[i] : i \in DOMAIN saved} =
           {i \in DOMAIN jobs : state[jobs[i]] # "complete" /\ ~removed[jobs[i]]}

\* A queued job does not stay queued: a worker takes it, or the user's next
\* call pauses or removes it.  No wake-up of the pool is lost.
QueuedLeaves ==
  \A e \in Entries : (e \in Listed /\ state[e] = "queued") ~> ~(e \in Listed /\ state[e] = "queued")

\* A job removed while it was installed leaves the list.
RemovedLeaves ==
  \A e \in Entries : (e \in Listed /\ removed[e]) ~> ~(e \in Listed /\ removed[e])

\* The destructor's wait for the workers ends.
CloseEnds == process = "closing" ~> process = "down"

-----------------------------------------------------------------------------
(* The list the user sees.                                                 *)

\* The places in the list of the jobs not removed.
Stays == {i \in DOMAIN jobs : ~removed[jobs[i]]}

Row(e) == [job |-> job[e], status |-> IF state[e] \in InProgress THEN "running" ELSE state[e]]

\* Those jobs, and those of downloads.json while nothing runs.
Rows ==
  IF process = "down"
  THEN [i \in DOMAIN saved |-> [job |-> saved[i], status |-> "paused"]]
  ELSE [i \in 1..Cardinality(Stays) |-> Row(jobs[Nth(Stays, i)])]

List == INSTANCE JobList
  WITH rows <- Rows, up <- process # "down", Keys <- Accounts, Nobody <- NoAccount,
       Slots <- Cardinality(Workers), MayForget <- ReadsMayFail

\* Threads, entries that outlive their place in the list, and a process that
\* dies at any point keep the promise of JobList, as long as downloads.json can
\* be written: no job runs twice, a removed one is gone, and only a start that
\* could not read its file loses any, without moving or reviving another.
ImplementsJobList == List!ListSpec

=============================================================================
