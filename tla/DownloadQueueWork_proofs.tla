--------------------- MODULE DownloadQueueWork_proofs ---------------------
(***************************************************************************)
(* Who works on what, and for whom.                                        *)
(*                                                                         *)
(* An entry being installed has one worker, two workers install one game   *)
(* only after a removal, and a removed entry that is still listed has a    *)
(* worker that will take it out.  None of the three is inductive alone.    *)
(* That no other job of the game runs is read off the list, so an entry a  *)
(* worker still installs must be in the list or have been removed by the   *)
(* user; and a removed entry must have been told to stop, or it could be   *)
(* asked for again.  Tokens and signed out accounts follow.                *)
(***************************************************************************)
EXTENDS DownloadQueue_proofs

\* The user told a removed entry to stop.
RemovedStops == \A e \in Entries : removed[e] => stop[e]

\* Only the user takes an entry from under its worker.
StillThere == \A w \in Workers : Installing(w) => mine[w] \in Listed \/ removed[mine[w]]

Work == OneWorkerPerEntry /\ GameExclusive /\ RemovedIsLeaving /\ RemovedStops /\ StillThere

-----------------------------------------------------------------------------
(* What an action does to the set of entries in the list.                  *)

LEMMA ListedAppend ==
  ASSUME TypeOK, NEW e, jobs' = Append(jobs, e)
  PROVE  Listed' = Listed \union {e}
<1>1. DOMAIN jobs = 1..Len(jobs) /\ Len(jobs) \in Nat /\ DOMAIN jobs' = 1..(Len(jobs) + 1)
      /\ \A i \in DOMAIN jobs' : jobs'[i] = IF i = Len(jobs) + 1 THEN e ELSE jobs[i]
  BY DEF TypeOK, Types
<1>2. DOMAIN jobs' = DOMAIN jobs \union {Len(jobs) + 1} /\ jobs'[Len(jobs) + 1] = e
  BY <1>1
<1>3. \A i \in DOMAIN jobs : jobs'[i] = jobs[i]
  BY <1>1
<1>4. Listed \union {e} \subseteq Listed'
  BY <1>2, <1>3 DEF Listed
<1>5. Listed' \subseteq Listed \union {e}
  BY <1>2, <1>3 DEF Listed
<1> QED
  BY <1>4, <1>5

LEMMA ListedWithout ==
  ASSUME TypeOK, NEW e, jobs' = Without(e)
  PROVE  Listed' = Listed \ {e}
<1>1. {Without(e)[i] : i \in DOMAIN Without(e)} = Listed \ {e}
  BY WithoutList DEF TypeOK
<1>2. Listed' = {jobs'[i] : i \in DOMAIN jobs'}
  BY DEF Listed
<1>3. {jobs'[i] : i \in DOMAIN jobs'} = {Without(e)[i] : i \in DOMAIN Without(e)}
  OBVIOUS
<1> QED BY <1>1, <1>2, <1>3

LEMMA ListedMove ==
  ASSUME TypeOK, NEW i \in DOMAIN jobs, NEW k \in DOMAIN jobs, Move(i, k)
  PROVE  Listed' = Listed
<1>1. jobs' = [jobs EXCEPT ![i] = jobs[k], ![k] = jobs[i]]
  BY DEF Move
<1> QED
  BY <1>1 DEF Listed

LEMMA ListedSame == jobs' = jobs => Listed' = Listed
BY DEF Listed

LEMMA ListedTyped == TypeOK => Listed \subseteq Entries
BY DEF TypeOK, Types, Listed
-----------------------------------------------------------------------------
\* In a worker's hands, from the moment it takes the entry to its release.
Leaving(w) == Installing(w) \/ pc[w] \in {"notify", "release"}

LEMMA WorkInit == Init => Work
BY TypeInit DEF Init, Work, OneWorkerPerEntry, GameExclusive, RemovedIsLeaving,
   RemovedStops, StillThere, Installing, InProgress, Listed, TypeOK, Types

\* The actions that change nothing of who works on what.
LEMMA WorkFrame ==
  ASSUME TypeOK, Work, Listed' = Listed,
         \A e \in Entries : state'[e] \in InProgress <=> state[e] \in InProgress,
         \A e \in Entries : removed'[e] = removed[e] /\ (removed[e] => stop'[e]),
         \A w \in Workers : Installing(w)' <=> Installing(w),
         \A w \in Workers : Leaving(w) => Leaving(w)' /\ mine'[w] = mine[w],
         \A w \in Workers : Installing(w) => job'[mine[w]].app = job[mine[w]].app
  PROVE  Work'
<1>1. \A w \in Workers : Installing(w) => mine[w] \in Entries /\ mine'[w] = mine[w]
  BY DEF TypeOK, Types, WorkersHold, Installing, Leaving
<1>2. Listed \subseteq Entries
  BY ListedTyped
<1>3. OneWorkerPerEntry'
  BY <1>1 DEF Work, OneWorkerPerEntry
<1>4. GameExclusive'
  BY <1>1 DEF Work, GameExclusive
<1>5. RemovedIsLeaving'
  BY <1>2 DEF Work, RemovedIsLeaving, Leaving
<1>6. RemovedStops' /\ StillThere'
  BY <1>1 DEF Work, RemovedStops, StillThere
<1> QED
  BY <1>3, <1>4, <1>5, <1>6 DEF Work

\* Halt, with whatever set of entries.
LEMMA WorkHalt ==
  ASSUME TypeOK, Work, NEW asked, NEW cleared, Halt(asked, cleared)
  PROVE  Work'
<1>1. Listed' = Listed
  BY ListedSame DEF Halt
<1>2. \A e \in Entries : state'[e] \in InProgress <=> state[e] \in InProgress
  BY DEF Halt, InProgress
<1>3. \A e \in Entries : removed'[e] = removed[e] /\ (removed[e] => stop'[e])
  BY DEF Halt, Work, RemovedStops
<1> QED
  BY <1>1, <1>2, <1>3, WorkFrame DEF Halt, Installing, Leaving, workerVars

LEMMA WorkUserStep ==
  ASSUME TypeOK, Work, UserStep
  PROVE  Work'
<1>1. ASSUME NEW r \in Requests, EnqueueAgain(r) PROVE Work'
  <2>1. PICK e \in Entries : /\ ~removed[e] /\ state[e] \notin InProgress
                             /\ state' = [state EXCEPT ![e] = "queued"]
                             /\ stop' = [stop EXCEPT ![e] = FALSE]
    BY <1>1 DEF EnqueueAgain, Refuses
  <2>2. Listed' = Listed
    BY <1>1, ListedSame DEF EnqueueAgain
  <2>3. \A x \in Entries : state'[x] \in InProgress <=> state[x] \in InProgress
    BY <2>1 DEF InProgress, TypeOK, Types
  <2>4. \A x \in Entries : removed'[x] = removed[x] /\ (removed[x] => stop'[x])
    BY <1>1, <2>1 DEF EnqueueAgain, Work, RemovedStops, TypeOK, Types
  <2>5. \A w \in Workers : Installing(w)' <=> Installing(w)
    BY <1>1 DEF EnqueueAgain, Woken, Installing
  <2>6. \A w \in Workers : Leaving(w) => Leaving(w)' /\ mine'[w] = mine[w]
    BY <1>1 DEF EnqueueAgain, Woken, Installing, Leaving
  <2> QED
    BY <1>1, <2>2, <2>3, <2>4, <2>5, <2>6, WorkFrame DEF EnqueueAgain
<1>2. ASSUME NEW r \in Requests, EnqueueNew(r) PROVE Work'
  <2>1. PICK e \in Entries \ (Listed \union Held) :
          /\ jobs' = Append(jobs, e)
          /\ job' = [job EXCEPT ![e] = r]
          /\ state' = [state EXCEPT ![e] = "queued"]
          /\ stop' = [stop EXCEPT ![e] = FALSE]
          /\ removed' = [removed EXCEPT ![e] = FALSE]
    BY <1>2 DEF EnqueueNew
  <2>2. Listed' = Listed \union {e}
    BY <2>1, ListedAppend
  <2>3. mine' = mine /\ \A w \in Workers : mine[w] # e /\ (Installing(w)' <=> Installing(w)) /\ (Leaving(w) => Leaving(w)')
    BY <1>2 DEF EnqueueNew, Held, Woken, Installing, Leaving
  <2>4. \A w \in Workers : Installing(w) => mine[w] \in Entries
    BY DEF TypeOK, Types, WorkersHold, Installing
  <2>5. Listed \subseteq Entries /\ e \notin Listed
    BY ListedTyped
  <2>6. OneWorkerPerEntry'
    BY <2>1, <2>2, <2>3, <2>4 DEF Work, OneWorkerPerEntry, InProgress, TypeOK, Types
  <2>7. GameExclusive'
    BY <2>1, <2>3, <2>4 DEF Work, GameExclusive, TypeOK, Types
  <2>8. RemovedIsLeaving'
    BY <2>1, <2>2, <2>3, <2>5 DEF Work, RemovedIsLeaving, Leaving, TypeOK, Types
  <2>9. RemovedStops' /\ StillThere'
    BY <2>1, <2>2, <2>3, <2>4 DEF Work, RemovedStops, StillThere, TypeOK, Types
  <2> QED
    BY <2>6, <2>7, <2>8, <2>9 DEF Work
<1>3. ASSUME NEW e \in Entries, NEW withFiles \in BOOLEAN, Remove(e, withFiles) PROVE Work'
  <2>1. /\ stop' = [stop EXCEPT ![e] = TRUE] /\ removed' = [removed EXCEPT ![e] = TRUE]
        /\ state' = state /\ job' = job /\ pc' = pc /\ mine' = mine
    BY <1>3 DEF Remove, workerVars
  <2>2. Listed' = IF state[e] \in InProgress THEN Listed ELSE Listed \ {e}
    BY <1>3, ListedSame, ListedWithout DEF Remove
  <2>3. \A w \in Workers : (Installing(w)' <=> Installing(w)) /\ (Leaving(w)' <=> Leaving(w))
    BY <2>1 DEF Installing, Leaving
  <2>4. \A w \in Workers : Installing(w) => mine[w] \in Entries
    BY DEF TypeOK, Types, WorkersHold, Installing
  <2>5. Listed \subseteq Entries
    BY ListedTyped
  <2>6. OneWorkerPerEntry' /\ GameExclusive'
    BY <2>1, <2>3, <2>4 DEF Work, OneWorkerPerEntry, GameExclusive, TypeOK, Types
  <2>7. RemovedIsLeaving'
    BY <2>1, <2>2, <2>3, <2>5 DEF Work, RemovedIsLeaving, OneWorkerPerEntry, Leaving, TypeOK, Types
  <2>8. RemovedStops'
    BY <2>1 DEF Work, RemovedStops, TypeOK, Types
  <2>9. StillThere'
    BY <2>1, <2>2, <2>3, <2>4 DEF Work, StillThere, OneWorkerPerEntry, TypeOK, Types
  <2> QED
    BY <2>6, <2>7, <2>8, <2>9 DEF Work
<1>4. ASSUME NEW a \in Accounts, AdoptLegacy(a) PROVE Work'
  <2>1. Listed' = Listed
    BY <1>4, ListedSame DEF AdoptLegacy
  <2>2. \A e \in Entries : job[e] \in Job => job'[e].app = job[e].app
    BY <1>4 DEF AdoptLegacy, Job
  <2>3. \A w \in Workers : Installing(w) => job'[mine[w]].app = job[mine[w]].app
    BY <2>2 DEF TypeOK, Types, ListSound, WorkersHold, Installing
  <2> QED
    BY <1>4, <2>1, <2>3, WorkFrame DEF AdoptLegacy, Installing, Leaving, workerVars, Work, RemovedStops
<1>5. ASSUME NEW i \in DOMAIN jobs, NEW k \in DOMAIN jobs, Move(i, k) PROVE Work'
  <2>1. Listed' = Listed
    BY <1>5, ListedMove
  <2> QED
    BY <1>5, <2>1, WorkFrame DEF Move, Installing, Leaving, workerVars, Work, RemovedStops
<1>6. ASSUME NEW a \in Accounts \union {NoAccount}, SetAccount(a) PROVE Work'
  BY <1>6, ListedSame, WorkFrame DEF SetAccount, Installing, Leaving, listVars, workerVars, Work, RemovedStops
<1>7. ASSUME NEW n \in 1..Cardinality(Workers), SetParallel(n) PROVE Work'
  BY <1>7, ListedSame, WorkFrame DEF SetParallel, Woken, Installing, Leaving, listVars, Work, RemovedStops
<1>8. ASSUME NEW app \in Apps, Cancel(app) PROVE Work'
  BY <1>8, WorkHalt DEF Cancel
<1>9. ASSUME NEW a \in Accounts, CancelAccount(a) PROVE Work'
  BY <1>9, WorkHalt DEF CancelAccount
<1>10. CASE CancelAll \/ Close
  BY <1>10, WorkHalt DEF CancelAll, Close
<1> QED
  BY <1>1, <1>2, <1>3, <1>4, <1>5, <1>6, <1>7, <1>8, <1>9, <1>10 DEF UserStep

LEMMA WorkWorkerStep ==
  ASSUME TypeOK, Work, NEW w \in Workers, WorkerStep(w)
  PROVE  Work'
<1>0. \A v \in Workers : Leaving(v) => mine[v] \in Entries
  BY DEF TypeOK, Types, WorkersHold, Installing, Leaving
<1>1. CASE Take(w)
  <2>1. PICK e \in Entries :
          /\ NextJob(e)
          /\ state' = [state EXCEPT ![e] = "checking"]
          /\ mine' = [mine EXCEPT ![w] = e]
    BY <1>1 DEF Take
  <2>2. /\ e \in Listed /\ state[e] = "queued"
        /\ \A f \in Running : job[f].app # job[e].app
    BY <2>1 DEF NextJob, Startable, Listed
  <2>3. Listed' = Listed /\ removed' = removed /\ stop' = stop /\ job' = job
    BY <1>1, ListedSame DEF Take
  <2>4. pc[w] = "check" /\ pc' = [pc EXCEPT ![w] = "install"]
    BY <1>1 DEF Take
  <2>5. /\ Installing(w)' /\ ~Leaving(w) /\ mine'[w] = e
        /\ \A v \in Workers \ {w} : /\ Installing(v)' <=> Installing(v)
                                    /\ Leaving(v)' <=> Leaving(v)
                                    /\ mine'[v] = mine[v]
    BY <2>1, <2>4 DEF Installing, Leaving, TypeOK, Types
  <2>6. \A x \in Entries : state'[x] \in InProgress <=> (x = e \/ state[x] \in InProgress)
    BY <2>1 DEF InProgress, TypeOK, Types
  <2>7. \A v \in Workers : Installing(v) => v # w /\ mine[v] # e /\ mine[v] \in Entries
    BY <1>0, <2>2, <2>5 DEF Work, OneWorkerPerEntry, InProgress, Leaving
  <2>8. OneWorkerPerEntry'
    BY <2>5, <2>6, <2>7 DEF Work, OneWorkerPerEntry
  <2>9. GameExclusive'
    <3>1. \A v \in Workers : Installing(v) /\ job[mine[v]].app = job[e].app => removed[mine[v]]
      BY <2>2, <2>7 DEF Work, OneWorkerPerEntry, StillThere, Running
    <3> QED
      BY <2>3, <2>5, <2>7, <3>1 DEF Work, GameExclusive
  <2>10. RemovedIsLeaving'
    BY <2>3, <2>5 DEF Work, RemovedIsLeaving, Leaving
  <2>11. RemovedStops' /\ StillThere'
    BY <2>2, <2>3, <2>5 DEF Work, RemovedStops, StillThere
  <2> QED
    BY <2>8, <2>9, <2>10, <2>11 DEF Work
<1>2. CASE Wait(w)
  BY <1>2, ListedSame, WorkFrame DEF Wait, Installing, Leaving, listVars, TypeOK, Types, Work, RemovedStops
<1>3. CASE Plan(w)
  <2>1. mine[w] \in Entries /\ job[mine[w]] \in Job /\ job' = [job EXCEPT ![mine[w]].named = TRUE]
    BY <1>0, <1>3 DEF Plan, Leaving, Installing, TypeOK, Types, ListSound, WorkersHold
  <2>2. \A e \in Entries : job[e] \in Job => job'[e].app = job[e].app
    BY <2>1 DEF Job, TypeOK, Types
  <2>3. \A v \in Workers : Installing(v) => job'[mine[v]].app = job[mine[v]].app
    BY <2>2 DEF TypeOK, Types, ListSound, WorkersHold, Installing
  <2> QED
    BY <1>3, <2>3, ListedSame, WorkFrame DEF Plan, Installing, Leaving, workerVars, Work, RemovedStops
<1>4. CASE OpenFolder(w)
  BY <1>4, ListedSame, WorkFrame DEF OpenFolder, Installing, Leaving, listVars, TypeOK, Types, Work, RemovedStops
<1>5. CASE Fetch(w)
  <2>1. \A e \in Entries : state'[e] \in InProgress <=> state[e] \in InProgress
    BY <1>5 DEF Fetch, InProgress, TypeOK, Types
  <2> QED
    BY <1>5, <2>1, ListedSame, WorkFrame DEF Fetch, Installing, Leaving, workerVars, Work, RemovedStops
<1>6. ASSUME NEW s \in {"complete", "paused", "failed"}, Finish(w, s) PROVE Work'
  <2>1. /\ Installing(w) /\ state' = [state EXCEPT ![mine[w]] = s] /\ pc' = [pc EXCEPT ![w] = "notify"]
        /\ mine' = mine /\ removed' = removed /\ stop' = stop /\ job' = job /\ Listed' = Listed
    BY <1>6, ListedSame DEF Finish
  <2>2. /\ ~Installing(w)'
        /\ \A v \in Workers \ {w} : Installing(v)' <=> Installing(v)
        /\ \A v \in Workers : Leaving(v)' <=> Leaving(v)
    BY <2>1 DEF Installing, Leaving, TypeOK, Types
  <2>3. \A x \in Entries : state'[x] \in InProgress <=> (x # mine[w] /\ state[x] \in InProgress)
    BY <1>0, <2>1 DEF InProgress, Leaving, TypeOK, Types
  <2>4. OneWorkerPerEntry'
    BY <1>0, <2>1, <2>2, <2>3 DEF Work, OneWorkerPerEntry, Leaving
  <2>5. GameExclusive' /\ RemovedStops' /\ StillThere'
    BY <2>1, <2>2 DEF Work, GameExclusive, RemovedStops, StillThere
  <2>6. RemovedIsLeaving'
    BY <2>1, <2>2 DEF Work, RemovedIsLeaving, Leaving
  <2> QED
    BY <2>4, <2>5, <2>6 DEF Work
<1>7. CASE Notify(w)
  BY <1>7, ListedSame, WorkFrame DEF Notify, Woken, Installing, Leaving, listVars, TypeOK, Types, Work, RemovedStops
<1>8. CASE Release(w)
  <2> DEFINE e == mine[w]
  <2>1. /\ pc[w] = "release" /\ e \in Entries
        /\ state' = state /\ removed' = removed /\ stop' = stop /\ job' = job
    BY <1>0, <1>8 DEF Release, Leaving
  <2>2. Listed' = IF removed[e] THEN Listed \ {e} ELSE Listed
    BY <1>8, ListedSame, ListedWithout DEF Release, LeftBy
  <2>3. /\ ~Installing(w) /\ ~Installing(w)'
        /\ \A v \in Workers \ {w} : /\ Installing(v)' <=> Installing(v)
                                    /\ Leaving(v)' <=> Leaving(v)
                                    /\ mine'[v] = mine[v]
    BY <1>8 DEF Release, Installing, Leaving, TypeOK, Types
  <2>4. OneWorkerPerEntry' /\ GameExclusive' /\ RemovedStops'
    BY <2>1, <2>3 DEF Work, OneWorkerPerEntry, GameExclusive, RemovedStops
  <2>5. RemovedIsLeaving'
    <3> SUFFICES ASSUME NEW x \in Listed', removed[x]
                 PROVE  \E v \in Workers : Leaving(v)' /\ mine'[v] = x
      BY <2>1 DEF RemovedIsLeaving, Leaving
    <3>1. PICK v \in Workers : mine[v] = x /\ Leaving(v)
      BY <2>2 DEF Work, RemovedIsLeaving, Leaving
    <3>2. v # w
      BY <2>2, <3>1
    <3> QED
      BY <2>3, <3>1, <3>2
  <2>6. StillThere'
    BY <2>1, <2>2, <2>3 DEF Work, StillThere
  <2> QED
    BY <2>4, <2>5, <2>6 DEF Work
<1>9. CASE Discard(w)
  BY <1>9, ListedSame, WorkFrame DEF Discard, Installing, Leaving, listVars, TypeOK, Types, Work, RemovedStops
<1>10. CASE Exit(w)
  BY <1>10, ListedSame, WorkFrame DEF Exit, Installing, Leaving, listVars, TypeOK, Types, Work, RemovedStops
<1> QED
  BY <1>1, <1>2, <1>3, <1>4, <1>5, <1>6, <1>7, <1>8, <1>9, <1>10 DEF WorkerStep

LEMMA WorkForget ==
  ASSUME Forget
  PROVE  Work'
<1>1. Listed' = {} /\ \A w \in Workers : ~Installing(w)'
  BY DEF Forget, Listed, Installing
<1>2. \A e \in Entries : state'[e] = "paused" /\ ~removed'[e]
  BY DEF Forget
<1> QED
  BY <1>1, <1>2 DEF Work, OneWorkerPerEntry, GameExclusive, RemovedIsLeaving, RemovedStops, StillThere, InProgress

LEMMA WorkRestart == TypeOK /\ Restart => Work'
<1> SUFFICES ASSUME TypeOK, Restart PROVE Work'
  OBVIOUS
<1>1. \A w \in Workers : ~Installing(w)'
  BY DEF Restart, Installing
<1>2. \A e \in Entries : state'[e] = "paused" /\ ~removed'[e]
  BY DEF Restart, TypeOK, DownIsEmpty
<1>3. Listed' \subseteq Entries
  <2>1. TypeOK'
    BY TypeRestart
  <2> QED
    BY <2>1 DEF TypeOK, Types, Listed
<1> QED
  BY <1>1, <1>2, <1>3 DEF Work, OneWorkerPerEntry, GameExclusive, RemovedIsLeaving, RemovedStops, StillThere, InProgress

LEMMA WorkStep == TypeOK /\ Work /\ [Next]_vars => Work'
<1> SUFFICES ASSUME TypeOK, Work, [Next]_vars PROVE Work'
  OBVIOUS
<1>1. CASE UserStep
  BY <1>1, WorkUserStep
<1>2. CASE RemoveDiscards
  BY <1>2, ListedSame, WorkFrame DEF RemoveDiscards, Installing, Leaving, listVars, workerVars, Work, RemovedStops
<1>3. CASE \E w \in Workers : WorkerStep(w)
  BY <1>3, WorkWorkerStep
<1>4. CASE Closed \/ Crash
  BY <1>4, WorkForget DEF Closed, Crash
<1>5. CASE Restart
  BY <1>5, WorkRestart
<1>6. CASE UNCHANGED vars
  BY <1>6, ListedSame, WorkFrame DEF vars, Installing, Leaving, listVars, workerVars, Work, RemovedStops
<1> QED
  BY <1>1, <1>2, <1>3, <1>4, <1>5, <1>6 DEF Next

-----------------------------------------------------------------------------
LEMMA WorkAlways == Spec => []Work
<1> QED
  BY Typed, WorkInit, WorkStep, PTL DEF Spec

\* An entry is being installed exactly while its state says so, by one worker.
THEOREM OneWorker == Spec => []OneWorkerPerEntry
<1>1. Work => OneWorkerPerEntry
  BY DEF Work
<1> QED
  BY <1>1, WorkAlways, PTL

\* Two workers install one game only after the user removed one of the jobs.
THEOREM Exclusive == Spec => []GameExclusive
<1>1. Work => GameExclusive
  BY DEF Work
<1> QED
  BY <1>1, WorkAlways, PTL

\* A removed entry that is still listed has a worker that will take it out.
THEOREM LeavesTheList == Spec => []RemovedIsLeaving
<1>1. Work => RemovedIsLeaving
  BY DEF Work
<1> QED
  BY <1>1, WorkAlways, PTL

-----------------------------------------------------------------------------
(* What becomes of an account's jobs and tokens: TokenOnlyWhileQueued and  *)
(* SignedOutQuiet.  The second needs Work (an entry that left the list was *)
(* removed, and a removed one was told to stop) and that a job of nobody,  *)
(* which adopt_legacy may give to an account that signed out, rests.       *)

\* A job of a file written before accounts were kept apart was never started.
LegacyRests ==
  \A e \in Listed : job[e].account = NoAccount => state[e] # "queued" /\ state[e] \notin InProgress

Owned == LegacyRests /\ SignedOutQuiet

-----------------------------------------------------------------------------
(* Tokens.                                                                 *)

LEMMA TokenInit == Init => TokenOnlyWhileQueued
BY TypeInit DEF Init, TokenOnlyWhileQueued, Listed, TypeOK, Types

LEMMA TokenFrame ==
  ASSUME TypeOK, TokenOnlyWhileQueued, Listed' \subseteq Listed,
         \A e \in Listed' : token'[e] = token[e] /\ (state'[e] = "queued" <=> state[e] = "queued")
  PROVE  TokenOnlyWhileQueued'
BY DEF TokenOnlyWhileQueued

LEMMA TokenUserStep ==
  ASSUME TypeOK, TokenOnlyWhileQueued, UserStep
  PROVE  TokenOnlyWhileQueued'
<1>0. Listed \subseteq Entries
  BY ListedTyped
<1>1. ASSUME NEW r \in Requests, EnqueueAgain(r) PROVE TokenOnlyWhileQueued'
  <2>1. Listed' = Listed
    BY <1>1, ListedSame DEF EnqueueAgain
  <2> QED
    BY <1>0, <1>1, <2>1 DEF EnqueueAgain, TokenOnlyWhileQueued, TypeOK, Types
<1>2. ASSUME NEW r \in Requests, EnqueueNew(r) PROVE TokenOnlyWhileQueued'
  <2>1. PICK e \in Entries : /\ jobs' = Append(jobs, e)
                             /\ state' = [state EXCEPT ![e] = "queued"]
                             /\ token' = [token EXCEPT ![e] = TRUE]
    BY <1>2 DEF EnqueueNew
  <2>2. Listed' = Listed \union {e}
    BY <2>1, ListedAppend
  <2> QED
    BY <1>0, <2>1, <2>2 DEF TokenOnlyWhileQueued, TypeOK, Types
<1>3. ASSUME NEW e \in Entries, NEW withFiles \in BOOLEAN, Remove(e, withFiles)
      PROVE  TokenOnlyWhileQueued'
  <2>1. Listed' = IF state[e] \in InProgress THEN Listed ELSE Listed \ {e}
    BY <1>3, ListedSame, ListedWithout DEF Remove
  <2>2. state' = state /\ token' = [token EXCEPT ![e] = FALSE]
    BY <1>3 DEF Remove
  <2> QED
    BY <1>0, <2>1, <2>2 DEF TokenOnlyWhileQueued, InProgress, TypeOK, Types
<1>4. ASSUME NEW i \in DOMAIN jobs, NEW k \in DOMAIN jobs, Move(i, k) PROVE TokenOnlyWhileQueued'
  <2>1. Listed' = Listed
    BY <1>4, ListedMove
  <2> QED
    BY <1>4, <2>1, TokenFrame DEF Move
<1>5. ASSUME NEW a \in Accounts, AdoptLegacy(a) PROVE TokenOnlyWhileQueued'
  BY <1>5, ListedSame, TokenFrame DEF AdoptLegacy
<1>6. ASSUME NEW a \in Accounts \union {NoAccount}, SetAccount(a) PROVE TokenOnlyWhileQueued'
  BY <1>6, ListedSame, TokenFrame DEF SetAccount, listVars
<1>7. ASSUME NEW n \in 1..Cardinality(Workers), SetParallel(n) PROVE TokenOnlyWhileQueued'
  BY <1>7, ListedSame, TokenFrame DEF SetParallel, listVars
<1>8. ASSUME NEW asked \in SUBSET Listed, NEW cleared \in SUBSET Listed, Halt(asked, cleared),
             cleared \subseteq asked,
             \A e \in asked : state[e] = "queued" => e \in cleared
      PROVE  TokenOnlyWhileQueued'
  <2>1. Listed' = Listed
    BY <1>8, ListedSame DEF Halt
  <2> SUFFICES ASSUME NEW e \in Listed PROVE token'[e] <=> state'[e] = "queued"
    BY <2>1 DEF TokenOnlyWhileQueued
  <2>2. /\ state'[e] = IF e \in asked /\ state[e] = "queued" THEN "paused" ELSE state[e]
        /\ token'[e] = (token[e] /\ e \notin cleared)
    BY <1>0, <1>8 DEF Halt
  <2>3. token[e] <=> state[e] = "queued"
    BY DEF TokenOnlyWhileQueued
  <2>4. CASE e \in asked /\ state[e] = "queued"
    BY <1>8, <2>2, <2>4
  <2>5. CASE e \notin asked
    BY <1>8, <2>2, <2>3, <2>5
  <2>6. CASE state[e] # "queued"
    BY <2>2, <2>3, <2>6
  <2> QED
    BY <2>4, <2>5, <2>6
<1>9. ASSUME NEW app \in Apps, Cancel(app) PROVE TokenOnlyWhileQueued'
  BY <1>8, <1>9 DEF Cancel
<1>10. ASSUME NEW a \in Accounts, CancelAccount(a) PROVE TokenOnlyWhileQueued'
  BY <1>8, <1>10 DEF CancelAccount
<1>11. CASE CancelAll \/ Close
  BY <1>8, <1>11 DEF CancelAll, Close
<1> QED
  BY <1>1, <1>2, <1>3, <1>4, <1>5, <1>6, <1>7, <1>9, <1>10, <1>11 DEF UserStep

LEMMA TokenWorkerStep ==
  ASSUME TypeOK, Work, TokenOnlyWhileQueued, NEW w \in Workers, WorkerStep(w)
  PROVE  TokenOnlyWhileQueued'
<1>0. Listed \subseteq Entries
  BY ListedTyped
<1>1. CASE Take(w)
  <2>1. Listed' = Listed
    BY <1>1, ListedSame DEF Take
  <2> QED
    BY <1>0, <1>1, <2>1 DEF Take, TokenOnlyWhileQueued, TypeOK, Types
<1>2. CASE Wait(w) \/ OpenFolder(w) \/ Notify(w) \/ Discard(w) \/ Exit(w)
  BY <1>2, ListedSame, TokenFrame DEF Wait, OpenFolder, Notify, Discard, Exit, listVars
<1>3. CASE Plan(w)
  BY <1>3, ListedSame, TokenFrame DEF Plan
<1>4. CASE Fetch(w)
  <2>1. \A e \in Entries : state'[e] = "queued" <=> state[e] = "queued"
    BY <1>4 DEF Fetch, TypeOK, Types
  <2> QED
    BY <1>0, <1>4, <2>1, ListedSame, TokenFrame DEF Fetch
<1>5. ASSUME NEW s \in {"complete", "paused", "failed"}, Finish(w, s) PROVE TokenOnlyWhileQueued'
  <2>1. state[mine[w]] # "queued" /\ state' = [state EXCEPT ![mine[w]] = s]
    BY <1>5 DEF Finish, Work, OneWorkerPerEntry, InProgress
  <2>2. \A e \in Entries : state'[e] = "queued" <=> state[e] = "queued"
    BY <2>1 DEF TypeOK, Types
  <2> QED
    BY <1>0, <1>5, <2>2, ListedSame, TokenFrame DEF Finish
<1>6. CASE Release(w)
  <2>1. Listed' \subseteq Listed
    BY <1>6, ListedSame, ListedWithout DEF Release, LeftBy
  <2> QED
    BY <1>6, <2>1, TokenFrame DEF Release
<1> QED
  BY <1>1, <1>2, <1>3, <1>4, <1>5, <1>6 DEF WorkerStep

LEMMA TokenStep == TypeOK /\ Work /\ TokenOnlyWhileQueued /\ [Next]_vars => TokenOnlyWhileQueued'
<1> SUFFICES ASSUME TypeOK, Work, TokenOnlyWhileQueued, [Next]_vars PROVE TokenOnlyWhileQueued'
  OBVIOUS
<1>1. CASE UserStep
  BY <1>1, TokenUserStep
<1>2. CASE \E w \in Workers : WorkerStep(w)
  BY <1>2, TokenWorkerStep
<1>3. CASE RemoveDiscards \/ UNCHANGED vars
  BY <1>3, ListedSame, TokenFrame DEF RemoveDiscards, vars, listVars
<1>4. CASE Closed \/ Crash
  <2>1. Listed' = {}
    BY <1>4 DEF Closed, Crash, Forget, Listed
  <2> QED
    BY <2>1 DEF TokenOnlyWhileQueued
<1>5. CASE Restart
  <2>1. Listed' \subseteq Entries
    BY <1>5, TypeRestart DEF TypeOK, Types, Listed
  <2> QED
    BY <1>5, <2>1 DEF Restart, TypeOK, DownIsEmpty, TokenOnlyWhileQueued
<1> QED
  BY <1>1, <1>2, <1>3, <1>4, <1>5 DEF Next

\* A queued job holds the token it will start with, and no other job has one.
THEOREM Tokens == Spec => []TokenOnlyWhileQueued
<1> QED
  BY Typed, WorkAlways, TokenInit, TokenStep, PTL DEF Spec

-----------------------------------------------------------------------------
(* Accounts that signed out.                                               *)

LEMMA OwnedInit == Init => Owned
BY TypeInit DEF Init, Owned, LegacyRests, SignedOutQuiet, Listed, InProgress, TypeOK, Types

\* Entries in the list or in a worker's hands.
Live == (Listed \union {mine[w] : w \in Workers}) \ {None}

LEMMA LiveTyped == TypeOK => Live \subseteq Entries /\ \A e \in Live : job[e] \in Job
BY ListedTyped DEF TypeOK, Types, ListSound, Live, Listed

\* Nothing starts, nothing that works forgets that it was told to stop, and no
\* other job becomes one of an account that signed out.
LEMMA OwnedFrame ==
  ASSUME TypeOK, Owned, Listed' \subseteq Listed, Live' \subseteq Live,
         signedOut' \subseteq signedOut,
         \A e \in Live' : /\ job'[e].account = job[e].account
                          /\ state'[e] = "queued" => state[e] = "queued"
                          /\ state'[e] \in InProgress => state[e] \in InProgress
                          /\ stop[e] => stop'[e]
  PROVE  Owned'
<1>1. Listed' \subseteq Live'
  <2>1. None \notin Listed
    BY ListedTyped, QueueAssumption
  <2> QED
    BY <2>1 DEF Live
<1>2. LegacyRests'
  BY <1>1 DEF Owned, LegacyRests
<1>3. SignedOutQuiet'
  BY <1>1 DEF Owned, SignedOutQuiet, Live
<1> QED
  BY <1>2, <1>3 DEF Owned

LEMMA OwnedHalt ==
  ASSUME TypeOK, Work, Owned, NEW a \in SUBSET Accounts, NEW asked \in SUBSET Listed,
         NEW cleared, Halt(asked, cleared),
         \A e \in Listed : job[e].account \in a => e \in asked,
         signedOut' \subseteq signedOut \union a
  PROVE  Owned'
<1>1. Listed' = Listed /\ Live' = Live
  BY ListedSame DEF Halt, Live, workerVars
<1>2. Live \subseteq Entries /\ Listed \subseteq Entries
  BY LiveTyped, ListedTyped
<1>3. \A e \in Entries :
        /\ state'[e] = IF e \in asked /\ state[e] = "queued" THEN "paused" ELSE state[e]
        /\ stop'[e] = (stop[e] \/ e \in asked)
        /\ job'[e] = job[e]
  BY DEF Halt
<1>4. LegacyRests'
  BY <1>1, <1>2, <1>3 DEF Owned, LegacyRests, InProgress
<1>5. SignedOutQuiet'
  <2> SUFFICES ASSUME NEW e \in Live, job[e].account \in signedOut'
               PROVE  /\ state'[e] # "queued" \/ e \notin Listed
                      /\ state'[e] \in InProgress => stop'[e]
    BY <1>1, <1>2, <1>3 DEF SignedOutQuiet, Live, Halt, workerVars
  <2>1. CASE job[e].account \in signedOut
    BY <1>2, <1>3, <2>1 DEF Owned, SignedOutQuiet, Live, InProgress
  <2>2. CASE e \in asked
    BY <1>2, <1>3, <2>2 DEF InProgress
  <2>3. CASE e \notin Listed
    <3>1. state[e] \in InProgress => stop[e]
      BY <1>2, <2>3 DEF Work, OneWorkerPerEntry, StillThere, RemovedStops
    <3> QED
      BY <1>2, <1>3, <2>3, <3>1 DEF InProgress
  <2> QED
    BY <2>1, <2>2, <2>3
<1> QED
  BY <1>4, <1>5 DEF Owned

LEMMA OwnedUserStep ==
  ASSUME TypeOK, Work, Owned, UserStep
  PROVE  Owned'
<1>0. Live \subseteq Entries /\ Listed \subseteq Entries
  BY LiveTyped, ListedTyped
<1>1. ASSUME NEW r \in Requests, EnqueueAgain(r) PROVE Owned'
  <2>1. PICK e \in Entries : /\ Matches(r, e)
                             /\ state' = [state EXCEPT ![e] = "queued"]
                             /\ stop' = [stop EXCEPT ![e] = FALSE]
    BY <1>1 DEF EnqueueAgain
  <2>2. job[e].account = r.account /\ r.account \in Accounts
    BY <2>1, QueueAssumption DEF Matches, Same
  <2>3. Listed' = Listed /\ Live' = Live /\ job' = job /\ signedOut' = signedOut \ {r.account}
    BY <1>1, ListedSame DEF EnqueueAgain, Live
  <2>4. LegacyRests'
    BY <1>0, <2>1, <2>2, <2>3, QueueAssumption DEF Owned, LegacyRests, TypeOK, Types
  <2>5. SignedOutQuiet'
    <3> SUFFICES ASSUME NEW x \in Live, job[x].account \in signedOut'
                 PROVE  /\ state'[x] # "queued" \/ x \notin Listed
                        /\ state'[x] \in InProgress => stop'[x]
      BY <2>3 DEF SignedOutQuiet, Live
    <3>1. x # e /\ job[x].account \in signedOut
      BY <2>2, <2>3
    <3>2. state'[x] = state[x] /\ stop'[x] = stop[x]
      BY <1>0, <2>1, <3>1 DEF TypeOK, Types
    <3> QED
      BY <3>1, <3>2 DEF Owned, SignedOutQuiet, Live
  <2> QED
    BY <2>4, <2>5 DEF Owned
<1>2. ASSUME NEW r \in Requests, EnqueueNew(r) PROVE Owned'
  <2>1. PICK e \in Entries \ (Listed \union Held) :
          /\ jobs' = Append(jobs, e)
          /\ job' = [job EXCEPT ![e] = r]
          /\ state' = [state EXCEPT ![e] = "queued"]
          /\ stop' = [stop EXCEPT ![e] = FALSE]
    BY <1>2 DEF EnqueueNew
  <2>2. job'[e] = r /\ r.account \in Accounts
    BY <2>1, QueueAssumption DEF TypeOK, Types
  <2>3. Listed' = Listed \union {e} /\ mine' = mine /\ signedOut' = signedOut \ {r.account}
    BY <1>2, <2>1, ListedAppend DEF EnqueueNew
  <2>4. \A x \in Entries \ {e} : job'[x] = job[x] /\ state'[x] = state[x] /\ stop'[x] = stop[x]
    BY <2>1 DEF TypeOK, Types
  <2>5. LegacyRests'
    BY <1>0, <2>2, <2>3, <2>4, QueueAssumption DEF Owned, LegacyRests
  <2>6. SignedOutQuiet'
    <3> SUFFICES ASSUME NEW x \in Listed' \union {mine[w] : w \in Workers}, x # None,
                        job'[x].account \in signedOut'
                 PROVE  /\ state'[x] # "queued" \/ x \notin Listed'
                        /\ state'[x] \in InProgress => stop'[x]
      BY <2>3 DEF SignedOutQuiet
    <3>1. x # e /\ x \in Live
      BY <2>2, <2>3 DEF Live
    <3> QED
      BY <1>0, <2>3, <2>4, <3>1 DEF Owned, SignedOutQuiet, Live
  <2> QED
    BY <2>5, <2>6 DEF Owned
<1>3. ASSUME NEW e \in Entries, NEW withFiles \in BOOLEAN, Remove(e, withFiles) PROVE Owned'
  <2>1. Listed' \subseteq Listed
    BY <1>3, ListedSame, ListedWithout DEF Remove
  <2>2. Live' \subseteq Live /\ state' = state /\ job' = job /\ signedOut' = signedOut
        /\ stop' = [stop EXCEPT ![e] = TRUE]
    BY <1>3, <2>1 DEF Remove, Live, workerVars
  <2>3. \A x \in Entries : stop[x] => stop'[x]
    BY <2>2 DEF TypeOK, Types
  <2> QED
    BY <1>0, <2>1, <2>2, <2>3, OwnedFrame
<1>4. ASSUME NEW i \in DOMAIN jobs, NEW k \in DOMAIN jobs, Move(i, k) PROVE Owned'
  <2>1. Listed' = Listed
    BY <1>4, ListedMove
  <2>2. Live' = Live
    BY <1>4, <2>1 DEF Move, Live, workerVars
  <2> QED
    BY <1>4, <2>1, <2>2, OwnedFrame DEF Move
<1>5. ASSUME NEW a \in Accounts, AdoptLegacy(a) PROVE Owned'
  <2>1. Listed' = Listed /\ Live' = Live
    BY <1>5, ListedSame DEF AdoptLegacy, Live, workerVars
  <2>2. /\ state' = state /\ stop' = stop /\ signedOut' = signedOut
        /\ \A x \in Entries : job'[x].account = job[x].account \/ (x \in Listed /\ job[x].account = NoAccount)
    BY <1>5 DEF AdoptLegacy
  <2>3. \A x \in Listed : job[x] \in Job /\ (job[x].account = NoAccount => job'[x] = [job[x] EXCEPT !.account = a])
    BY <1>0, <1>5 DEF AdoptLegacy, TypeOK, ListSound, Listed
  <2>4. \A x \in Listed : job'[x].account # NoAccount
    <3>1. \A j \in Job : [j EXCEPT !.account = a].account = a
      BY DEF Job
    <3> QED
      BY <1>0, <2>2, <2>3, <3>1, QueueAssumption
  <2>5. LegacyRests'
    BY <2>1, <2>4 DEF LegacyRests
  <2>6. SignedOutQuiet'
    <3> SUFFICES ASSUME NEW x \in Live, job'[x].account \in signedOut
                 PROVE  /\ state[x] # "queued" \/ x \notin Listed
                        /\ state[x] \in InProgress => stop[x]
      BY <2>1, <2>2 DEF SignedOutQuiet, Live
    <3>1. CASE job'[x].account = job[x].account
      BY <3>1 DEF Owned, SignedOutQuiet, Live
    <3>2. CASE x \in Listed /\ job[x].account = NoAccount
      BY <3>2 DEF Owned, LegacyRests
    <3> QED
      BY <1>0, <2>2, <3>1, <3>2
  <2> QED
    BY <2>5, <2>6 DEF Owned
<1>6. ASSUME NEW a \in Accounts \union {NoAccount}, SetAccount(a) PROVE Owned'
  BY <1>6, ListedSame, OwnedFrame DEF SetAccount, listVars, workerVars, Live
<1>7. ASSUME NEW n \in 1..Cardinality(Workers), SetParallel(n) PROVE Owned'
  BY <1>7, ListedSame, OwnedFrame DEF SetParallel, listVars, Live
<1>8. ASSUME NEW app \in Apps, Cancel(app) PROVE Owned'
  <2>1. signedOut' \subseteq signedOut \union {}
    BY <1>8 DEF Cancel
  <2>2. PICK asked \in SUBSET Listed, cleared \in SUBSET Listed : Halt(asked, cleared)
    BY <1>8 DEF Cancel
  <2>3. {} \in SUBSET Accounts /\ \A e \in Listed : job[e].account \in {} => e \in asked
    OBVIOUS
  <2> QED
    BY <2>1, <2>2, <2>3, OwnedHalt
<1>9. ASSUME NEW a \in Accounts, CancelAccount(a) PROVE Owned'
  <2>1. {a} \in SUBSET Accounts /\ signedOut' \subseteq signedOut \union {a}
    BY <1>9 DEF CancelAccount
  <2>2. PICK asked \in SUBSET Listed : asked = {e \in Listed : job[e].account = a} /\ Halt(asked, asked)
    BY <1>9 DEF CancelAccount
  <2>3. \A e \in Listed : job[e].account \in {a} => e \in asked
    BY <2>2
  <2> QED
    BY <2>1, <2>2, <2>3, OwnedHalt
<1>10. CASE CancelAll
  <2>1. signedOut' \subseteq signedOut \union Accounts /\ Accounts \in SUBSET Accounts /\ Listed \in SUBSET Listed
    BY <1>10 DEF CancelAll
  <2> QED
    BY <1>10, <2>1, OwnedHalt DEF CancelAll
<1>11. CASE Close
  <2>1. signedOut' \subseteq signedOut \union {} /\ Listed \in SUBSET Listed
    BY <1>11 DEF Close
  <2> QED
    BY <1>11, <2>1, OwnedHalt DEF Close
<1> QED
  BY <1>1, <1>2, <1>3, <1>4, <1>5, <1>6, <1>7, <1>8, <1>9, <1>10, <1>11 DEF UserStep

LEMMA OwnedWorkerStep ==
  ASSUME TypeOK, Work, Owned, NEW w \in Workers, WorkerStep(w)
  PROVE  Owned'
<1>0. Live \subseteq Entries /\ Listed \subseteq Entries
  BY LiveTyped, ListedTyped
<1>1. CASE Take(w)
  <2>1. PICK e \in Listed : /\ state[e] = "queued"
                            /\ state' = [state EXCEPT ![e] = "checking"]
                            /\ mine' = [mine EXCEPT ![w] = e]
    <3>1. PICK e \in Entries : /\ NextJob(e)
                               /\ state' = [state EXCEPT ![e] = "checking"]
                               /\ mine' = [mine EXCEPT ![w] = e]
      BY <1>1 DEF Take
    <3>2. e \in Listed /\ state[e] = "queued"
      BY <3>1 DEF NextJob, Startable, Listed
    <3> QED BY <3>1, <3>2
  <2>2. Listed' = Listed /\ job' = job /\ stop' = stop /\ signedOut' = signedOut
    BY <1>1, ListedSame DEF Take
  <2>3. job[e].account \notin signedOut /\ job[e].account # NoAccount
    BY <1>0, <2>1, QueueAssumption DEF Owned, LegacyRests, SignedOutQuiet
  <2>4. \A x \in Entries \ {e} : state'[x] = state[x]
    BY <1>0, <2>1 DEF TypeOK, Types
  <2>5. LegacyRests'
    BY <1>0, <2>2, <2>3, <2>4 DEF Owned, LegacyRests
  <2>6. SignedOutQuiet'
    <3> SUFFICES ASSUME NEW x \in Listed \union {mine'[v] : v \in Workers}, x # None,
                        job[x].account \in signedOut
                 PROVE  /\ state'[x] # "queued" \/ x \notin Listed
                        /\ state'[x] \in InProgress => stop[x]
      BY <2>2 DEF SignedOutQuiet
    <3>1. x # e /\ x \in Live
      BY <2>1, <2>3 DEF Live, TypeOK, Types
    <3> QED
      BY <1>0, <2>4, <3>1 DEF Owned, SignedOutQuiet, Live
  <2> QED
    BY <2>5, <2>6 DEF Owned
<1>2. CASE Wait(w) \/ OpenFolder(w) \/ Notify(w)
  BY <1>2, ListedSame, OwnedFrame DEF Wait, OpenFolder, Notify, listVars, Live
<1>3. CASE Exit(w)
  BY <1>3, ListedSame, OwnedFrame DEF Exit, listVars, Live
<1>4. CASE Discard(w)
  <2>1. Listed' = Listed /\ mine' = [mine EXCEPT ![w] = None]
    BY <1>4, ListedSame DEF Discard, listVars
  <2>2. Live' \subseteq Live
    BY <2>1 DEF Live, TypeOK, Types
  <2> QED
    BY <1>4, <2>1, <2>2, OwnedFrame DEF Discard, listVars
<1>5. CASE Plan(w)
  <2>1. Listed' = Listed /\ Live' = Live
    BY <1>5, ListedSame DEF Plan, Live, workerVars
  <2>2. \A x \in Entries : job[x] \in Job => job'[x].account = job[x].account
    BY <1>5 DEF Plan, Job, TypeOK, Types
  <2>3. \A x \in Live : job'[x].account = job[x].account
    BY <2>2, LiveTyped
  <2> QED
    BY <1>5, <2>1, <2>3, OwnedFrame DEF Plan
<1>6. CASE Fetch(w)
  <2>1. Listed' = Listed /\ Live' = Live
    BY <1>6, ListedSame DEF Fetch, Live, workerVars
  <2>2. \A x \in Entries : /\ state'[x] = "queued" => state[x] = "queued"
                           /\ state'[x] \in InProgress => state[x] \in InProgress
    BY <1>6 DEF Fetch, InProgress, TypeOK, Types
  <2> QED
    BY <1>0, <1>6, <2>1, <2>2, OwnedFrame DEF Fetch
<1>7. ASSUME NEW s \in {"complete", "paused", "failed"}, Finish(w, s) PROVE Owned'
  <2>1. Listed' = Listed /\ Live' = Live
    BY <1>7, ListedSame DEF Finish, Live
  <2>2. \A x \in Entries : /\ state'[x] = "queued" => state[x] = "queued"
                           /\ state'[x] \in InProgress => state[x] \in InProgress
    BY <1>7 DEF Finish, InProgress, TypeOK, Types
  <2> QED
    BY <1>0, <1>7, <2>1, <2>2, OwnedFrame DEF Finish
<1>8. CASE Release(w)
  <2>1. Listed' \subseteq Listed
    BY <1>8, ListedSame, ListedWithout DEF Release, LeftBy
  <2>2. mine' = mine \/ mine' = [mine EXCEPT ![w] = None]
    BY <1>8 DEF Release
  <2>3. Live' \subseteq Live
    BY <2>1, <2>2 DEF Live, TypeOK, Types
  <2> QED
    BY <1>8, <2>1, <2>3, OwnedFrame DEF Release
<1> QED
  BY <1>1, <1>2, <1>3, <1>4, <1>5, <1>6, <1>7, <1>8 DEF WorkerStep

LEMMA OwnedStep == TypeOK /\ Work /\ Owned /\ [Next]_vars => Owned'
<1> SUFFICES ASSUME TypeOK, Work, Owned, [Next]_vars PROVE Owned'
  OBVIOUS
<1>1. CASE UserStep
  BY <1>1, OwnedUserStep
<1>2. CASE \E w \in Workers : WorkerStep(w)
  BY <1>2, OwnedWorkerStep
<1>3. CASE RemoveDiscards \/ UNCHANGED vars
  BY <1>3, ListedSame, OwnedFrame DEF RemoveDiscards, vars, listVars, workerVars, Live
<1>4. CASE Closed \/ Crash
  <2>1. Listed' = {} /\ \A w \in Workers : mine'[w] = None
    BY <1>4 DEF Closed, Crash, Forget, Listed
  <2> QED
    BY <2>1 DEF Owned, LegacyRests, SignedOutQuiet
<1>5. CASE Restart
  <2>1. \A e \in Entries : state'[e] = "paused"
    BY <1>5 DEF Restart, TypeOK, DownIsEmpty
  <2>2. Listed' \subseteq Entries /\ \A w \in Workers : mine'[w] \in Entries \union {None}
    BY <1>5, TypeRestart DEF TypeOK, Types, Listed
  <2> QED
    BY <2>1, <2>2 DEF Owned, LegacyRests, SignedOutQuiet, InProgress
<1> QED
  BY <1>1, <1>2, <1>3, <1>4, <1>5 DEF Next

\* After an account signs out none of its jobs waits to start, and those being
\* installed were told to stop, until the account asks for a job again.
THEOREM Quiet == Spec => []SignedOutQuiet
<1>1. Spec => []Owned
  BY Typed, WorkAlways, OwnedInit, OwnedStep, PTL DEF Spec
<1>2. Owned => SignedOutQuiet
  BY DEF Owned
<1> QED
  BY <1>1, <1>2, PTL

=============================================================================
