---------------------- MODULE DownloadQueueList_proofs ----------------------
(***************************************************************************)
(* What the list shows, to downloads.json and to the user.                 *)
(*                                                                         *)
(* downloads.json is never behind the list: SavedIsCurrent, the invariant  *)
(* a crash relies on.  It says that some map leads from the file to the    *)
(* places of the list; what an action keeps is that the file is what       *)
(* save_locked would write now, and the map is then Nth.                   *)
(*                                                                         *)
(* The rows the user sees implement JobList, as long as the file can be    *)
(* written.  They too are places of the list, taken in order (InOrder);    *)
(* each action says which places the rows are at after it.                 *)
(***************************************************************************)
EXTENDS DownloadQueueWork_proofs

\* Were the queue saved now, the file would not change.
UpToDate == process # "down" /\ ~stale => saved = Unfinished

-----------------------------------------------------------------------------
(* Ranks in a set of numbers.                                              *)

Rank(K, k) == Cardinality({m \in K : m <= k})

LEMMA RankGrows ==
  ASSUME NEW n \in Nat, NEW K \in SUBSET (1..n), NEW j \in K, NEW k \in K, j < k
  PROVE  Rank(K, j) < Rank(K, k)
<1> DEFINE J == {m \in K : m <= j}
           L == {m \in K : m <= k}
<1>0. \A m \in K : m \in Nat
  OBVIOUS
<1>1. IsFiniteSet(K)
  BY UptoSize, FS_Subset
<1>2. IsFiniteSet(L)
  BY <1>1, FS_Subset
<1>3. J \subseteq L /\ k \in L /\ k \notin J
  <2>1. j \in Nat /\ k \in Nat /\ k <= k /\ ~(k <= j)
    BY <1>0
  <2>2. \A m \in K : m <= j => m <= k
    BY <1>0, <2>1
  <2> QED
    BY <2>1, <2>2
<1>4. Cardinality(J) <= Cardinality(L) /\ (Cardinality(J) = Cardinality(L) => J = L)
  BY <1>2, <1>3, FS_Subset
<1>5. Cardinality(J) \in Nat /\ Cardinality(L) \in Nat
  <2>1. IsFiniteSet(J)
    BY <1>1, FS_Subset
  <2> QED
    BY <1>2, <2>1, FS_CardinalityType
<1>6. Cardinality(J) < Cardinality(L)
  <2> HIDE DEF J, L
  <2> QED
    BY <1>3, <1>4, <1>5
<1> QED
  BY <1>6 DEF Rank

LEMMA RankRange ==
  ASSUME NEW n \in Nat, NEW K \in SUBSET (1..n), NEW k \in K
  PROVE  Rank(K, k) \in 1..Cardinality(K)
<1> DEFINE L == {m \in K : m <= k}
<1>1. IsFiniteSet(K)
  BY UptoSize, FS_Subset
<1>2. IsFiniteSet(L) /\ Cardinality(L) <= Cardinality(K) /\ k \in L
  BY <1>1, FS_Subset
<1>3. Cardinality(L) \in Nat /\ Cardinality(K) \in Nat /\ Cardinality(L) # 0
  BY <1>1, <1>2, FS_CardinalityType, FS_EmptySet
<1> QED
  BY <1>2, <1>3 DEF Rank

\* Nth lists a set of numbers in growing order, each of them once.
LEMMA NthOrder ==
  ASSUME NEW n \in Nat, NEW K \in SUBSET (1..n)
  PROVE  /\ \A i \in 1..Cardinality(K) : Nth(K, i) \in K
         /\ \A i, k \in 1..Cardinality(K) : i < k => Nth(K, i) < Nth(K, k)
         /\ \A k \in K : Rank(K, k) \in 1..Cardinality(K) /\ Nth(K, Rank(K, k)) = k
<1>1. \A i \in 1..Cardinality(K) : Nth(K, i) \in K /\ Rank(K, Nth(K, i)) = i
  BY NthExists DEF Rank
<1>0. \A m \in K : m \in Nat
  OBVIOUS
<1>2. ASSUME NEW i \in 1..Cardinality(K), NEW k \in 1..Cardinality(K), i < k
      PROVE  Nth(K, i) < Nth(K, k)
  <2>1. Nth(K, i) \in K /\ Nth(K, k) \in K /\ Rank(K, Nth(K, i)) = i /\ Rank(K, Nth(K, k)) = k
    BY <1>1
  <2>2. Nth(K, i) # Nth(K, k)
    BY <1>2, <2>1
  <2>3. Nth(K, k) < Nth(K, i) => k < i
    BY <2>1, RankGrows
  <2>4. Nth(K, i) \in Nat /\ Nth(K, k) \in Nat
    BY <1>0, <2>1
  <2> QED
    BY <1>2, <2>2, <2>3, <2>4
<1>3. ASSUME NEW k \in K PROVE Rank(K, k) \in 1..Cardinality(K) /\ Nth(K, Rank(K, k)) = k
  <2> DEFINE i == Rank(K, k)
             j == Nth(K, i)
  <2>1. i \in 1..Cardinality(K)
    BY RankRange
  <2>2. j \in K /\ Rank(K, j) = i
    BY <1>1, <2>1
  <2>3. ~(j < k) /\ ~(k < j)
    <3>1. j < k => Rank(K, j) < Rank(K, k)
      BY <2>2, RankGrows
    <3>2. k < j => Rank(K, k) < Rank(K, j)
      BY <2>2, RankGrows
    <3> QED
      BY <2>1, <2>2, <3>1, <3>2
  <2>4. j \in Nat /\ k \in Nat
    BY <1>0, <2>2
  <2> QED
    BY <2>1, <2>3, <2>4
<1> QED
  BY <1>1, <1>2, <1>3

-----------------------------------------------------------------------------
(* The file.                                                               *)

\* What save_locked writes is what the invariant asks for.
LEMMA UpToDateSaves == TypeOK /\ UpToDate => SavedIsCurrent
<1> SUFFICES ASSUME TypeOK, saved = Unfinished
             PROVE  \E at \in [DOMAIN saved -> DOMAIN jobs] :
                      /\ \A i \in DOMAIN saved : saved[i] = job[jobs[at[i]]]
                      /\ \A i, k \in DOMAIN saved : i < k => at[i] < at[k]
                      /\ {at[i] : i \in DOMAIN saved} =
                           {i \in DOMAIN jobs : state[jobs[i]] # "complete" /\ ~removed[jobs[i]]}
  BY DEF UpToDate, SavedIsCurrent
<1> DEFINE n    == Len(jobs)
           size == Cardinality(Kept)
           at   == [i \in 1..size |-> Nth(Kept, i)]
<1>1. n \in Nat /\ DOMAIN jobs = 1..n
  BY DEF TypeOK, Types
<1>2. Kept \in SUBSET (1..n)
  BY <1>1 DEF Kept
<1>3. /\ \A i \in 1..size : Nth(Kept, i) \in Kept
      /\ \A i, k \in 1..size : i < k => Nth(Kept, i) < Nth(Kept, k)
      /\ \A k \in Kept : Rank(Kept, k) \in 1..size /\ Nth(Kept, Rank(Kept, k)) = k
  BY <1>1, <1>2, NthOrder
<1>4. DOMAIN saved = 1..size /\ \A i \in 1..size : saved[i] = job[jobs[Nth(Kept, i)]]
  BY DEF Unfinished
<1> HIDE DEF n, size
<1>5. at \in [1..size -> DOMAIN jobs]
  BY <1>1, <1>2, <1>3
<1>6. {at[i] : i \in 1..size} = Kept
  BY <1>3
<1>7. Kept = {i \in DOMAIN jobs : state[jobs[i]] # "complete" /\ ~removed[jobs[i]]}
  BY DEF Kept
<1>8. \A i \in 1..size : at[i] = Nth(Kept, i)
  OBVIOUS
<1> HIDE DEF at
<1>9. \A i \in DOMAIN saved : saved[i] = job[jobs[at[i]]]
  BY <1>4, <1>8
<1>10. \A i, k \in DOMAIN saved : i < k => at[i] < at[k]
  BY <1>3, <1>4, <1>8
<1>11. at \in [DOMAIN saved -> DOMAIN jobs] /\ {at[i] : i \in DOMAIN saved} = Kept
  BY <1>4, <1>5, <1>6
<1> QED
  BY <1>7, <1>9, <1>10, <1>11

\* The first start finds every job that it reads unfinished.
LEMMA SavedInit == Init => UpToDate
<1> SUFFICES ASSUME Init, ~stale PROVE saved = Unfinished
  BY DEF UpToDate
<1>0. PICK r \in Read(Restored) : jobs = StartJobs(r) /\ job = StartJob(r) /\ saved = r
  BY DEF Init
<1> DEFINE n == Len(r)
<1>1. n \in Nat /\ n <= MaxEntries /\ r \in Seq(Job) /\ r \in [1..n -> Job]
  BY ReadRows, QueueAssumption
<1>2. DOMAIN jobs = 1..n /\ \A i \in 1..n : jobs[i] = i /\ i \in Entries /\ job[i] = r[i]
  BY <1>0, <1>1, StartsList
<1>3. Kept = 1..n
  BY <1>2 DEF Init, Kept
<1>4. Cardinality(1..n) = n
  BY <1>1, UptoSize
<1>5. ASSUME NEW i \in 1..n PROVE Nth(Kept, i) = i
  <2> DEFINE k == Nth(Kept, i)
  <2>1. k \in 1..n /\ Cardinality({m \in 1..n : m <= k}) = i
    BY <1>1, <1>3, <1>4, NthExists
  <2>2. {m \in 1..n : m <= k} = 1..k
    BY <1>1, <2>1
  <2>3. Cardinality(1..k) = k
    BY <2>1, UptoSize
  <2> QED
    BY <2>1, <2>2, <2>3
<1>6. \A i \in 1..n : job[jobs[Nth(Kept, i)]] = r[i]
  BY <1>1, <1>2, <1>5
<1>7. Unfinished = [i \in 1..n |-> r[i]]
  BY <1>3, <1>4, <1>6 DEF Unfinished
<1> QED
  BY <1>0, <1>1, <1>7

LEMMA SaveUpdates == Save => UpToDate'
BY DEF Save, UpToDate

\* An action that saves nothing changes nothing the file would show.
LEMMA SavedFrame ==
  ASSUME UpToDate, UNCHANGED <<jobs, job, removed, saved, stale>>, process # "down",
         \A i \in DOMAIN jobs : state'[jobs[i]] = "complete" <=> state[jobs[i]] = "complete"
  PROVE  UpToDate'
<1>1. Kept' = Kept
  BY DEF Kept
<1>2. Unfinished' = Unfinished
  BY <1>1 DEF Unfinished
<1> QED
  BY <1>2 DEF UpToDate

LEMMA SavedStep == TypeOK /\ UpToDate /\ [Next]_vars => UpToDate'
<1> SUFFICES ASSUME TypeOK, UpToDate, [Next]_vars PROVE UpToDate'
  OBVIOUS
<1>1. CASE UserStep
  <2>1. ASSUME NEW a \in Accounts \union {NoAccount}, SetAccount(a) PROVE UpToDate'
    BY <2>1, SavedFrame DEF SetAccount, Call, listVars, fileVars
  <2>2. ASSUME NEW k \in 1..Cardinality(Workers), SetParallel(k) PROVE UpToDate'
    BY <2>2, SavedFrame DEF SetParallel, Call, listVars, fileVars
  <2>3. ASSUME NEW r \in Requests, EnqueueAgain(r) \/ EnqueueNew(r) PROVE UpToDate'
    BY <2>3, SaveUpdates DEF EnqueueAgain, EnqueueNew
  <2>4. ASSUME NEW app \in Apps, Cancel(app) PROVE UpToDate'
    BY <2>4, SaveUpdates DEF Cancel, Halt
  <2>5. ASSUME NEW a \in Accounts, CancelAccount(a) \/ AdoptLegacy(a) PROVE UpToDate'
    BY <2>5, SaveUpdates DEF CancelAccount, Halt, AdoptLegacy
  <2>6. CASE CancelAll \/ Close
    BY <2>6, SaveUpdates DEF CancelAll, Close, Halt
  <2>7. ASSUME NEW e \in Entries, NEW withFiles \in BOOLEAN, Remove(e, withFiles) PROVE UpToDate'
    BY <2>7, SaveUpdates DEF Remove
  <2>8. ASSUME NEW i \in DOMAIN jobs, NEW k \in DOMAIN jobs, Move(i, k) PROVE UpToDate'
    BY <2>8, SaveUpdates DEF Move
  <2> QED
    BY <1>1, <2>1, <2>2, <2>3, <2>4, <2>5, <2>6, <2>7, <2>8 DEF UserStep
<1>2. CASE RemoveDiscards
  BY <1>2, SavedFrame DEF RemoveDiscards, listVars, fileVars
<1>3. ASSUME NEW w \in Workers, WorkerStep(w) PROVE UpToDate'
  <2>0. pc[w] # "exit" => process # "down"
    BY DEF TypeOK, DownIsEmpty
  <2>1. CASE Take(w)
    <3>1. PICK e \in Entries : state[e] = "queued" /\ state' = [state EXCEPT ![e] = "checking"]
      BY <2>1 DEF Take, NextJob, Startable
    <3>2. \A x \in Entries : state'[x] = "complete" <=> state[x] = "complete"
      BY <3>1 DEF TypeOK, Types
    <3>3. \A i \in DOMAIN jobs : jobs[i] \in Entries
      BY DEF TypeOK, Types
    <3> QED
      BY <2>1, <3>2, <3>3, SavedFrame DEF Take, fileVars
  <2>2. CASE Fetch(w)
    <3>1. \A x \in Entries : state'[x] = "complete" <=> state[x] = "complete"
      BY <2>2 DEF Fetch, TypeOK, Types
    <3>2. \A i \in DOMAIN jobs : jobs[i] \in Entries
      BY DEF TypeOK, Types
    <3> QED
      BY <2>0, <2>2, <3>1, <3>2, SavedFrame DEF Fetch, fileVars
  <2>3. CASE Wait(w) \/ OpenFolder(w) \/ Notify(w) \/ Discard(w) \/ Exit(w)
    BY <2>0, <2>3, SavedFrame DEF Wait, OpenFolder, Notify, Discard, Exit, listVars, fileVars
  <2>4. CASE Plan(w)
    BY <2>4, SaveUpdates DEF Plan
  <2>5. ASSUME NEW s \in {"complete", "paused", "failed"}, Finish(w, s) PROVE UpToDate'
    BY <2>5, SaveUpdates DEF Finish
  <2>6. CASE Release(w)
    <3>1. CASE removed[mine[w]]
      BY <2>6, <3>1, SaveUpdates DEF Release
    <3>2. CASE ~removed[mine[w]]
      BY <2>0, <2>6, <3>2, SavedFrame DEF Release, LeftBy, fileVars
    <3> QED
      BY <3>1, <3>2
  <2> QED
    BY <1>3, <2>1, <2>2, <2>3, <2>4, <2>5, <2>6 DEF WorkerStep
<1>4. CASE Closed \/ Crash
  BY <1>4 DEF Closed, Crash, Forget, UpToDate
<1>5. CASE Restart
  BY <1>5, SaveUpdates DEF Restart
<1>6. CASE UNCHANGED vars
  <2>1. Unfinished' = Unfinished
    BY <1>6 DEF vars, listVars, Unfinished, Kept
  <2> QED
    BY <1>6, <2>1 DEF vars, fileVars, UpToDate
<1> QED
  BY <1>1, <1>2, <1>3, <1>4, <1>5, <1>6 DEF Next

-----------------------------------------------------------------------------
\* Whenever the process may die, downloads.json names exactly the jobs that are
\* neither complete nor removed, in queue order, unless its last write failed.
THEOREM Saved == Spec => []SavedIsCurrent
<1>1. Spec => []UpToDate
  BY Typed, SavedInit, SavedStep, PTL DEF Spec
<1> QED
  BY <1>1, Typed, UpToDateSaves, PTL

-----------------------------------------------------------------------------
(* The places of the rows.                                                 *)

\* A map from 1..m onto a set of numbers, in growing order.
InOrder(at, m, K) ==
  /\ m \in Nat /\ at \in [1..m -> K]
  /\ \A i, k \in 1..m : i < k => at[i] < at[k]
  /\ \A k \in K : \E i \in 1..m : at[i] = k

\* There is one such map, and it is Nth.
LEMMA NthOnly ==
  ASSUME NEW n \in Nat, NEW K \in SUBSET (1..n), NEW m, NEW at, InOrder(at, m, K)
  PROVE  Cardinality(K) = m /\ \A i \in 1..m : Nth(K, i) = at[i]
<1>1. /\ m \in Nat /\ at \in [1..m -> K]
      /\ \A i, k \in 1..m : i < k => at[i] < at[k]
      /\ \A k \in K : \E i \in 1..m : at[i] = k
  BY DEF InOrder
<1>0. \A x \in K : x \in Nat
  OBVIOUS
<1>2. \A i \in 1..m : at[i] \in Nat
  BY <1>0, <1>1
<1>3. \A i, k \in 1..m : at[i] <= at[k] <=> i <= k
  BY <1>1, <1>2
<1>4. Cardinality(K) = m
  <2>1. at \in Bijection(1..m, K)
    BY <1>1, <1>2, <1>3 DEF Bijection, Injection, Surjection, IsInjective
  <2> QED
    BY <1>1, <2>1, UptoSize, FS_Bijection DEF ExistsBijection
<1>5. ASSUME NEW i \in 1..m PROVE Rank(K, at[i]) = i
  <2> DEFINE S == {x \in K : x <= at[i]}
             f == [j \in 1..i |-> at[j]]
  <2>1. f \in [1..i -> S]
    BY <1>1, <1>3
  <2>2. \A j, k \in 1..i : f[j] = f[k] => j = k
    BY <1>1, <1>2, <1>3
  <2>3. \A x \in S : \E j \in 1..i : f[j] = x
    BY <1>1, <1>3
  <2>4. f \in Bijection(1..i, S)
    <3> HIDE DEF S, f
    <3> QED
      BY <2>1, <2>2, <2>3 DEF Bijection, Injection, Surjection, IsInjective
  <2>5. ExistsBijection(1..i, S)
    BY <2>4 DEF ExistsBijection
  <2>6. i \in Nat
    BY <1>1
  <2> HIDE DEF S
  <2>7. Cardinality(S) = i
    BY <2>5, <2>6, UptoSize, FS_Bijection
  <2> QED
    BY <2>7 DEF Rank, S
<1>6. ASSUME NEW i \in 1..m PROVE Nth(K, i) = at[i]
  <2>1. at[i] \in K
    BY <1>1
  <2>2. Nth(K, Rank(K, at[i])) = at[i]
    BY <2>1, NthOrder
  <2> QED
    BY <1>5, <2>2
<1> QED
  BY <1>4, <1>6

\* The rows are at some places, in order.
LEMMA RowsNow ==
  ASSUME TypeOK, process # "down"
  PROVE  \E m, at :
           InOrder(at, m, Stays) /\ Rows = [i \in 1..m |-> Row(jobs[at[i]])]
<1> DEFINE n  == Len(jobs)
           m  == Cardinality(Stays)
           at == [i \in 1..m |-> Nth(Stays, i)]
<1>1. n \in Nat /\ Stays \in SUBSET (1..n)
  BY DEF TypeOK, Types, Stays
<1>2. m \in Nat
  BY <1>1, UptoSize, FS_Subset, FS_CardinalityType
<1>3. /\ \A i \in 1..m : Nth(Stays, i) \in Stays
      /\ \A i, k \in 1..m : i < k => Nth(Stays, i) < Nth(Stays, k)
      /\ \A k \in Stays : Rank(Stays, k) \in 1..m /\ Nth(Stays, Rank(Stays, k)) = k
  BY <1>1, NthOrder
<1>4. Rows = [i \in 1..m |-> Row(jobs[Nth(Stays, i)])]
  BY DEF Rows
<1> HIDE DEF m
<1>5. InOrder(at, m, Stays)
  BY <1>2, <1>3 DEF InOrder
<1>6. Rows = [i \in 1..m |-> Row(jobs[at[i]])]
  BY <1>4
<1> HIDE DEF at
<1> QED
  BY <1>5, <1>6

\* A row runs exactly while its entry is in progress.
LEMMA RowStatus ==
  ASSUME TypeOK, NEW e \in Entries
  PROVE  /\ Row(e).job = job[e]
         /\ Row(e).status = "running" <=> state[e] \in InProgress
         /\ state[e] \notin InProgress => Row(e).status = state[e]
<1>1. state[e] \in States
  BY DEF TypeOK, Types
<1> QED
  BY <1>1 DEF Row, States, InProgress

\* Where the rows are after an action.
LEMMA RowsNext ==
  ASSUME TypeOK', (process # "down")', NEW m, NEW at, InOrder(at, m, Stays')
  PROVE  Rows' = [i \in 1..m |-> Row(jobs[at[i]])']
<1>1. Len(jobs') \in Nat /\ Stays' \in SUBSET (1..Len(jobs'))
  BY DEF TypeOK, Types, Stays
<1>2. Cardinality(Stays') = m /\ \A i \in 1..m : Nth(Stays', i) = at[i]
  BY <1>1, NthOnly
<1>3. Rows' = [i \in 1..Cardinality(Stays') |-> Row(jobs[Nth(Stays, i)])']
  BY DEF Rows
<1> QED
  BY <1>2, <1>3 DEF Row

\* The entries of the rows: those listed and not removed, once each.
Shows(of, m) ==
  /\ m \in Nat /\ of \in [1..m -> Entries]
  /\ \A i, k \in 1..m : of[i] = of[k] => i = k
  /\ \A i \in 1..m : of[i] \in Listed /\ ~removed[of[i]]
  /\ \A e \in Listed : ~removed[e] => \E i \in 1..m : of[i] = e

\* While the list names the same entries, each row is of the same entry.
LEMMA RowsInPlace ==
  ASSUME TypeOK, TypeOK', process # "down", (process # "down")', UNCHANGED <<jobs, removed>>
  PROVE  \E m, of :
           /\ Shows(of, m)
           /\ Rows = [i \in 1..m |-> Row(of[i])]
           /\ Rows' = [i \in 1..m |-> Row(of[i])']
<1>1. PICK m, at :
        InOrder(at, m, Stays) /\ Rows = [i \in 1..m |-> Row(jobs[at[i]])]
  BY RowsNow
<1>2. Stays' = Stays
  BY DEF Stays
<1>3. Rows' = [i \in 1..m |-> Row(jobs[at[i]])']
  BY <1>1, <1>2, RowsNext
<1>4. /\ \A k \in Stays : k \in DOMAIN jobs /\ k \in Nat /\ jobs[k] \in Entries /\ ~removed[jobs[k]]
      /\ \A i, k \in DOMAIN jobs : jobs[i] = jobs[k] => i = k
  BY DEF Stays, TypeOK, Types, ListSound
<1>5. /\ m \in Nat /\ at \in [1..m -> Stays]
      /\ \A i, k \in 1..m : i < k => at[i] < at[k]
      /\ \A k \in Stays : \E i \in 1..m : at[i] = k
  BY <1>1 DEF InOrder
<1>6. PICK of : of = [i \in 1..m |-> jobs[at[i]]]
  OBVIOUS
<1>7. of \in [1..m -> Entries]
  BY <1>4, <1>5, <1>6
<1>8. \A i, k \in 1..m : of[i] = of[k] => i = k
  BY <1>4, <1>5, <1>6
<1>9. \A i \in 1..m : of[i] \in Listed /\ ~removed[of[i]]
  BY <1>4, <1>5, <1>6 DEF Listed
<1>10. ASSUME NEW e \in Listed, ~removed[e] PROVE \E i \in 1..m : of[i] = e
  <2>1. PICK k \in DOMAIN jobs : jobs[k] = e
    BY DEF Listed
  <2>2. k \in Stays
    BY <1>10, <2>1 DEF Stays
  <2> QED
    BY <1>5, <1>6, <2>1, <2>2
<1>11. Rows = [i \in 1..m |-> Row(of[i])]
  BY <1>1, <1>6
<1>12. Rows' = [i \in 1..m |-> Row(of[i])']
  BY <1>3, <1>6 DEF Row
<1>13. Shows(of, m)
  BY <1>5, <1>7, <1>8, <1>9, <1>10 DEF Shows
<1> QED
  BY <1>11, <1>12, <1>13

\* One entry changes: so does its row, if it has one.
LEMMA RowChanges ==
  ASSUME TypeOK, TypeOK', process # "down", (process # "down")', UNCHANGED <<jobs, removed>>,
         NEW e \in Entries, \A x \in Entries : x # e => Row(x)' = Row(x)
  PROVE  \/ /\ e \in Listed /\ ~removed[e]
            /\ \E j \in DOMAIN Rows : Rows[j] = Row(e) /\ Rows' = [Rows EXCEPT ![j] = Row(e)']
         \/ (e \notin Listed \/ removed[e]) /\ Rows' = Rows
<1>1. PICK m, of :
        /\ Shows(of, m)
        /\ Rows = [i \in 1..m |-> Row(of[i])]
        /\ Rows' = [i \in 1..m |-> Row(of[i])']
  BY RowsInPlace
<1>0. /\ m \in Nat /\ of \in [1..m -> Entries]
      /\ \A i, k \in 1..m : of[i] = of[k] => i = k
      /\ \A i \in 1..m : of[i] \in Listed /\ ~removed[of[i]]
      /\ \A x \in Listed : ~removed[x] => \E i \in 1..m : of[i] = x
  BY <1>1 DEF Shows
<1>2. \A i \in 1..m : of[i] # e => Row(of[i])' = Row(of[i])
  BY <1>0
<1>3. CASE e \in Listed /\ ~removed[e]
  <2>1. PICK j \in 1..m : of[j] = e
    BY <1>0, <1>3
  <2>2. \A i \in 1..m : i # j => of[i] # e
    BY <1>0, <1>1, <2>1
  <2>3. DOMAIN Rows = 1..m /\ Rows[j] = Row(e)
    BY <1>1, <2>1
  <2>4. Rows' = [i \in 1..m |-> IF i = j THEN Row(e)' ELSE Rows[i]]
    <3>1. \A i \in 1..m : Row(of[i])' = IF i = j THEN Row(e)' ELSE Rows[i]
      BY <1>1, <1>2, <2>1, <2>2
    <3> QED
      BY <1>1, <3>1
  <2>5. Rows' = [Rows EXCEPT ![j] = Row(e)']
    BY <1>1, <2>3, <2>4
  <2> QED
    BY <1>3, <2>3, <2>5
<1>4. CASE e \notin Listed \/ removed[e]
  <2>1. \A i \in 1..m : Row(of[i])' = Row(of[i])
    BY <1>0, <1>2, <1>4
  <2> QED
    BY <1>1, <1>4, <2>1
<1> QED
  BY <1>3, <1>4

\* No entry changes: nor does a row.
LEMMA RowsSame ==
  ASSUME TypeOK, TypeOK', process # "down", (process # "down")', UNCHANGED <<jobs, removed>>,
         \A x \in Entries : Row(x)' = Row(x)
  PROVE  Rows' = Rows
<1>1. PICK m, of :
        /\ Shows(of, m)
        /\ Rows = [i \in 1..m |-> Row(of[i])]
        /\ Rows' = [i \in 1..m |-> Row(of[i])']
  BY RowsInPlace
<1>2. \A i \in 1..m : Row(of[i])' = Row(of[i])
  BY <1>1 DEF Shows
<1> QED
  BY <1>1, <1>2

-----------------------------------------------------------------------------
(* The user's calls.                                                       *)

LEMMA AskAgainStep ==
  ASSUME TypeOK, TypeOK', NEW r \in Requests, EnqueueAgain(r)
  PROVE  List!Ask(r)
<1>1. PICK e \in Entries :
        /\ Matches(r, e) /\ ~Refuses(e)
        /\ state' = [state EXCEPT ![e] = "queued"]
  BY DEF EnqueueAgain
<1>2. UNCHANGED <<jobs, job, removed>> /\ process = "up" /\ process' = "up"
  BY DEF EnqueueAgain, Call
<1>3. /\ e \in Listed /\ ~removed[e] /\ Same(job[e], r)
      /\ state[e] \notin InProgress /\ state[e] # "queued"
  BY <1>1 DEF Matches, Refuses, Listed
<1>4. /\ Row(e)' = [Row(e) EXCEPT !.status = "queued"]
      /\ \A x \in Entries : x # e => Row(x)' = Row(x)
  BY <1>1, <1>2 DEF Row, InProgress, TypeOK, Types
<1>5. PICK j \in DOMAIN Rows : Rows[j] = Row(e) /\ Rows' = [Rows EXCEPT ![j] = Row(e)']
  BY <1>2, <1>3, <1>4, RowChanges
<1>6. List!SameJob(Rows[j].job, r) /\ Rows[j].status \notin {"queued", "running"}
  BY <1>3, <1>5, RowStatus DEF List!SameJob, Same, Row
<1>7. Rows' = [Rows EXCEPT ![j].status = "queued"]
  BY <1>4, <1>5
<1> QED
  BY <1>2, <1>6, <1>7 DEF List!Ask, List!Becomes

LEMMA AskNewStep ==
  ASSUME TypeOK, TypeOK', NEW r \in Requests, EnqueueNew(r)
  PROVE  List!Ask(r)
<1>1. PICK e \in Entries \ (Listed \union Held) :
        /\ jobs' = Append(jobs, e)
        /\ job' = [job EXCEPT ![e] = r]
        /\ state' = [state EXCEPT ![e] = "queued"]
        /\ removed' = [removed EXCEPT ![e] = FALSE]
  BY DEF EnqueueNew
<1>2. process = "up" /\ process' = "up"
  BY DEF EnqueueNew, Call
<1>3. PICK m, at : InOrder(at, m, Stays) /\ Rows = [i \in 1..m |-> Row(jobs[at[i]])]
  BY <1>2, RowsNow
<1>4. /\ m \in Nat /\ at \in [1..m -> Stays]
      /\ \A i, k \in 1..m : i < k => at[i] < at[k]
      /\ \A k \in Stays : \E i \in 1..m : at[i] = k
  BY <1>3 DEF InOrder
<1>5. PICK n : n = Len(jobs)
  OBVIOUS
<1>6. /\ n \in Nat /\ DOMAIN jobs = 1..n /\ DOMAIN jobs' = 1..(n + 1) /\ jobs'[n + 1] = e
      /\ \A i \in 1..n : jobs'[i] = jobs[i] /\ jobs[i] \in Entries /\ jobs[i] # e
  <2>1. jobs \in Seq(Entries) /\ e \in Entries /\ n = Len(jobs)
    BY <1>5 DEF TypeOK, Types
  <2>2. n \in Nat /\ DOMAIN jobs = 1..n
    BY <2>1
  <2>3. \A i \in 1..n : jobs[i] \in Entries /\ jobs[i] # e
    BY <2>1, <2>2 DEF Listed
  <2>4. DOMAIN jobs' = 1..(n + 1) /\ jobs'[n + 1] = e /\ \A i \in 1..n : jobs'[i] = jobs[i]
    BY <1>1, <2>1
  <2> QED
    BY <2>2, <2>3, <2>4
<1>7. Stays' = Stays \union {n + 1} /\ Stays \subseteq 1..n
  <2>1. \A i \in 1..n : removed'[jobs'[i]] = removed[jobs[i]]
    BY <1>1, <1>6 DEF TypeOK, Types
  <2>2. ~removed'[jobs'[n + 1]]
    BY <1>1, <1>6 DEF TypeOK, Types
  <2> QED
    BY <1>6, <2>1, <2>2 DEF Stays
<1>15. \A i \in 1..m : at[i] \in 1..n
  BY <1>4, <1>7
<1>8. PICK to : to = [i \in 1..(m + 1) |-> IF i <= m THEN at[i] ELSE n + 1]
  OBVIOUS
<1>9. InOrder(to, m + 1, Stays')
  <2>1. m + 1 \in Nat /\ to \in [1..(m + 1) -> Stays']
    BY <1>4, <1>7, <1>8
  <2>2. \A i \in 1..m : at[i] < n + 1 /\ to[i] = at[i]
    BY <1>4, <1>6, <1>8, <1>15
  <2>3. to[m + 1] = n + 1
    BY <1>4, <1>8
  <2>4. \A i, k \in 1..(m + 1) : i < k => to[i] < to[k]
    BY <1>4, <2>2, <2>3
  <2>5. \A k \in Stays' : \E i \in 1..(m + 1) : to[i] = k
    BY <1>4, <1>7, <2>2, <2>3
  <2> QED
    BY <2>1, <2>4, <2>5 DEF InOrder
<1>10. Rows' = [i \in 1..(m + 1) |-> Row(jobs[to[i]])']
  BY <1>2, <1>9, RowsNext
<1>11. \A i \in 1..m : Row(jobs[to[i]])' = Rows[i]
  <2> SUFFICES ASSUME NEW i \in 1..m PROVE Row(jobs[to[i]])' = Rows[i]
    OBVIOUS
  <2>1. to[i] = at[i] /\ at[i] \in 1..n
    BY <1>4, <1>8, <1>15
  <2>2. jobs'[to[i]] = jobs[at[i]] /\ jobs[at[i]] \in Entries /\ jobs[at[i]] # e
    BY <1>6, <2>1
  <2>3. job'[jobs[at[i]]] = job[jobs[at[i]]] /\ state'[jobs[at[i]]] = state[jobs[at[i]]]
    BY <1>1, <2>2 DEF TypeOK, Types
  <2> QED
    BY <1>3, <2>2, <2>3 DEF Row
<1>12. Row(jobs[to[m + 1]])' = [job |-> r, status |-> "queued"]
  <2>1. to[m + 1] = n + 1
    BY <1>4, <1>8
  <2>2. job'[e] = r /\ state'[e] = "queued"
    BY <1>1 DEF TypeOK, Types
  <2> QED
    BY <1>6, <2>1, <2>2 DEF Row, InProgress
<1>13. Rows' = Append(Rows, [job |-> r, status |-> "queued"])
  BY <1>3, <1>4, <1>10, <1>11, <1>12
<1>14. \A i \in DOMAIN Rows : ~List!SameJob(Rows[i].job, r)
  <2>1. \A i \in DOMAIN jobs : ~Same(job[jobs[i]], r)
    BY DEF EnqueueNew
  <2> QED
    BY <1>3, <1>4, <1>6, <1>7, <2>1 DEF List!SameJob, Same, Row
<1> QED
  BY <1>2, <1>13, <1>14 DEF List!Ask

LEMMA PauseStep ==
  ASSUME TypeOK, TypeOK', process # "down", (process # "down")', NEW asked, NEW cleared, Halt(asked, cleared)
  PROVE  \E some \in SUBSET DOMAIN Rows : List!Pause(some)
<1>1. /\ UNCHANGED <<jobs, job, removed>>
      /\ state' = [e \in Entries |-> IF e \in asked /\ state[e] = "queued" THEN "paused" ELSE state[e]]
  BY DEF Halt
<1>2. PICK m, of :
        /\ Shows(of, m)
        /\ Rows = [i \in 1..m |-> Row(of[i])]
        /\ Rows' = [i \in 1..m |-> Row(of[i])']
  BY <1>1, RowsInPlace
<1>3. PICK some : some = {i \in 1..m : of[i] \in asked /\ Row(of[i]).status = "queued"}
  OBVIOUS
<1>4. ASSUME NEW i \in 1..m
      PROVE  Row(of[i])' = IF i \in some THEN [Row(of[i]) EXCEPT !.status = "paused"] ELSE Row(of[i])
  <2>1. of[i] \in Entries
    BY <1>2 DEF Shows
  <2>2. state[of[i]] = "queued" <=> Row(of[i]).status = "queued"
    BY <2>1 DEF Row, InProgress
  <2>3. CASE i \in some
    BY <1>1, <1>3, <2>1, <2>2, <2>3 DEF Row, InProgress
  <2>4. CASE i \notin some
    BY <1>1, <1>3, <2>1, <2>2, <2>4 DEF Row
  <2> QED
    BY <2>3, <2>4
<1>5. Rows' = [i \in DOMAIN Rows |-> IF i \in some THEN [Rows[i] EXCEPT !.status = "paused"] ELSE Rows[i]]
  BY <1>2, <1>4
<1>6. some \in SUBSET DOMAIN Rows /\ \A i \in some : Rows[i].status = "queued"
  BY <1>2, <1>3
<1>7. UNCHANGED (process # "down")
  OBVIOUS
<1>8. List!Pause(some)
  BY <1>5, <1>6, <1>7 DEF List!Pause
<1> QED
  BY <1>6, <1>8

LEMMA AdoptStep ==
  ASSUME TypeOK, TypeOK', NEW a \in Accounts, AdoptLegacy(a)
  PROVE  List!Adopt(a)
<1>1. /\ UNCHANGED <<jobs, state, removed>> /\ process = "up" /\ process' = "up"
      /\ job' = [e \in Entries |-> IF e \in Listed /\ job[e].account = NoAccount
                                   THEN [job[e] EXCEPT !.account = a]
                                   ELSE job[e]]
  BY DEF AdoptLegacy, Call
<1>2. PICK m, of :
        /\ Shows(of, m)
        /\ Rows = [i \in 1..m |-> Row(of[i])]
        /\ Rows' = [i \in 1..m |-> Row(of[i])']
  BY <1>1, RowsInPlace
<1>3. ASSUME NEW i \in 1..m
      PROVE  Row(of[i])' = IF Row(of[i]).job.account = NoAccount
                           THEN [Row(of[i]) EXCEPT !.job.account = a]
                           ELSE Row(of[i])
  <2>1. of[i] \in Entries /\ of[i] \in Listed
    BY <1>2 DEF Shows
  <2> QED
    BY <1>1, <2>1 DEF Row
<1>4. Rows' = [i \in DOMAIN Rows |-> IF Rows[i].job.account = NoAccount
                                      THEN [Rows[i] EXCEPT !.job.account = a]
                                      ELSE Rows[i]]
  BY <1>2, <1>3
<1> QED
  BY <1>1, <1>4 DEF List!Adopt

LEMMA MoveStep ==
  ASSUME TypeOK, TypeOK', NEW i \in DOMAIN jobs, NEW k \in DOMAIN jobs, Move(i, k)
  PROVE  \E j, l \in DOMAIN Rows : List!Swap(j, l)
<1>1. /\ UNCHANGED <<job, state, removed>> /\ process = "up" /\ process' = "up"
      /\ jobs' = [jobs EXCEPT ![i] = jobs[k], ![k] = jobs[i]]
      /\ i < k /\ ~removed[jobs[i]] /\ ~removed[jobs[k]]
  BY DEF Move, Call, Shown
<1>2. PICK m, at : InOrder(at, m, Stays) /\ Rows = [x \in 1..m |-> Row(jobs[at[x]])]
  BY <1>1, RowsNow
<1>3. /\ i \in Stays /\ k \in Stays /\ i # k
      /\ DOMAIN jobs' = DOMAIN jobs /\ jobs'[i] = jobs[k] /\ jobs'[k] = jobs[i]
      /\ \A x \in DOMAIN jobs : x # i /\ x # k => jobs'[x] = jobs[x]
  BY <1>1 DEF TypeOK, Types, Stays
<1>4. Stays' = Stays
  BY <1>1, <1>3 DEF Stays
<1>5. Rows' = [x \in 1..m |-> Row(jobs[at[x]])']
  BY <1>1, <1>2, <1>4, RowsNext
<1>6. /\ m \in Nat /\ at \in [1..m -> Stays]
      /\ \A x, y \in 1..m : x < y => at[x] < at[y]
      /\ \A x \in Stays : \E y \in 1..m : at[y] = x
  BY <1>2 DEF InOrder
<1>7. PICK j \in 1..m, l \in 1..m : at[j] = i /\ at[l] = k
  BY <1>3, <1>6
<1>8. \A x \in Stays : x \in Nat /\ x \in DOMAIN jobs
  BY DEF Stays, TypeOK, Types
<1>9. \A x \in 1..m : (at[x] = i => x = j) /\ (at[x] = k => x = l)
  <2>1. ASSUME NEW x \in 1..m, NEW y \in 1..m, at[x] = at[y] PROVE x = y
    <3>1. at[x] \in Nat /\ (x < y => at[x] < at[y]) /\ (y < x => at[y] < at[x])
      BY <1>6, <1>8
    <3> QED
      BY <1>6, <2>1, <3>1
  <2> QED
    BY <1>7, <2>1
<1>10. ASSUME NEW x \in 1..m
       PROVE  Row(jobs[at[x]])' = IF x = l THEN Rows[j] ELSE IF x = j THEN Rows[l] ELSE Rows[x]
  <2>1. at[x] \in DOMAIN jobs
    BY <1>6, <1>8
  <2>2. jobs'[at[x]] = IF x = l THEN jobs[i] ELSE IF x = j THEN jobs[k] ELSE jobs[at[x]]
    BY <1>3, <1>7, <1>9, <2>1
  <2> QED
    BY <1>1, <1>2, <1>7, <2>2 DEF Row
<1>11. Rows' = [Rows EXCEPT ![j] = Rows[l], ![l] = Rows[j]]
  BY <1>2, <1>5, <1>10
<1>12. j \in DOMAIN Rows /\ l \in DOMAIN Rows
  BY <1>2
<1> QED
  BY <1>1, <1>11, <1>12 DEF List!Swap

-----------------------------------------------------------------------------
(* Entries that leave.                                                     *)

\* The entries behind place p move up, and those of them that have a row keep it.
ClosesUp(p) ==
  /\ DOMAIN jobs' = 1..(Len(jobs) - 1)
  /\ \A i \in DOMAIN jobs' :
       /\ jobs'[i] = IF i < p THEN jobs[i] ELSE jobs[i + 1]
       /\ i \in Stays' <=> (IF i < p THEN i ELSE i + 1) \in Stays

LEMMA StaysWithout ==
  ASSUME TypeOK, NEW p \in DOMAIN jobs, jobs' = Without(jobs[p]),
         \A x \in Entries : x # jobs[p] => removed'[x] = removed[x]
  PROVE  ClosesUp(p)
<1>1. PICK n : n = Len(jobs)
  OBVIOUS
<1>2. /\ n \in Nat /\ DOMAIN jobs = 1..n
      /\ \A i \in 1..n : jobs[i] \in Entries
      /\ \A i, k \in 1..n : jobs[i] = jobs[k] => i = k
  <2>1. jobs \in Seq(Entries) /\ \A i, k \in DOMAIN jobs : jobs[i] = jobs[k] => i = k
    BY DEF TypeOK, Types, ListSound
  <2> QED
    BY <1>1, <2>1
<1>3. (CHOOSE i \in DOMAIN jobs : jobs[i] = jobs[p]) = p
  BY <1>2
<1>4. jobs' = [i \in 1..(n - 1) |-> IF i < p THEN jobs[i] ELSE jobs[i + 1]]
  BY <1>1, <1>3 DEF Without, Listed
<1>5. ASSUME NEW i \in 1..(n - 1)
      PROVE  i \in Stays' <=> (IF i < p THEN i ELSE i + 1) \in Stays
  <2>1. PICK q : q = IF i < p THEN i ELSE i + 1
    OBVIOUS
  <2>2. q \in 1..n /\ q # p /\ jobs'[i] = jobs[q]
    BY <1>2, <1>4, <2>1
  <2>3. jobs[q] \in Entries /\ jobs[q] # jobs[p]
    BY <1>2, <2>2
  <2>4. removed'[jobs'[i]] = removed[jobs[q]]
    BY <2>2, <2>3
  <2>5. i \in Stays' <=> ~removed'[jobs'[i]]
    BY <1>4 DEF Stays
  <2>6. q \in Stays <=> ~removed[jobs[q]]
    BY <1>2, <2>2 DEF Stays
  <2> QED
    BY <2>1, <2>4, <2>5, <2>6
<1> QED
  BY <1>1, <1>4, <1>5 DEF ClosesUp

\* An entry that has no row leaves: the rows are one place nearer the head.
LEMMA RowsWithout ==
  ASSUME TypeOK, TypeOK', process # "down", (process # "down")', UNCHANGED <<job, state, removed>>,
         NEW p \in DOMAIN jobs, removed[jobs[p]], jobs' = Without(jobs[p])
  PROVE  Rows' = Rows
<1>1. PICK m, at : InOrder(at, m, Stays) /\ Rows = [i \in 1..m |-> Row(jobs[at[i]])]
  BY RowsNow
<1>2. /\ m \in Nat /\ at \in [1..m -> Stays]
      /\ \A i, k \in 1..m : i < k => at[i] < at[k]
      /\ \A k \in Stays : \E i \in 1..m : at[i] = k
  BY <1>1 DEF InOrder
<1>3. PICK n : n = Len(jobs)
  OBVIOUS
<1>4. n \in Nat /\ DOMAIN jobs = 1..n
  BY <1>3 DEF TypeOK, Types
<1>5. /\ DOMAIN jobs' = 1..(n - 1)
      /\ \A i \in 1..(n - 1) : /\ jobs'[i] = IF i < p THEN jobs[i] ELSE jobs[i + 1]
                               /\ i \in Stays' <=> (IF i < p THEN i ELSE i + 1) \in Stays
  <2>1. \A x \in Entries : x # jobs[p] => removed'[x] = removed[x]
    OBVIOUS
  <2>2. ClosesUp(p)
    BY <2>1, StaysWithout
  <2> QED
    BY <1>3, <2>2 DEF ClosesUp
<1>6. Stays \subseteq (1..n) \ {p} /\ Stays' \subseteq 1..(n - 1)
  BY <1>4, <1>5 DEF Stays
<1>7. PICK to : to = [i \in 1..m |-> IF at[i] < p THEN at[i] ELSE at[i] - 1]
  OBVIOUS
<1>8. \A i \in 1..m : at[i] \in Stays /\ at[i] \in 1..n /\ at[i] # p
  BY <1>2, <1>6
<1>9. ASSUME NEW i \in 1..m
      PROVE  to[i] \in Stays' /\ jobs'[to[i]] = jobs[at[i]]
  <2>1. at[i] \in Stays /\ at[i] \in 1..n /\ at[i] # p
    BY <1>8
  <2>2. CASE at[i] < p
    <3>1. to[i] = at[i] /\ to[i] \in 1..(n - 1)
      BY <1>4, <1>7, <2>1, <2>2
    <3> QED
      BY <1>5, <2>1, <2>2, <3>1
  <2>3. CASE ~(at[i] < p)
    <3>1. to[i] = at[i] - 1 /\ to[i] \in 1..(n - 1) /\ ~(to[i] < p) /\ to[i] + 1 = at[i]
      BY <1>4, <1>7, <2>1, <2>3
    <3> QED
      BY <1>5, <2>1, <3>1
  <2> QED
    BY <2>2, <2>3
<1>10. \A i, k \in 1..m : i < k => to[i] < to[k]
  BY <1>2, <1>4, <1>7, <1>8
<1>11. ASSUME NEW k \in Stays' PROVE \E i \in 1..m : to[i] = k
  <2>1. PICK q : q = IF k < p THEN k ELSE k + 1
    OBVIOUS
  <2>2. k \in 1..(n - 1) /\ q \in Stays
    BY <1>5, <1>6, <2>1
  <2>3. PICK i \in 1..m : at[i] = q
    BY <1>2, <2>2
  <2>4. to[i] = k
    BY <1>4, <1>7, <2>1, <2>2, <2>3
  <2> QED
    BY <2>4
<1>12. to \in [1..m -> Stays']
  <2>1. to = [i \in 1..m |-> to[i]]
    BY <1>7
  <2> QED
    BY <1>9, <2>1
<1>13. InOrder(to, m, Stays')
  BY <1>2, <1>10, <1>11, <1>12 DEF InOrder
<1>14. Rows' = [i \in 1..m |-> Row(jobs[to[i]])']
  BY <1>13, RowsNext
<1>15. \A i \in 1..m : Row(jobs[to[i]])' = Row(jobs[at[i]])
  BY <1>9 DEF Row
<1> QED
  BY <1>1, <1>14, <1>15

\* An entry that has a row is removed at once: the rows behind it move up, in
\* the list as well.
LEMMA DropLeaves ==
  ASSUME TypeOK, TypeOK', process # "down", (process # "down")', UNCHANGED <<job, state>>,
         NEW p \in DOMAIN jobs, ~removed[jobs[p]], jobs' = Without(jobs[p]),
         removed' = [removed EXCEPT ![jobs[p]] = TRUE]
  PROVE  \E j \in DOMAIN Rows : List!Drop(j)
<1>1. PICK m, at : InOrder(at, m, Stays) /\ Rows = [i \in 1..m |-> Row(jobs[at[i]])]
  BY RowsNow
<1>2. /\ m \in Nat /\ at \in [1..m -> Stays]
      /\ \A i, k \in 1..m : i < k => at[i] < at[k]
      /\ \A k \in Stays : \E i \in 1..m : at[i] = k
  BY <1>1 DEF InOrder
<1>3. PICK n : n = Len(jobs)
  OBVIOUS
<1>4. n \in Nat /\ DOMAIN jobs = 1..n
  BY <1>3 DEF TypeOK, Types
<1>5. /\ DOMAIN jobs' = 1..(n - 1)
      /\ \A i \in 1..(n - 1) : /\ jobs'[i] = IF i < p THEN jobs[i] ELSE jobs[i + 1]
                               /\ i \in Stays' <=> (IF i < p THEN i ELSE i + 1) \in Stays
  <2>1. \A x \in Entries : x # jobs[p] => removed'[x] = removed[x]
    BY DEF TypeOK, Types
  <2>2. ClosesUp(p)
    BY <2>1, StaysWithout
  <2> QED
    BY <1>3, <2>2 DEF ClosesUp
<1>6. Stays \subseteq 1..n /\ p \in Stays /\ Stays' \subseteq 1..(n - 1)
  BY <1>4, <1>5 DEF Stays
<1>7. PICK j \in 1..m : at[j] = p
  BY <1>2, <1>6
<1>8. PICK to : to = [i \in 1..(m - 1) |-> IF i < j THEN at[i] ELSE at[i + 1] - 1]
  OBVIOUS
<1>9. \A i \in 1..m : /\ at[i] \in Stays /\ at[i] \in 1..n
                      /\ i < j => at[i] < p
                      /\ j < i => p < at[i]
  BY <1>2, <1>6, <1>7
<1>10. ASSUME NEW i \in 1..(m - 1)
       PROVE  to[i] \in Stays' /\ jobs'[to[i]] = jobs[at[IF i < j THEN i ELSE i + 1]]
  <2>1. CASE i < j
    <3>1. at[i] \in Stays /\ at[i] \in 1..n /\ at[i] < p
      BY <1>2, <1>9, <2>1
    <3>2. to[i] = at[i] /\ to[i] \in 1..(n - 1)
      BY <1>4, <1>8, <2>1, <3>1
    <3> QED
      BY <1>5, <2>1, <3>1, <3>2
  <2>2. CASE ~(i < j)
    <3>1. at[i + 1] \in Stays /\ at[i + 1] \in 1..n /\ p < at[i + 1]
      BY <1>2, <1>7, <1>9, <2>2
    <3>2. to[i] = at[i + 1] - 1 /\ to[i] \in 1..(n - 1) /\ ~(to[i] < p) /\ to[i] + 1 = at[i + 1]
      BY <1>4, <1>8, <2>2, <3>1
    <3> QED
      BY <1>5, <2>2, <3>1, <3>2
  <2> QED
    BY <2>1, <2>2
<1>11. ASSUME NEW i \in 1..(m - 1), NEW k \in 1..(m - 1), i < k PROVE to[i] < to[k]
  <2>1. CASE k < j
    BY <1>2, <1>8, <1>11, <2>1
  <2>2. CASE ~(k < j) /\ i < j
    <3>1. at[i] \in 1..n /\ at[i] < p /\ at[k + 1] \in 1..n /\ p < at[k + 1]
      BY <1>2, <1>7, <1>9, <2>2
    <3> QED
      BY <1>4, <1>8, <2>2, <3>1
  <2>3. CASE ~(i < j)
    <3>1. at[i + 1] < at[k + 1] /\ at[i + 1] \in 1..n /\ at[k + 1] \in 1..n
      BY <1>2, <1>7, <1>9, <1>11, <2>3
    <3>2. ~(k < j)
      BY <1>2, <1>7, <1>11, <2>3
    <3> QED
      BY <1>4, <1>8, <2>3, <3>1, <3>2
  <2> QED
    BY <1>2, <1>7, <1>11, <2>1, <2>2, <2>3
<1>12. ASSUME NEW k \in Stays' PROVE \E i \in 1..(m - 1) : to[i] = k
  <2>1. PICK q : q = IF k < p THEN k ELSE k + 1
    OBVIOUS
  <2>2. k \in 1..(n - 1) /\ q \in Stays
    BY <1>5, <1>6, <2>1
  <2>3. PICK i \in 1..m : at[i] = q
    BY <1>2, <2>2
  <2>4. CASE i < j
    <3>1. i \in 1..(m - 1) /\ to[i] = at[i] /\ at[i] < p
      BY <1>2, <1>7, <1>8, <1>9, <2>4
    <3> QED
      BY <1>4, <2>1, <2>2, <2>3, <3>1
  <2>5. CASE ~(i < j)
    <3>1. i # j
      BY <1>4, <1>7, <2>1, <2>2, <2>3
    <3>2. i - 1 \in 1..(m - 1) /\ ~(i - 1 < j) /\ (i - 1) + 1 = i
      BY <1>2, <1>7, <2>5, <3>1
    <3>3. to[i - 1] = at[i] - 1 /\ p < at[i]
      BY <1>2, <1>7, <1>8, <1>9, <2>5, <3>1, <3>2
    <3>4. to[i - 1] = k
      BY <1>4, <2>1, <2>2, <2>3, <3>3
    <3> QED
      BY <3>2, <3>4
  <2> QED
    BY <2>4, <2>5
<1>13. to \in [1..(m - 1) -> Stays'] /\ m - 1 \in Nat
  <2>1. to = [i \in 1..(m - 1) |-> to[i]]
    BY <1>8
  <2> QED
    BY <1>2, <1>7, <1>10, <2>1
<1>14. InOrder(to, m - 1, Stays')
  BY <1>11, <1>12, <1>13 DEF InOrder
<1>15. Rows' = [i \in 1..(m - 1) |-> Row(jobs[to[i]])']
  BY <1>14, RowsNext
<1>16. ASSUME NEW i \in 1..(m - 1)
       PROVE  Row(jobs[to[i]])' = IF i < j THEN Rows[i] ELSE Rows[i + 1]
  <2>1. PICK q : q = IF i < j THEN i ELSE i + 1
    OBVIOUS
  <2>2. q \in 1..m /\ Rows[q] = IF i < j THEN Rows[i] ELSE Rows[i + 1]
    BY <1>2, <1>7, <2>1
  <2>3. jobs'[to[i]] = jobs[at[q]]
    BY <1>10, <2>1
  <2>4. Rows[q] = Row(jobs[at[q]])
    BY <1>1, <2>2
  <2> QED
    BY <2>2, <2>3, <2>4 DEF Row
<1>17. Rows' = [i \in 1..(Len(Rows) - 1) |-> IF i < j THEN Rows[i] ELSE Rows[i + 1]]
  <2>1. Len(Rows) = m
    BY <1>1, <1>2
  <2> QED
    BY <1>15, <1>16, <2>1
<1>18. j \in DOMAIN Rows
  BY <1>1
<1>19. UNCHANGED (process # "down")
  OBVIOUS
<1> QED
  BY <1>17, <1>18, <1>19 DEF List!Drop

\* An entry that has a row is removed while it is installed: it stays in the
\* list, but its row goes.
LEMMA DropStays ==
  ASSUME TypeOK, TypeOK', process # "down", (process # "down")', UNCHANGED <<jobs, job, state>>,
         NEW p \in DOMAIN jobs, ~removed[jobs[p]], removed' = [removed EXCEPT ![jobs[p]] = TRUE]
  PROVE  \E j \in DOMAIN Rows : List!Drop(j)
<1>1. PICK m, at : InOrder(at, m, Stays) /\ Rows = [i \in 1..m |-> Row(jobs[at[i]])]
  BY RowsNow
<1>2. /\ m \in Nat /\ at \in [1..m -> Stays]
      /\ \A i, k \in 1..m : i < k => at[i] < at[k]
      /\ \A k \in Stays : \E i \in 1..m : at[i] = k
  BY <1>1 DEF InOrder
<1>3. /\ \A i \in DOMAIN jobs : i \in Nat /\ jobs[i] \in Entries
      /\ \A i, k \in DOMAIN jobs : jobs[i] = jobs[k] => i = k
  BY DEF TypeOK, Types, ListSound
<1>4. p \in Stays /\ Stays' = Stays \ {p} /\ Stays \subseteq DOMAIN jobs
  <2>1. \A i \in DOMAIN jobs : removed'[jobs[i]] <=> removed[jobs[i]] \/ i = p
    BY <1>3 DEF TypeOK, Types
  <2> QED
    BY <2>1 DEF Stays
<1>5. PICK j \in 1..m : at[j] = p
  BY <1>2, <1>4
<1>6. PICK to : to = [i \in 1..(m - 1) |-> IF i < j THEN at[i] ELSE at[i + 1]]
  OBVIOUS
<1>7. \A i \in 1..m : at[i] \in Nat /\ (at[i] = p => i = j)
  BY <1>2, <1>3, <1>4, <1>5
<1>8. to \in [1..(m - 1) -> Stays'] /\ m - 1 \in Nat
  <2>1. m - 1 \in Nat
    BY <1>2, <1>5
  <2>2. ASSUME NEW i \in 1..(m - 1) PROVE (IF i < j THEN at[i] ELSE at[i + 1]) \in Stays'
    <3>1. PICK k : k = IF i < j THEN i ELSE i + 1
      OBVIOUS
    <3>2. k \in 1..m /\ k # j
      BY <1>2, <1>5, <3>1
    <3>3. at[k] \in Stays /\ at[k] # p
      BY <1>2, <1>7, <3>2
    <3> QED
      BY <1>4, <3>1, <3>3
  <2> QED
    BY <1>6, <2>1, <2>2
<1>9. \A i, k \in 1..(m - 1) : i < k => to[i] < to[k]
  <2> SUFFICES ASSUME NEW i \in 1..(m - 1), NEW k \in 1..(m - 1), i < k PROVE to[i] < to[k]
    OBVIOUS
  <2>1. PICK x, y : x = (IF i < j THEN i ELSE i + 1) /\ y = (IF k < j THEN k ELSE k + 1)
    OBVIOUS
  <2>2. x \in 1..m /\ y \in 1..m /\ x < y
    BY <1>2, <1>5, <2>1
  <2>3. to[i] = at[x] /\ to[k] = at[y]
    BY <1>6, <2>1
  <2> QED
    BY <1>2, <2>2, <2>3
<1>10. ASSUME NEW k \in Stays' PROVE \E i \in 1..(m - 1) : to[i] = k
  <2>1. PICK i \in 1..m : at[i] = k /\ i # j
    BY <1>2, <1>4, <1>5
  <2>2. PICK x : x = IF i < j THEN i ELSE i - 1
    OBVIOUS
  <2>3. x \in 1..(m - 1) /\ i = IF x < j THEN x ELSE x + 1
    BY <1>2, <1>5, <2>1, <2>2
  <2> QED
    BY <1>6, <2>1, <2>3
<1>11. InOrder(to, m - 1, Stays')
  BY <1>8, <1>9, <1>10 DEF InOrder
<1>12. Rows' = [i \in 1..(m - 1) |-> Row(jobs[to[i]])']
  BY <1>11, RowsNext
<1>13. ASSUME NEW i \in 1..(m - 1)
       PROVE  Row(jobs[to[i]])' = IF i < j THEN Rows[i] ELSE Rows[i + 1]
  BY <1>1, <1>2, <1>5, <1>6 DEF Row
<1>14. Rows' = [i \in 1..(Len(Rows) - 1) |-> IF i < j THEN Rows[i] ELSE Rows[i + 1]]
  <2>1. Len(Rows) = m
    BY <1>1, <1>2
  <2> QED
    BY <1>12, <1>13, <2>1
<1>15. j \in DOMAIN Rows /\ UNCHANGED (process # "down")
  BY <1>1
<1> QED
  BY <1>14, <1>15 DEF List!Drop

LEMMA DropStep ==
  ASSUME TypeOK, TypeOK', NEW e \in Entries, NEW withFiles \in BOOLEAN, Remove(e, withFiles)
  PROVE  \E j \in DOMAIN Rows : List!Drop(j)
<1>1. PICK p \in DOMAIN jobs : jobs[p] = e /\ ~removed[e]
  BY DEF Remove
<1>2. /\ UNCHANGED <<job, state>> /\ process = "up" /\ process' = "up"
      /\ removed' = [removed EXCEPT ![e] = TRUE]
      /\ jobs' = jobs \/ jobs' = Without(e)
  BY DEF Remove, Call
<1>3. CASE jobs' = jobs
  BY <1>1, <1>2, <1>3, DropStays
<1>4. CASE jobs' = Without(e)
  BY <1>1, <1>2, <1>4, DropLeaves
<1> QED
  BY <1>2, <1>3, <1>4

-----------------------------------------------------------------------------
(* The end of the process, and its next start.                             *)

\* The two modules count alike.
LEMMA CountAlike == \A S : List!Cardinality(S) = Cardinality(S)
BY DEF List!Cardinality, Cardinality

LEMMA FallStep ==
  ASSUME TypeOK, UpToDate, ~stale, process # "down", Forget, UNCHANGED fileVars
  PROVE  List!Fall
<1>1. PICK m, at : InOrder(at, m, Stays) /\ Rows = [i \in 1..m |-> Row(jobs[at[i]])]
  BY RowsNow
<1>2. /\ m \in Nat /\ at \in [1..m -> Stays]
      /\ \A i, k \in 1..m : i < k => at[i] < at[k]
      /\ \A k \in Stays : \E i \in 1..m : at[i] = k
  BY <1>1 DEF InOrder
<1>3. PICK n : n = Len(jobs)
  OBVIOUS
<1>4. n \in Nat /\ Kept \in SUBSET (1..n) /\ Kept \subseteq Stays /\ Stays \subseteq 1..n
  BY <1>3 DEF TypeOK, Types, Kept, Stays
<1>5. PICK c : c = Cardinality(Kept)
  OBVIOUS
<1>6. c \in Nat
  BY <1>4, <1>5, UptoSize, FS_Subset, FS_CardinalityType
<1>7. /\ \A i \in 1..c : Nth(Kept, i) \in Kept
      /\ \A i, k \in 1..c : i < k => Nth(Kept, i) < Nth(Kept, k)
      /\ \A k \in Kept : Rank(Kept, k) \in 1..c /\ Nth(Kept, Rank(Kept, k)) = k
  BY <1>4, <1>5, NthOrder
<1>8. PICK nth : nth = [i \in 1..c |-> Nth(Kept, i)]
  OBVIOUS
<1>9. PICK to : to = [i \in 1..c |-> CHOOSE k \in 1..m : at[k] = nth[i]]
  OBVIOUS
<1>10. ASSUME NEW i \in 1..c PROVE to[i] \in 1..m /\ at[to[i]] = nth[i] /\ nth[i] \in Kept
  <2>1. nth[i] \in Kept /\ nth[i] \in Stays
    BY <1>4, <1>7, <1>8
  <2>2. \E k \in 1..m : at[k] = nth[i]
    BY <1>2, <2>1
  <2> QED
    BY <1>9, <2>1, <2>2
<1> DEFINE Left == {i \in DOMAIN Rows : Rows[i].status # "complete"}
<1>11. Left \in SUBSET (1..m) /\ \A i \in 1..m : i \in Left <=> at[i] \in Kept
  <2>1. ASSUME NEW i \in 1..m PROVE Rows[i].status # "complete" <=> at[i] \in Kept
    <3>1. at[i] \in DOMAIN jobs /\ ~removed[jobs[at[i]]] /\ jobs[at[i]] \in Entries
      BY <1>2 DEF Stays, TypeOK, Types
    <3>2. Rows[i].status = "complete" <=> state[jobs[at[i]]] = "complete"
      BY <1>1 DEF Row, InProgress
    <3> QED
      BY <3>1, <3>2 DEF Kept
  <2> QED
    BY <1>1, <2>1
<1> HIDE DEF Left
<1>12. \A i \in 1..m : at[i] \in Nat
  <2>1. \A k \in Stays : k \in Nat
    BY <1>4
  <2> QED
    BY <1>2, <2>1
<1>13. \A i, k \in 1..m : at[i] = at[k] => i = k
  BY <1>2, <1>12
<1>14. to \in [1..c -> Left]
  BY <1>9, <1>10, <1>11
<1>15. \A i, k \in 1..c : i < k => to[i] < to[k]
  <2> SUFFICES ASSUME NEW i \in 1..c, NEW k \in 1..c, i < k PROVE to[i] < to[k]
    OBVIOUS
  <2>1. at[to[i]] < at[to[k]]
    BY <1>7, <1>8, <1>10
  <2>2. to[i] \in 1..m /\ to[k] \in 1..m
    BY <1>10
  <2>3. to[k] < to[i] => at[to[k]] < at[to[i]]
    BY <1>2, <2>2
  <2> QED
    BY <1>12, <2>1, <2>2, <2>3
<1>16. ASSUME NEW k \in Left PROVE \E i \in 1..c : to[i] = k
  <2>1. k \in 1..m /\ at[k] \in Kept
    BY <1>11
  <2>2. PICK i \in 1..c : nth[i] = at[k]
    BY <1>7, <1>8, <2>1
  <2> QED
    BY <1>10, <1>13, <2>1, <2>2
<1>17. InOrder(to, c, Left)
  BY <1>6, <1>14, <1>15, <1>16 DEF InOrder
<1>18. Cardinality(Left) = c
  BY <1>2, <1>11, <1>17, NthOnly
<1>19. saved = [i \in 1..c |-> job[jobs[at[to[i]]]]]
  BY <1>5, <1>8, <1>10 DEF UpToDate, Unfinished
<1>20. Rows' = [i \in 1..c |-> [job |-> job[jobs[at[to[i]]]], status |-> "paused"]]
  <2>1. process' = "down" /\ saved' = saved
    BY DEF Forget, fileVars
  <2>2. Rows' = [i \in DOMAIN saved |-> [job |-> saved[i], status |-> "paused"]]
    BY <2>1 DEF Rows
  <2> QED
    BY <1>19, <2>2
<1>21. \A i \in 1..c : Rows[to[i]].job = job[jobs[at[to[i]]]]
  BY <1>1, <1>10 DEF Row
<1>22. DOMAIN to = 1..c
  BY <1>9
<1>23. Rows' = List!Halted([i \in DOMAIN to |-> Rows[to[i]].job])
  BY <1>20, <1>21, <1>22 DEF List!Halted
<1>24. /\ to \in [1..Cardinality(Left) -> Left]
       /\ \A i, k \in DOMAIN to : i < k => to[i] < to[k]
  BY <1>14, <1>15, <1>18, <1>22
<1>25. (process # "down") /\ (process # "down")' = FALSE
  BY DEF Forget
<1>26. \E f \in [1..List!Cardinality(Left) -> Left] :
          /\ \A i, k \in DOMAIN f : i < k => f[i] < f[k]
          /\ Rows' = List!Halted([i \in DOMAIN f |-> Rows[f[i]].job])
  BY <1>23, <1>24, CountAlike
<1> QED
  BY <1>25, <1>26 DEF List!Fall, Left

\* A list just read from a file shows the file's jobs, each at its place.
LEMMA FirstPlaces ==
  ASSUME NEW n \in Nat
  PROVE  Cardinality(1..n) = n /\ \A i \in 1..n : Nth(1..n, i) = i
<1>1. PICK at : at = [i \in 1..n |-> i]
  OBVIOUS
<1>2. InOrder(at, n, 1..n)
  BY <1>1 DEF InOrder
<1>3. Cardinality(1..n) = n /\ \A i \in 1..n : Nth(1..n, i) = at[i]
  BY <1>2, NthOnly
<1> QED
  BY <1>1, <1>3

\* The rows of a list that was just read.
Fresh(r) == [i \in DOMAIN r |-> [job |-> r[i], status |-> "paused"]]

LEMMA FreshRows ==
  ASSUME NEW r \in Seq(Job), DOMAIN jobs = 1..Len(r),
         \A i \in 1..Len(r) : jobs[i] = i /\ job[i] = r[i] /\ ~removed[i] /\ state[i] = "paused"
  PROVE  /\ Stays = 1..Len(r)
         /\ [i \in 1..Cardinality(Stays) |-> Row(jobs[Nth(Stays, i)])] = Fresh(r)
<1>1. PICK n : n = Len(r)
  OBVIOUS
<1>2. n \in Nat /\ DOMAIN r = 1..n
  BY <1>1
<1>3. Stays = 1..n
  BY <1>1, <1>2 DEF Stays
<1>4. \A i \in 1..n : Row(jobs[i]) = [job |-> r[i], status |-> "paused"]
  BY <1>1 DEF Row, InProgress
<1>5. Cardinality(1..n) = n /\ \A i \in 1..n : Nth(1..n, i) = i
  BY <1>2, FirstPlaces
<1>6. [i \in 1..Cardinality(Stays) |-> Row(jobs[Nth(Stays, i)])] = [i \in 1..n |-> Row(jobs[i])]
  BY <1>3, <1>5
<1> QED
  BY <1>1, <1>2, <1>3, <1>4, <1>6 DEF Fresh

\* What a start forgets of the file, it forgets of the rows.
LEMMA FreshForgets ==
  ASSUME NEW file \in Seq(Job), NEW r \in Read(file)
  PROVE  Fresh(r) \in List!Back(Fresh(file))
<1>1. CASE r = file /\ ~ReadsMayFail
  BY <1>1 DEF List!Back
<1>2. CASE ReadsMayFail /\ r \in Excerpts(file)
  <2>1. PICK at \in UNION {[1..m -> DOMAIN file] : m \in 0..Len(file)} :
          (\A i, k \in DOMAIN at : i < k => at[i] < at[k]) /\ r = [i \in DOMAIN at |-> file[at[i]]]
    BY <1>2 DEF Excerpts
  <2>2. \A i \in DOMAIN at : at[i] \in DOMAIN file
    BY <2>1
  <2>3. PICK F : F = Fresh(file)
    OBVIOUS
  <2>4. DOMAIN F = DOMAIN file /\ Len(F) = Len(file)
    BY <2>3 DEF Fresh
  <2>5. Fresh(r) = [i \in DOMAIN at |-> F[at[i]]]
    BY <2>1, <2>2, <2>3 DEF Fresh
  <2>6. at \in UNION {[1..m -> DOMAIN F] : m \in 0..Len(F)}
    BY <2>4
  <2>7. \A i, k \in DOMAIN at : i < k => at[i] < at[k]
    BY <2>1
  <2>8. Fresh(r) \in List!Some(F)
    BY <2>5, <2>6, <2>7 DEF List!Some
  <2> QED
    BY <1>2, <2>3, <2>8 DEF List!Back
<1> QED
  BY <1>1, <1>2 DEF Read

LEMMA ListStarts == Init => List!ListInit
<1> SUFFICES ASSUME Init PROVE List!ListInit
  OBVIOUS
<1>1. PICK r \in Read(Restored) : jobs = StartJobs(r) /\ job = StartJob(r)
  BY DEF Init
<1>2. r \in Seq(Job) /\ Len(r) <= MaxEntries
  BY ReadRows, QueueAssumption
<1>3. /\ DOMAIN jobs = 1..Len(r)
      /\ \A i \in 1..Len(r) : jobs[i] = i /\ job[i] = r[i] /\ ~removed[i] /\ state[i] = "paused"
  BY <1>1, <1>2, StartsList DEF Init
<1>4. Rows = Fresh(r) /\ process # "down"
  BY <1>2, <1>3, FreshRows DEF Rows, Init
<1>5. r \in List!Back(Restored)
  BY DEF Read, Excerpts, List!Back, List!Some
<1>6. Fresh(r) = List!Halted(r)
  BY DEF Fresh, List!Halted
<1> QED
  BY <1>4, <1>5, <1>6 DEF List!ListInit

LEMMA RiseStep ==
  ASSUME TypeOK, TypeOK', Restart
  PROVE  List!Rise
<1>1. PICK r \in Read(saved) : jobs' = StartJobs(r) /\ job' = StartJob(r)
  BY DEF Restart
<1>2. saved \in Seq(Job) /\ r \in Seq(Job) /\ Len(r) <= MaxEntries
  BY ReadRows DEF TypeOK, Types
<1>3. process = "down" /\ process' = "up" /\ UNCHANGED <<state, removed>>
  BY DEF Restart
<1>4. \A e \in Entries : state[e] = "paused" /\ ~removed[e]
  BY <1>3 DEF TypeOK, DownIsEmpty
<1>5. PICK n : n = Len(r)
  OBVIOUS
<1>6. n \in Nat /\ DOMAIN r = 1..n
  BY <1>2, <1>5
<1>7. DOMAIN jobs' = 1..n /\ \A i \in 1..n : jobs'[i] = i /\ job'[i] = r[i] /\ ~removed'[i] /\ state'[i] = "paused"
  BY <1>1, <1>2, <1>3, <1>4, <1>5, StartsList
<1>8. InOrder([i \in 1..n |-> i], n, Stays')
  <2>1. Stays' = 1..n
    BY <1>7 DEF Stays
  <2> QED
    BY <1>6, <2>1 DEF InOrder
<1>9. Rows' = [i \in 1..n |-> Row(jobs[[k \in 1..n |-> k][i]])']
  BY <1>3, <1>8, RowsNext
<1>10. \A i \in 1..n : Row(jobs[i])' = [job |-> r[i], status |-> "paused"]
  BY <1>7 DEF Row, InProgress
<1>11. Rows' = Fresh(r)
  BY <1>6, <1>9, <1>10 DEF Fresh
<1>12. Rows = Fresh(saved)
  BY <1>3 DEF Rows, Fresh
<1>13. Fresh(r) \in List!Back(Fresh(saved))
  BY <1>2, FreshForgets
<1> QED
  BY <1>3, <1>11, <1>12, <1>13 DEF List!Rise

-----------------------------------------------------------------------------
(* The workers.                                                            *)

\* A removed entry is not queued again, and no more jobs run at once than there
\* are workers.
Startables ==
  /\ \A e \in Listed : removed[e] => state[e] # "queued"
  /\ parallel <= Cardinality(Workers)

LEMMA BeginStep ==
  ASSUME TypeOK, TypeOK', Startables, NEW w \in Workers, Take(w)
  PROVE  \E j \in DOMAIN Rows : List!Begin(j)
<1>1. PICK e \in Entries : NextJob(e) /\ state' = [state EXCEPT ![e] = "checking"]
  BY DEF Take
<1>2. UNCHANGED <<jobs, job, removed>> /\ process = "up" /\ process' = "up"
  BY DEF Take
<1>3. /\ e \in Listed /\ state[e] = "queued" /\ ~removed[e]
      /\ \A f \in Running : job[f].app # job[e].app
      /\ Cardinality(Running) < parallel
  BY <1>1 DEF NextJob, Startable, Startables, Listed
<1>4. /\ Row(e)' = [Row(e) EXCEPT !.status = "running"]
      /\ \A x \in Entries : x # e => Row(x)' = Row(x)
  BY <1>1, <1>2 DEF Row, InProgress, TypeOK, Types
<1>5. PICK j \in DOMAIN Rows : Rows[j] = Row(e) /\ Rows' = [Rows EXCEPT ![j] = Row(e)']
  BY <1>2, <1>3, <1>4, RowChanges
<1>6. Rows[j].status = "queued" /\ Rows' = [Rows EXCEPT ![j].status = "running"]
  BY <1>3, <1>4, <1>5, RowStatus DEF InProgress
<1>7. PICK m, of : Shows(of, m) /\ Rows = [i \in 1..m |-> Row(of[i])]
  BY <1>2, RowsInPlace
<1>8. ASSUME NEW k \in List!Going
      PROVE  k \in 1..m /\ of[k] \in Running /\ Rows[k].job = job[of[k]]
  <2>1. k \in 1..m /\ Row(of[k]).status = "running" /\ Rows[k].job = job[of[k]]
    BY <1>7 DEF List!Going, Row
  <2>2. of[k] \in Entries /\ of[k] \in Listed
    BY <1>7, <2>1 DEF Shows
  <2> QED
    BY <2>1, <2>2, RowStatus DEF Running
<1>9. \A k \in List!Going : Rows[k].job.app # Rows[j].job.app
  BY <1>3, <1>5, <1>8 DEF Row
<1>10. Cardinality(List!Going) < Cardinality(Workers)
  <2>1. [k \in List!Going |-> of[k]] \in Injection(List!Going, Running)
    BY <1>7, <1>8 DEF Injection, IsInjective, Shows
  <2>2. IsFiniteSet(Running)
    <3>1. Running \subseteq Entries
      BY ListedTyped DEF Running
    <3>2. IsFiniteSet(Entries)
      BY UptoSize, QueueAssumption DEF Entries
    <3> QED
      BY <3>1, <3>2, FS_Subset
  <2>3. IsFiniteSet(List!Going) /\ Cardinality(List!Going) <= Cardinality(Running)
    BY <2>1, <2>2, FS_Injection
  <2>4. Cardinality(List!Going) \in Nat /\ Cardinality(Running) \in Nat /\ Cardinality(Workers) \in Nat
    BY <2>2, <2>3, FS_CardinalityType, QueueAssumption
  <2>5. parallel \in Nat /\ parallel <= Cardinality(Workers)
    BY DEF TypeOK, Types, Startables
  <2> QED
    BY <1>3, <2>3, <2>4, <2>5
<1> QED
  BY <1>2, <1>5, <1>6, <1>9, <1>10, CountAlike DEF List!Begin, List!Becomes

\* What a worker that installs does to its entry shows in its row, unless the
\* user removed the job.
LEMMA NameStep ==
  ASSUME TypeOK, TypeOK', Work, NEW w \in Workers, Plan(w)
  PROVE  (\E j \in DOMAIN Rows : List!Name(j)) \/ Rows' = Rows
<1>1. PICK e : e = mine[w]
  OBVIOUS
<1>2. /\ UNCHANGED <<jobs, state, removed, process>> /\ pc[w] = "install"
      /\ job' = [job EXCEPT ![e].named = TRUE]
  BY <1>1 DEF Plan
<1>3. process # "down" /\ process' # "down" /\ Installing(w) /\ e \in Entries /\ state[e] \in InProgress
  BY <1>1, <1>2 DEF TypeOK, Types, DownIsEmpty, WorkersHold, Installing, Work, OneWorkerPerEntry
<1>4. /\ Row(e)' = [Row(e) EXCEPT !.job.named = TRUE]
      /\ \A x \in Entries : x # e => Row(x)' = Row(x)
  <2>1. job \in [Entries -> Job \union {None}]
    BY DEF TypeOK, Types
  <2>2. job'[e] = [job[e] EXCEPT !.named = TRUE] /\ \A x \in Entries : x # e => job'[x] = job[x]
    BY <1>2, <1>3, <2>1
  <2>3. state' = state
    BY <1>2
  <2>4. PICK c : c = [job[e] EXCEPT !.named = TRUE]
    OBVIOUS
  <2>5. Row(e)' = [Row(e) EXCEPT !.job = c]
    <3>1. job'[e] = c /\ state'[e] = state[e]
      BY <2>2, <2>3, <2>4
    <3> QED
      BY <3>1 DEF Row
  <2>6. Row(e).job = job[e]
    BY DEF Row
  <2>7. [Row(e) EXCEPT !.job.named = TRUE] = [Row(e) EXCEPT !.job = c]
    BY <2>4, <2>6
  <2>8. \A x \in Entries : x # e => Row(x)' = Row(x)
    BY <2>2, <2>3 DEF Row
  <2> QED
    BY <2>5, <2>7, <2>8
<1>5. CASE e \in Listed /\ ~removed[e]
  <2>1. PICK j \in DOMAIN Rows : Rows[j] = Row(e) /\ Rows' = [Rows EXCEPT ![j] = Row(e)']
    BY <1>2, <1>3, <1>4, <1>5, RowChanges
  <2>2. Rows[j].status = "running" /\ Rows' = [Rows EXCEPT ![j].job.named = TRUE]
    BY <1>3, <1>4, <2>1, RowStatus
  <2>3. UNCHANGED (process # "down")
    BY <1>2
  <2> QED
    BY <2>2, <2>3 DEF List!Name
<1>6. CASE e \notin Listed \/ removed[e]
  BY <1>2, <1>3, <1>4, <1>6, RowChanges
<1> QED
  BY <1>5, <1>6

LEMMA EndStep ==
  ASSUME TypeOK, TypeOK', Work, NEW w \in Workers, NEW s \in {"complete", "paused", "failed"}, Finish(w, s)
  PROVE  (\E j \in DOMAIN Rows : List!End(j, s)) \/ Rows' = Rows
<1>1. PICK e : e = mine[w]
  OBVIOUS
<1>2. /\ UNCHANGED <<jobs, job, removed, process>> /\ Installing(w)
      /\ state' = [state EXCEPT ![e] = s]
  BY <1>1 DEF Finish
<1>3. process # "down" /\ process' # "down" /\ e \in Entries /\ state[e] \in InProgress
  BY <1>1, <1>2 DEF TypeOK, Types, DownIsEmpty, WorkersHold, Installing, Work, OneWorkerPerEntry
<1>4. /\ Row(e)' = [Row(e) EXCEPT !.status = s]
      /\ \A x \in Entries : x # e => Row(x)' = Row(x)
  BY <1>2, <1>3 DEF Row, InProgress, TypeOK, Types
<1>5. CASE e \in Listed /\ ~removed[e]
  <2>1. PICK j \in DOMAIN Rows : Rows[j] = Row(e) /\ Rows' = [Rows EXCEPT ![j] = Row(e)']
    BY <1>2, <1>3, <1>4, <1>5, RowChanges
  <2>2. Rows[j].status = "running" /\ Rows' = [Rows EXCEPT ![j].status = s]
    BY <1>3, <1>4, <2>1, RowStatus
  <2>3. UNCHANGED (process # "down")
    BY <1>2
  <2> QED
    BY <2>2, <2>3 DEF List!End, List!Becomes
<1>6. CASE e \notin Listed \/ removed[e]
  BY <1>2, <1>3, <1>4, <1>6, RowChanges
<1> QED
  BY <1>5, <1>6

LEMMA StartablesFrame ==
  ASSUME Startables, Listed' \subseteq Listed, removed' = removed, parallel' = parallel,
         \A e \in Listed : state'[e] = "queued" => state[e] = "queued"
  PROVE  Startables'
BY DEF Startables

LEMMA StartablesUserStep ==
  ASSUME TypeOK, Startables, UserStep
  PROVE  Startables'
<1>1. ASSUME NEW r \in Requests, EnqueueAgain(r) PROVE Startables'
  <2>1. PICK e \in Entries : ~removed[e] /\ state' = [state EXCEPT ![e] = "queued"]
    BY <1>1 DEF EnqueueAgain, Refuses
  <2>2. Listed' = Listed /\ removed' = removed /\ parallel' = parallel
    BY <1>1, ListedSame DEF EnqueueAgain
  <2>3. \A x \in Listed : x # e => state'[x] = state[x]
    BY <2>1, ListedTyped DEF TypeOK, Types
  <2> QED
    BY <2>1, <2>2, <2>3 DEF Startables
<1>2. ASSUME NEW r \in Requests, EnqueueNew(r) PROVE Startables'
  <2>1. PICK e \in Entries :
          /\ jobs' = Append(jobs, e)
          /\ state' = [state EXCEPT ![e] = "queued"]
          /\ removed' = [removed EXCEPT ![e] = FALSE]
    BY <1>2 DEF EnqueueNew
  <2>2. Listed' = Listed \union {e} /\ parallel' = parallel
    BY <1>2, <2>1, ListedAppend DEF EnqueueNew
  <2>3. \A x \in Listed : x # e => state'[x] = state[x] /\ removed'[x] = removed[x]
    BY <2>1, ListedTyped DEF TypeOK, Types
  <2>4. ~removed'[e]
    BY <2>1 DEF TypeOK, Types
  <2> QED
    BY <2>2, <2>3, <2>4 DEF Startables
<1>3. ASSUME NEW asked, NEW cleared, Halt(asked, cleared) PROVE Startables'
  <2>1. Listed' = Listed /\ removed' = removed /\ parallel' = parallel
    BY <1>3, ListedSame DEF Halt
  <2>2. \A x \in Listed : state'[x] = "queued" => state[x] = "queued"
    BY <1>3, ListedTyped DEF Halt
  <2> QED
    BY <2>1, <2>2, StartablesFrame
<1>4. ASSUME NEW app \in Apps, Cancel(app) PROVE Startables'
  BY <1>3, <1>4 DEF Cancel
<1>5. ASSUME NEW a \in Accounts, CancelAccount(a) PROVE Startables'
  BY <1>3, <1>5 DEF CancelAccount
<1>6. ASSUME CancelAll \/ Close PROVE Startables'
  BY <1>3, <1>6 DEF CancelAll, Close
<1>7. ASSUME NEW a \in Accounts, AdoptLegacy(a) PROVE Startables'
  BY <1>7, ListedSame, StartablesFrame DEF AdoptLegacy
<1>8. ASSUME NEW a \in Accounts \union {NoAccount}, SetAccount(a) PROVE Startables'
  BY <1>8, ListedSame, StartablesFrame DEF SetAccount, listVars
<1>9. ASSUME NEW e \in Entries, NEW withFiles \in BOOLEAN, Remove(e, withFiles) PROVE Startables'
  <2>1. removed' = [removed EXCEPT ![e] = TRUE] /\ state' = state /\ parallel' = parallel
    BY <1>9 DEF Remove
  <2>2. \A x \in Listed : x # e => removed'[x] = removed[x]
    BY <2>1, ListedTyped DEF TypeOK, Types
  <2>3. CASE state[e] \in InProgress
    <3>1. Listed' = Listed
      BY <1>9, <2>3, ListedSame DEF Remove
    <3> QED
      BY <2>1, <2>2, <2>3, <3>1 DEF Startables, InProgress
  <2>4. CASE state[e] \notin InProgress
    <3>1. jobs' = Without(e)
      BY <1>9, <2>4 DEF Remove
    <3>2. Listed' = Listed \ {e}
      BY <3>1, ListedWithout
    <3> QED
      BY <2>1, <2>2, <3>2 DEF Startables
  <2> QED
    BY <2>3, <2>4
<1>10. ASSUME NEW i \in DOMAIN jobs, NEW k \in DOMAIN jobs, Move(i, k) PROVE Startables'
  BY <1>10, ListedMove, StartablesFrame DEF Move
<1>11. ASSUME NEW n \in 1..Cardinality(Workers), SetParallel(n) PROVE Startables'
  <2>1. Listed' = Listed /\ UNCHANGED <<state, removed>> /\ parallel' = n
    BY <1>11, ListedSame DEF SetParallel, listVars
  <2>2. n <= Cardinality(Workers)
    BY QueueAssumption, FS_CardinalityType
  <2> QED
    BY <2>1, <2>2 DEF Startables
<1> QED
  BY <1>1, <1>2, <1>4, <1>5, <1>6, <1>7, <1>8, <1>9, <1>10, <1>11 DEF UserStep

LEMMA StartablesStep ==
  ASSUME TypeOK, Startables, [Next]_vars
  PROVE  Startables'
<1>1. CASE UserStep
  BY <1>1, StartablesUserStep
<1>2. CASE RemoveDiscards
  BY <1>2, ListedSame, StartablesFrame DEF RemoveDiscards, listVars
<1>3. ASSUME NEW w \in Workers, WorkerStep(w) PROVE Startables'
  <2>1. removed' = removed /\ parallel' = parallel
    BY <1>3 DEF WorkerStep, Take, Wait, Plan, OpenFolder, Fetch, Finish, Notify, Release, Discard, Exit, listVars
  <2>2. Listed' \subseteq Listed
    <3>1. CASE jobs' = jobs
      BY <3>1, ListedSame
    <3>2. CASE jobs' # jobs
      <4>1. jobs' = Without(mine[w])
        BY <1>3, <3>2
           DEF WorkerStep, Take, Wait, Plan, OpenFolder, Fetch, Finish, Notify, Release, LeftBy, Discard, Exit,
               listVars
      <4> QED
        BY <4>1, ListedWithout
    <3> QED
      BY <3>1, <3>2
  <2>3. \A e \in Entries : state'[e] = "queued" => state[e] = "queued"
    <3>1. CASE state' = state
      BY <3>1
    <3>2. CASE state' # state
      <4>1. \E e \in Entries \union {None}, s \in States \ {"queued"} : state' = [state EXCEPT ![e] = s]
        BY <1>3, <3>2
           DEF WorkerStep, Take, Wait, Plan, OpenFolder, Fetch, Finish, Notify, Release, Discard, Exit,
               listVars, States, TypeOK, Types
      <4> QED
        BY <4>1 DEF TypeOK, Types
    <3> QED
      BY <3>1, <3>2
  <2> QED
    BY <2>1, <2>2, <2>3, ListedTyped, StartablesFrame
<1>4. CASE Closed \/ Crash
  <2>1. Listed' = {} /\ parallel' = parallel
    BY <1>4 DEF Closed, Crash, Forget, Listed
  <2> QED
    BY <2>1 DEF Startables
<1>5. CASE Restart
  <2>1. \A e \in Entries : ~removed'[e]
    BY <1>5 DEF Restart, TypeOK, DownIsEmpty
  <2>2. Listed' \subseteq Entries
    <3>1. TypeOK'
      BY <1>5, TypeRestart
    <3> QED
      BY <3>1 DEF TypeOK, Types, Listed
  <2>3. parallel' = parallel
    BY <1>5 DEF Restart
  <2> QED
    BY <2>1, <2>2, <2>3 DEF Startables
<1>6. CASE UNCHANGED vars
  BY <1>6, ListedSame, StartablesFrame DEF vars, listVars
<1> QED
  BY <1>1, <1>2, <1>3, <1>4, <1>5, <1>6 DEF Next

-----------------------------------------------------------------------------
(* The queue implements the list.                                          *)

\* The file that can always be written is never behind.
LEMMA NeverStale ==
  ASSUME SavesMayFail = FALSE, ~stale, [Next]_vars
  PROVE  ~stale'
<1>1. Save => ~stale'
  BY DEF Save
<1>2. CASE UserStep
  <2>1. ASSUME NEW r \in Requests, EnqueueAgain(r) \/ EnqueueNew(r) PROVE ~stale'
    BY <1>1, <2>1 DEF EnqueueAgain, EnqueueNew
  <2>2. ASSUME NEW asked, NEW cleared, Halt(asked, cleared) PROVE ~stale'
    BY <1>1, <2>2 DEF Halt
  <2>3. ASSUME NEW app \in Apps, Cancel(app) PROVE ~stale'
    BY <2>2, <2>3 DEF Cancel
  <2>4. ASSUME NEW a \in Accounts, CancelAccount(a) PROVE ~stale'
    BY <2>2, <2>4 DEF CancelAccount
  <2>5. ASSUME CancelAll \/ Close PROVE ~stale'
    BY <2>2, <2>5 DEF CancelAll, Close
  <2>6. ASSUME NEW a \in Accounts, AdoptLegacy(a) PROVE ~stale'
    BY <1>1, <2>6 DEF AdoptLegacy
  <2>7. ASSUME NEW e \in Entries, NEW withFiles \in BOOLEAN, Remove(e, withFiles) PROVE ~stale'
    BY <1>1, <2>7 DEF Remove
  <2>8. ASSUME NEW i \in DOMAIN jobs, NEW k \in DOMAIN jobs, Move(i, k) PROVE ~stale'
    BY <1>1, <2>8 DEF Move
  <2>9. ASSUME NEW a \in Accounts \union {NoAccount}, SetAccount(a) PROVE ~stale'
    BY <2>9 DEF SetAccount, fileVars
  <2>10. ASSUME NEW n \in 1..Cardinality(Workers), SetParallel(n) PROVE ~stale'
    BY <2>10 DEF SetParallel, fileVars
  <2> QED
    BY <1>2, <2>1, <2>3, <2>4, <2>5, <2>6, <2>7, <2>8, <2>9, <2>10 DEF UserStep
<1>3. ASSUME NEW w \in Workers, WorkerStep(w) PROVE ~stale'
  BY <1>1, <1>3
     DEF WorkerStep, Take, Wait, Plan, OpenFolder, Fetch, Finish, Notify, Release, Discard, Exit, fileVars
<1>4. CASE RemoveDiscards \/ Closed \/ Crash \/ UNCHANGED vars
  BY <1>4 DEF RemoveDiscards, Closed, Crash, vars, fileVars
<1>5. CASE Restart
  BY <1>1, <1>5 DEF Restart
<1> QED
  BY <1>2, <1>3, <1>4, <1>5 DEF Next

\* Every call of the user is a step of the list, or shows nothing.
LEMMA ListUserStep ==
  ASSUME TypeOK, TypeOK', UserStep
  PROVE  List!ListNext \/ UNCHANGED <<Rows, process # "down">>
<1>1. process = "up" /\ process' # "down"
  BY DEF UserStep, Call, EnqueueAgain, EnqueueNew, Cancel, CancelAccount, AdoptLegacy, SetAccount, CancelAll,
         Remove, Move, SetParallel, Close
<1>2. ASSUME NEW r \in Requests, EnqueueAgain(r) \/ EnqueueNew(r) PROVE List!ListNext
  BY <1>2, AskAgainStep, AskNewStep DEF List!ListNext
<1>3. ASSUME NEW asked, NEW cleared, Halt(asked, cleared) PROVE List!ListNext
  BY <1>1, <1>3, PauseStep DEF List!ListNext
<1>4. ASSUME NEW app \in Apps, Cancel(app) PROVE List!ListNext
  BY <1>3, <1>4 DEF Cancel
<1>5. ASSUME NEW a \in Accounts, CancelAccount(a) PROVE List!ListNext
  BY <1>3, <1>5 DEF CancelAccount
<1>6. ASSUME CancelAll \/ Close PROVE List!ListNext
  BY <1>3, <1>6 DEF CancelAll, Close
<1>7. ASSUME NEW a \in Accounts, AdoptLegacy(a) PROVE List!ListNext
  BY <1>1, <1>7, AdoptStep DEF List!ListNext
<1>8. ASSUME NEW e \in Entries, NEW withFiles \in BOOLEAN, Remove(e, withFiles) PROVE List!ListNext
  BY <1>1, <1>8, DropStep DEF List!ListNext
<1>9. ASSUME NEW i \in DOMAIN jobs, NEW k \in DOMAIN jobs, Move(i, k) PROVE List!ListNext
  BY <1>1, <1>9, MoveStep DEF List!ListNext
<1>10. ASSUME NEW a \in Accounts \union {NoAccount}, SetAccount(a) PROVE UNCHANGED <<Rows, process # "down">>
  BY <1>1, <1>10, RowsSame DEF SetAccount, listVars, Row
<1>11. ASSUME NEW n \in 1..Cardinality(Workers), SetParallel(n) PROVE UNCHANGED <<Rows, process # "down">>
  BY <1>1, <1>11, RowsSame DEF SetParallel, listVars, Row
<1> QED
  BY <1>2, <1>4, <1>5, <1>6, <1>7, <1>8, <1>9, <1>10, <1>11 DEF UserStep

\* So is every step of a worker.
LEMMA ListWorkerStep ==
  ASSUME TypeOK, TypeOK', Work, Startables, NEW w \in Workers, WorkerStep(w)
  PROVE  List!ListNext \/ UNCHANGED <<Rows, process # "down">>
<1>1. process # "down" /\ process' = process
  <2>1. process' = process
    BY DEF WorkerStep, Take, Wait, Plan, OpenFolder, Fetch, Finish, Notify, Release, Discard, Exit
  <2>2. process # "down"
    BY DEF WorkerStep, Take, Wait, Plan, OpenFolder, Fetch, Finish, Installing, Notify, Release, Discard, Exit,
           TypeOK, DownIsEmpty
  <2> QED
    BY <2>1, <2>2
<1>2. CASE Take(w)
  BY <1>1, <1>2, BeginStep DEF List!ListNext
<1>3. CASE Plan(w)
  BY <1>1, <1>3, NameStep DEF List!ListNext
<1>4. ASSUME NEW s \in {"complete", "paused", "failed"}, Finish(w, s)
      PROVE  List!ListNext \/ UNCHANGED <<Rows, process # "down">>
  BY <1>1, <1>4, EndStep DEF List!ListNext
<1>5. CASE Fetch(w)
  <2>1. \A x \in Entries : Row(x)' = Row(x)
    BY <1>5 DEF Fetch, Row, InProgress, TypeOK, Types
  <2>2. UNCHANGED <<jobs, removed>>
    BY <1>5 DEF Fetch
  <2> QED
    BY <1>1, <2>1, <2>2, RowsSame
<1>6. CASE Wait(w) \/ OpenFolder(w) \/ Notify(w) \/ Discard(w) \/ Exit(w)
  <2>1. UNCHANGED <<jobs, job, state, removed>>
    BY <1>6 DEF Wait, OpenFolder, Notify, Discard, Exit, listVars
  <2> QED
    BY <1>1, <2>1, RowsSame DEF Row
<1>7. CASE Release(w)
  <2>1. UNCHANGED <<job, state, removed>> /\ jobs' = LeftBy(mine[w])
    BY <1>7 DEF Release
  <2>2. CASE removed[mine[w]] /\ mine[w] \in Listed
    <3>1. PICK p \in DOMAIN jobs : jobs[p] = mine[w]
      BY <2>2 DEF Listed
    <3>2. Rows' = Rows
      BY <1>1, <2>1, <2>2, <3>1, RowsWithout DEF LeftBy
    <3> QED
      BY <1>1, <3>2
  <2>3. CASE ~(removed[mine[w]] /\ mine[w] \in Listed)
    <3>1. jobs' = jobs
      BY <2>1, <2>3 DEF LeftBy, Without
    <3> QED
      BY <1>1, <2>1, <3>1, RowsSame DEF Row
  <2> QED
    BY <2>2, <2>3
<1> QED
  BY <1>2, <1>3, <1>4, <1>5, <1>6, <1>7 DEF WorkerStep

LEMMA ListStep ==
  ASSUME TypeOK, TypeOK', Work, Startables, UpToDate, ~stale, [Next]_vars
  PROVE  [List!ListNext]_<<Rows, process # "down">>
<1>1. CASE UserStep
  BY <1>1, ListUserStep
<1>2. CASE RemoveDiscards
  BY <1>2, RowsSame DEF RemoveDiscards, listVars, Row
<1>3. ASSUME NEW w \in Workers, WorkerStep(w) PROVE [List!ListNext]_<<Rows, process # "down">>
  BY <1>3, ListWorkerStep
<1>4. CASE Closed \/ Crash
  BY <1>4, FallStep DEF Closed, Crash, List!ListNext
<1>5. CASE Restart
  BY <1>5, RiseStep DEF List!ListNext
<1>6. CASE UNCHANGED vars
  BY <1>6 DEF vars, listVars, fileVars, Rows, Stays, Row
<1> QED
  BY <1>1, <1>2, <1>3, <1>4, <1>5, <1>6 DEF Next

LEMMA ListHolds == SavesMayFail = FALSE /\ Init => Startables /\ UpToDate /\ ~stale
<1> SUFFICES ASSUME SavesMayFail = FALSE, Init PROVE Startables /\ UpToDate /\ ~stale
  OBVIOUS
<1>1. \A e \in Listed : ~removed[e]
  BY TypeInit, ListedTyped DEF Init
<1>2. parallel <= Cardinality(Workers)
  BY QueueAssumption, FS_CardinalityType DEF Init
<1>3. ~stale
  BY DEF Init
<1> QED
  BY <1>1, <1>2, <1>3, SavedInit DEF Startables

\* As long as downloads.json can be written, the queue does to its rows what
\* JobList says and nothing else, whatever its threads do and wherever the
\* process dies: no row runs beside another of its game or beyond the number of
\* workers, and none that was removed or complete comes back.  The end of the
\* process loses none; a start loses those it cannot read, and where reading
\* cannot fail it loses none either.
THEOREM ListImplemented == SavesMayFail = FALSE => (Spec => ImplementsJobList)
<1> SUFFICES ASSUME SavesMayFail = FALSE PROVE Spec => ImplementsJobList
  OBVIOUS
<1> DEFINE Inv == Startables /\ UpToDate /\ ~stale
<1>1. Init => Inv
  BY ListHolds
<1>2. TypeOK /\ Inv /\ [Next]_vars => Inv'
  BY SavedStep, StartablesStep, NeverStale
<1>3. TypeOK /\ TypeOK' /\ Work /\ Inv /\ [Next]_vars => [List!ListNext]_<<Rows, process # "down">>
  BY ListStep
<1> HIDE DEF Inv
<1> QED
  BY <1>1, <1>2, <1>3, Typed, WorkAlways, ListStarts, PTL DEF Spec, ImplementsJobList, List!ListSpec

-----------------------------------------------------------------------------
(* The rows that run, whether or not the file can be written.              *)

\* No two running rows are of one game, and each has a worker of its own.
RunningApart ==
  /\ \A i, k \in List!Going : i # k => Rows[i].job.app # Rows[k].job.app
  /\ IsFiniteSet(List!Going) /\ Cardinality(List!Going) <= Cardinality(Workers)

\* What the user sees running is so: a row is called running only while a worker
\* is at its job, and never beside another of its game.  The job a worker still
\* does after its removal, the exception of GameExclusive, has no row any more.
THEOREM RowsApart == Spec => []RunningApart
<1>1. TypeOK /\ Work => RunningApart
  <2> SUFFICES ASSUME TypeOK, Work PROVE RunningApart
    OBVIOUS
  <2>1. CASE process = "down"
    <3>1. List!Going = {}
      BY <2>1 DEF List!Going, Rows
    <3>2. IsFiniteSet({}) /\ Cardinality({}) = 0 /\ Cardinality(Workers) \in Nat
      BY FS_EmptySet, FS_CardinalityType, QueueAssumption
    <3> QED
      BY <3>1, <3>2 DEF RunningApart
  <2>2. CASE process # "down"
    <3>1. PICK m, at : InOrder(at, m, Stays) /\ Rows = [i \in 1..m |-> Row(jobs[at[i]])]
      BY <2>2, RowsNow
    <3> DEFINE of(i) == jobs[at[i]]
               At(i, w) == Installing(w) /\ mine[w] = of(i)
    <3>2. ASSUME NEW i \in List!Going
          PROVE  /\ i \in 1..m /\ Rows[i].job = job[of(i)] /\ ~removed[of(i)]
                 /\ \E w \in Workers : At(i, w)
      <4>1. i \in 1..m /\ Rows[i] = Row(of(i)) /\ Row(of(i)).status = "running"
        BY <3>1 DEF List!Going
      <4>2. at[i] \in DOMAIN jobs /\ ~removed[of(i)] /\ of(i) \in Entries
        BY <3>1, <4>1 DEF InOrder, Stays, TypeOK, Types
      <4>3. state[of(i)] \in InProgress /\ Rows[i].job = job[of(i)]
        BY <4>1, <4>2, RowStatus
      <4> QED
        BY <4>1, <4>2, <4>3 DEF Work, OneWorkerPerEntry
    <3>3. ASSUME NEW i \in List!Going, NEW k \in List!Going, of(i) = of(k) PROVE i = k
      <4>1. i \in 1..m /\ k \in 1..m
        BY <3>2
      <4>2. m \in Nat /\ at[i] \in DOMAIN jobs /\ at[k] \in DOMAIN jobs
            /\ (i < k => at[i] < at[k]) /\ (k < i => at[k] < at[i])
        BY <3>1, <4>1 DEF InOrder, Stays
      <4>3. at[i] = at[k] /\ at[i] \in Nat
        BY <3>3, <4>2 DEF TypeOK, ListSound, Types
      <4> QED
        BY <4>1, <4>2, <4>3
    <3>4. ASSUME NEW i \in List!Going, NEW k \in List!Going, i # k PROVE Rows[i].job.app # Rows[k].job.app
      <4>1. PICK w \in Workers : At(i, w)
        BY <3>2
      <4>2. PICK v \in Workers : At(k, v)
        BY <3>2
      <4>3. w # v
        BY <3>3, <3>4, <4>1, <4>2
      <4> QED
        BY <3>2, <4>1, <4>2, <4>3 DEF Work, GameExclusive
    <3>5. IsFiniteSet(List!Going) /\ Cardinality(List!Going) <= Cardinality(Workers)
      <4> DEFINE by == [i \in List!Going |-> CHOOSE w \in Workers : At(i, w)]
      <4>1. \A i \in List!Going : by[i] \in Workers /\ At(i, by[i])
        BY <3>2
      <4>2. \A i, k \in List!Going : by[i] = by[k] => i = k
        BY <3>3, <4>1
      <4>3. by \in Injection(List!Going, Workers)
        BY <4>1, <4>2 DEF Injection, IsInjective
      <4> QED
        BY <4>3, FS_Injection, QueueAssumption
    <3> QED
      BY <3>4, <3>5 DEF RunningApart
  <2> QED
    BY <2>1, <2>2
<1> QED
  BY <1>1, Typed, WorkAlways, PTL

=============================================================================
