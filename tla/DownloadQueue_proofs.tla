----------------------- MODULE DownloadQueue_proofs -----------------------
(***************************************************************************)
(* Theorems about DownloadQueue, for every set of workers, accounts, apps  *)
(* and requests, and every bound.                                          *)
(***************************************************************************)
EXTENDS DownloadQueue, FiniteSetTheorems, WellFoundedInduction, TLAPS

-----------------------------------------------------------------------------
(* Numbers and finite sets of numbers.                                     *)

\* Induction, as a fact about sets of numbers: there is a least number that is
\* not in the set.
LEMMA SetInduction ==
  ASSUME NEW S \in SUBSET Nat, 0 \in S, \A n \in S : n + 1 \in S
  PROVE  S = Nat
<1>1. SUFFICES ASSUME Nat \ S # {} PROVE FALSE
  OBVIOUS
<1> DEFINE R == {ss \in Nat \X Nat : ss[1] < ss[2]}
<1>2. PICK x \in Nat \ S : \A y \in Nat \ S : <<y, x>> \notin R
  <2>1. IsWellFoundedOn(R, Nat)
    BY NatLessThanWellFounded DEF OpToRel
  <2> QED
    BY <1>1, <2>1, WFMin
<1>3. \A y \in Nat \ S : ~(y < x)
  BY <1>2
<1>4. x # 0 /\ x - 1 \in Nat /\ x - 1 < x
  OBVIOUS
<1>5. x - 1 \in S
  BY <1>3, <1>4
<1> QED
  BY <1>4, <1>5

LEMMA UptoSize ==
  ASSUME NEW n \in Nat
  PROVE  IsFiniteSet(1..n) /\ Cardinality(1..n) = n
<1>1. n \in Int /\ 1 \in Int /\ (IF 1 > n THEN 0 ELSE n - 1 + 1) = n
  OBVIOUS
<1> QED
  BY <1>1, FS_Interval

\* A set of numbers has an i-th smallest element, for every i up to its size.
LEMMA NthExists ==
  ASSUME NEW n \in Nat, NEW K \in SUBSET (1..n), NEW i \in 1..Cardinality(K)
  PROVE  /\ Nth(K, i) \in K
         /\ Cardinality({m \in K : m <= Nth(K, i)}) = i
<1> DEFINE Upto(L, k) == {m \in L : m <= k}
           Ranked(L)  == \A j \in 1..Cardinality(L) : \E k \in L : Cardinality(Upto(L, k)) = j
           S          == {m \in Nat : \A L \in SUBSET (1..m) : Ranked(L)}
<1>1. 0 \in S
  <2>1. \A L \in SUBSET (1..0) : L = {}
    OBVIOUS
  <2>2. \A j : j \notin 1..Cardinality({})
    BY FS_EmptySet
  <2> QED
    BY <2>1, <2>2
<1>2. ASSUME NEW m \in S PROVE m + 1 \in S
  <2> SUFFICES ASSUME NEW L \in SUBSET (1..(m + 1)), NEW j \in 1..Cardinality(L)
               PROVE  \E k \in L : Cardinality(Upto(L, k)) = j
    OBVIOUS
  <2>0. m \in Nat /\ m + 1 \in Nat /\ \A x \in L : x \in Nat /\ x <= m + 1
    OBVIOUS
  <2> DEFINE M == L \ {m + 1}
  <2>1. M \in SUBSET (1..m) /\ Ranked(M)
    BY <1>2
  <2>2. IsFiniteSet(1..(m + 1)) /\ IsFiniteSet(L)
    <3>1. IsFiniteSet(1..(m + 1))
      BY <2>0, FS_Interval
    <3> QED
      BY <3>1, FS_Subset
  <2>3. CASE m + 1 \notin L
    BY <2>1, <2>3 DEF M
  <2>4. CASE m + 1 \in L /\ j = Cardinality(L)
    <3>1. Upto(L, m + 1) = L
      BY <2>0
    <3> QED
      BY <2>4, <3>1
  <2>5. CASE m + 1 \in L /\ j # Cardinality(L)
    <3>1. Cardinality(M) = Cardinality(L) - 1 /\ Cardinality(L) \in Nat
      BY <2>2, <2>5, FS_RemoveElement, FS_CardinalityType
    <3>2. j \in 1..Cardinality(M)
      BY <2>5, <3>1
    <3>3. PICK k \in M : Cardinality(Upto(M, k)) = j
      BY <2>1, <3>2
    <3>4. Upto(L, k) = Upto(M, k)
      BY <2>0, <2>1
    <3> QED
      BY <3>3, <3>4
  <2> QED
    BY <2>3, <2>4, <2>5
<1>3. S = Nat
  <2> HIDE DEF S
  <2> QED
    BY <1>1, <1>2, SetInduction, S \subseteq Nat DEF S
<1>4. \E k \in K : Cardinality(Upto(K, k)) = i
  BY <1>3
<1> QED
  BY <1>4 DEF Nth

-----------------------------------------------------------------------------
(* The list and the file.                                                  *)

\* Taking an entry out of the list leaves the others, once each.
LEMMA WithoutList ==
  ASSUME Types, ListSound, NEW e
  PROVE  /\ Without(e) \in Seq(Entries)
         /\ \A i, k \in DOMAIN Without(e) : Without(e)[i] = Without(e)[k] => i = k
         /\ {Without(e)[i] : i \in DOMAIN Without(e)} = Listed \ {e}
<1>1. CASE e \notin Listed
  BY <1>1 DEF Without, Types, ListSound, Listed
<1>2. CASE e \in Listed
  <2> DEFINE at == CHOOSE i \in DOMAIN jobs : jobs[i] = e
             n  == Len(jobs)
             W  == [i \in 1..(n - 1) |-> IF i < at THEN jobs[i] ELSE jobs[i + 1]]
  <2>1. Without(e) = W
    BY <1>2 DEF Without
  <2>2. n \in Nat /\ DOMAIN jobs = 1..n /\ jobs \in [1..n -> Entries]
    BY DEF Types
  <2>3. at \in 1..n /\ jobs[at] = e
    BY <1>2, <2>2 DEF Listed
  <2>4. \A i, k \in 1..n : jobs[i] = jobs[k] => i = k
    BY <2>2 DEF ListSound
  <2> HIDE DEF at, n
  <2>5. W \in [1..(n - 1) -> Entries] /\ n - 1 \in Nat
    BY <2>2, <2>3
  <2>6. W \in Seq(Entries) /\ DOMAIN W = 1..(n - 1)
    BY <2>5
  <2>7. \A i, k \in 1..(n - 1) : W[i] = W[k] => i = k
    BY <2>2, <2>3, <2>4
  <2>8. ASSUME NEW i \in 1..(n - 1) PROVE W[i] \in Listed \ {e}
    <3>1. CASE i < at
      BY <2>2, <2>3, <2>4, <3>1 DEF Listed
    <3>2. CASE ~(i < at)
      <4>1. i + 1 \in 1..n /\ i + 1 # at
        BY <2>2, <2>3, <3>2
      <4> QED
        BY <2>2, <2>3, <2>4, <3>2, <4>1 DEF Listed
    <3> QED
      BY <3>1, <3>2
  <2>9. ASSUME NEW x \in Listed \ {e} PROVE \E i \in 1..(n - 1) : W[i] = x
    <3>1. PICK k \in 1..n : jobs[k] = x
      BY <2>2 DEF Listed
    <3>2. CASE k < at
      BY <2>2, <2>3, <3>1, <3>2
    <3>3. CASE ~(k < at)
      <4>1. k - 1 \in 1..(n - 1) /\ ~(k - 1 < at) /\ (k - 1) + 1 = k
        BY <2>2, <2>3, <3>1, <3>3
      <4> QED
        BY <3>1, <4>1
    <3> QED
      BY <3>2, <3>3
  <2> QED
    BY <2>1, <2>6, <2>7, <2>8, <2>9
<1> QED
  BY <1>1, <1>2

\* The list is no longer than there are entries, and the file no longer than the
\* list: what save_locked writes is always a list of jobs that fits.
LEMMA SaveTypes ==
  ASSUME saved \in Seq(Job), Len(saved) <= MaxEntries, stale \in BOOLEAN,
         jobs' \in Seq(Entries), ListSound', Save
  PROVE  saved' \in Seq(Job) /\ Len(saved') <= MaxEntries /\ stale' \in BOOLEAN
<1> DEFINE n == Len(jobs')
           size == Cardinality(Kept')
<1>1. n \in Nat /\ DOMAIN jobs' = 1..n /\ jobs' \in [1..n -> Entries]
  OBVIOUS
<1>2. Kept' \in SUBSET (1..n)
  BY <1>1 DEF Kept
<1>3. n <= MaxEntries
  <2>1. jobs' \in Injection(1..n, Entries)
    BY <1>1 DEF Injection, IsInjective, ListSound
  <2>2. IsFiniteSet(Entries) /\ Cardinality(Entries) = MaxEntries /\ Cardinality(1..n) = n
    BY <1>1, UptoSize, QueueAssumption DEF Entries
  <2> QED
    BY <2>1, <2>2, FS_Injection
<1>4. size \in Nat /\ size <= n
  <2>1. IsFiniteSet(1..n) /\ Cardinality(1..n) = n
    BY <1>1, UptoSize
  <2> QED
    BY <1>2, <2>1, FS_Subset, FS_CardinalityType
<1>5. \A i \in 1..size : Nth(Kept', i) \in Kept'
  BY <1>1, <1>2, NthExists
<1>6. Unfinished' \in [1..size -> Job]
  BY <1>1, <1>2, <1>5 DEF Unfinished, ListSound
<1>7. Unfinished' \in Seq(Job) /\ Len(Unfinished') <= MaxEntries
  <2> HIDE DEF size, n
  <2>1. Unfinished' \in Seq(Job) /\ Len(Unfinished') = size
    BY <1>4, <1>6
  <2> QED
    BY <1>1, <1>3, <1>4, <2>1, QueueAssumption
<1> QED
  BY <1>7 DEF Save

-----------------------------------------------------------------------------
(* Types.                                                                  *)

\* What is read of a file is a list no longer than the file.
LEMMA ReadRows ==
  ASSUME NEW file \in Seq(Job), Len(file) <= MaxEntries, NEW r \in Read(file)
  PROVE  r \in Seq(Job) /\ Len(r) <= MaxEntries
<1>1. CASE r = file
  BY <1>1
<1>2. CASE r \in Excerpts(file)
  <2>1. PICK n \in 0..Len(file) :
          \E at \in [1..n -> DOMAIN file] : r = [i \in 1..n |-> file[at[i]]]
    BY <1>2 DEF Excerpts
  <2>2. r \in [1..n -> Job] /\ n \in Nat /\ n <= Len(file) /\ Len(file) \in Nat
    BY <2>1
  <2>3. r \in Seq(Job) /\ Len(r) = n
    BY <2>2
  <2> QED
    BY <2>2, <2>3, QueueAssumption
<1> QED
  BY <1>1, <1>2 DEF Read

\* The list that a file starts names each of its jobs once.
LEMMA StartsList ==
  ASSUME NEW r \in Seq(Job), Len(r) <= MaxEntries
  PROVE  /\ StartJobs(r) \in Seq(Entries) /\ DOMAIN StartJobs(r) = 1..Len(r)
         /\ StartJob(r) \in [Entries -> Job \union {None}]
         /\ \A i \in 1..Len(r) : i \in Entries /\ StartJobs(r)[i] = i /\ StartJob(r)[i] = r[i] /\ r[i] \in Job
<1> DEFINE n == Len(r)
<1>1. n \in Nat /\ n <= MaxEntries /\ DOMAIN r = 1..n /\ r \in [1..n -> Job]
  OBVIOUS
<1>2. StartJobs(r) \in Seq(Entries) /\ DOMAIN StartJobs(r) = 1..n
  <2>1. StartJobs(r) \in [1..n -> Entries]
    BY <1>1, QueueAssumption DEF StartJobs, Entries
  <2> QED
    BY <1>1, <2>1
<1>3. StartJob(r) \in [Entries -> Job \union {None}]
  BY <1>1 DEF StartJob
<1>4. \A i \in 1..n : i \in Entries /\ StartJobs(r)[i] = i /\ StartJob(r)[i] = r[i] /\ r[i] \in Job
  BY <1>1, QueueAssumption DEF StartJobs, StartJob, Entries
<1> QED
  BY <1>1, <1>2, <1>3, <1>4

\* The queue starts with the jobs it could read, all paused.
LEMMA TypeInit == Init => TypeOK
<1> SUFFICES ASSUME Init PROVE TypeOK
  OBVIOUS
<1>1. PICK r \in Read(Restored) :
        /\ jobs = StartJobs(r) /\ job = StartJob(r)
        /\ \/ saved = r /\ stale = FALSE
           \/ SavesMayFail /\ saved = Restored /\ stale = TRUE
  BY DEF Init
<1>2. r \in Seq(Job) /\ Len(r) <= MaxEntries
  BY ReadRows, QueueAssumption
<1>3. /\ jobs \in Seq(Entries) /\ DOMAIN jobs = 1..Len(r)
      /\ job \in [Entries -> Job \union {None}]
      /\ \A i \in 1..Len(r) : jobs[i] = i /\ job[i] = r[i] /\ r[i] \in Job
  BY <1>1, <1>2, StartsList
<1>4. Cardinality(Workers) \in Nat
  BY QueueAssumption, FS_CardinalityType
<1>5. Types
  <2>1. parallel \in Nat /\ ops \in Nat
    BY <1>4 DEF Init
  <2>2. saved \in Seq(Job) /\ Len(saved) <= MaxEntries /\ stale \in BOOLEAN
    BY <1>1, <1>2, QueueAssumption
  <2>3. state \in [Entries -> States]
    BY DEF Init, States
  <2> QED
    BY <1>3, <2>1, <2>2, <2>3 DEF Init, Types
<1>6. ListSound
  BY <1>3, QueueAssumption DEF Init, ListSound
<1>7. WorkersHold /\ DownIsEmpty
  BY DEF Init, WorkersHold, DownIsEmpty
<1> QED
  BY <1>5, <1>6, <1>7 DEF TypeOK

\* The actions that change neither the list nor what is in it.
LEMMA TypeFlags ==
  ASSUME TypeOK, Call,
         jobs' = jobs, job' = job, mine' = mine, ui' = ui,
         state' \in [Entries -> States], token' \in [Entries -> BOOLEAN],
         stop' \in [Entries -> BOOLEAN],
         removed' = removed, discard' = discard,
         active' \in Accounts \union {NoAccount}, parallel' \in Nat,
         pc' = pc \/ pc' = Woken,
         Save \/ UNCHANGED fileVars,
         process' \in {"up", "closing"}, signedOut' \subseteq Accounts
  PROVE  TypeOK'
<1>1. ListSound'
  BY DEF TypeOK, ListSound
<1>2. saved' \in Seq(Job) /\ Len(saved') <= MaxEntries /\ stale' \in BOOLEAN
  BY <1>1, SaveTypes DEF TypeOK, Types, fileVars
<1>3. ops' \in Nat
  BY DEF TypeOK, Types, Call
<1>4. pc' \in [Workers -> {"check", "wait", "install", "folder", "notify", "release", "discard", "exit"}]
  BY DEF TypeOK, Types, Woken
<1>5. Types'
  BY <1>2, <1>3, <1>4 DEF TypeOK, Types
<1>6. WorkersHold'
  BY DEF TypeOK, Types, WorkersHold, Woken
<1>7. DownIsEmpty'
  BY DEF TypeOK, DownIsEmpty
<1> QED
  BY <1>1, <1>5, <1>6, <1>7 DEF TypeOK

\* The calls the user-interface thread makes.
LEMMA TypeUserStep == TypeOK /\ UserStep => TypeOK'
<1> SUFFICES ASSUME TypeOK, UserStep PROVE TypeOK'
  OBVIOUS
<1> USE QueueAssumption
<1>1. ASSUME NEW r \in Requests, EnqueueAgain(r) PROVE TypeOK'
  <2>1. state' \in [Entries -> States] /\ token' \in [Entries -> BOOLEAN] /\ stop' \in [Entries -> BOOLEAN]
    BY <1>1 DEF EnqueueAgain, TypeOK, Types, States
  <2>2. signedOut' \subseteq Accounts /\ process' \in {"up", "closing"}
    BY <1>1 DEF EnqueueAgain, Call, TypeOK, Types
  <2> QED
    BY <1>1, <2>1, <2>2, TypeFlags DEF EnqueueAgain, TypeOK, Types
<1>3. ASSUME NEW app \in Apps, Cancel(app) PROVE TypeOK'
  <2>1. state' \in [Entries -> States] /\ token' \in [Entries -> BOOLEAN] /\ stop' \in [Entries -> BOOLEAN]
    BY <1>3 DEF Cancel, Halt, TypeOK, Types, States
  <2> QED
    BY <1>3, <2>1, TypeFlags DEF Cancel, Halt, Call, TypeOK, Types, workerVars
<1>4. ASSUME NEW a \in Accounts, CancelAccount(a) PROVE TypeOK'
  <2>1. state' \in [Entries -> States] /\ token' \in [Entries -> BOOLEAN] /\ stop' \in [Entries -> BOOLEAN]
    BY <1>4 DEF CancelAccount, Halt, TypeOK, Types, States
  <2> QED
    BY <1>4, <2>1, TypeFlags DEF CancelAccount, Halt, Call, TypeOK, Types, workerVars
<1>5. ASSUME NEW a \in Accounts, AdoptLegacy(a) PROVE TypeOK'
  <2>0. \A j \in Job : [j EXCEPT !.account = a] \in Job
    BY DEF Job
  <2>1. job' \in [Entries -> Job \union {None}] /\ ListSound'
    <3>1. \A e \in Entries : job[e] \in Job => job'[e] \in Job
      BY <1>5, <2>0 DEF AdoptLegacy
    <3>2. \A e \in Entries : job'[e] \in Job \union {None}
      <4> SUFFICES ASSUME NEW e \in Entries PROVE job'[e] \in Job \union {None}
        OBVIOUS
      <4>1. CASE e \in Listed
        BY <3>1, <4>1 DEF TypeOK, ListSound, Listed
      <4>2. CASE e \notin Listed
        BY <1>5, <4>2 DEF AdoptLegacy, TypeOK, Types
      <4> QED
        BY <4>1, <4>2
    <3>3. job' \in [Entries -> Job \union {None}]
      BY <1>5, <3>2 DEF AdoptLegacy
    <3>4. jobs' = jobs /\ mine' = mine /\ ui' = ui
      BY <1>5 DEF AdoptLegacy, workerVars
    <3> QED
      BY <3>1, <3>3, <3>4 DEF TypeOK, Types, ListSound
  <2>2. saved' \in Seq(Job) /\ Len(saved') <= MaxEntries /\ stale' \in BOOLEAN
    BY <1>5, <2>1, SaveTypes DEF AdoptLegacy, TypeOK, Types
  <2>3. Types'
    BY <1>5, <2>1, <2>2 DEF AdoptLegacy, Call, TypeOK, Types, workerVars
  <2> QED
    BY <1>5, <2>1, <2>3 DEF AdoptLegacy, Call, TypeOK, WorkersHold, DownIsEmpty, workerVars
<1>6. ASSUME NEW a \in Accounts \union {NoAccount}, SetAccount(a) PROVE TypeOK'
  BY <1>6, TypeFlags DEF SetAccount, Call, TypeOK, Types, listVars, workerVars
<1>7. ASSUME CancelAll PROVE TypeOK'
  <2>1. state' \in [Entries -> States] /\ token' \in [Entries -> BOOLEAN] /\ stop' \in [Entries -> BOOLEAN]
    BY <1>7 DEF CancelAll, Halt, TypeOK, Types, States
  <2> QED
    BY <1>7, <2>1, TypeFlags DEF CancelAll, Halt, Call, TypeOK, Types, workerVars
<1>10. ASSUME NEW n \in 1..Cardinality(Workers), SetParallel(n) PROVE TypeOK'
  <2>1. n \in Nat
    BY FS_CardinalityType
  <2> QED
    BY <1>10, <2>1, TypeFlags DEF SetParallel, Call, TypeOK, Types, listVars
<1>11. ASSUME Close PROVE TypeOK'
  <2>1. state' \in [Entries -> States] /\ token' \in [Entries -> BOOLEAN] /\ stop' \in [Entries -> BOOLEAN]
    BY <1>11 DEF Close, Halt, TypeOK, Types, States
  <2> QED
    BY <1>11, <2>1, TypeFlags DEF Close, Halt, Call, TypeOK, Types, workerVars
<1>2. ASSUME NEW r \in Requests, EnqueueNew(r) PROVE TypeOK'
  <2>1. PICK e \in Entries \ (Listed \union Held) :
          /\ jobs' = Append(jobs, e)
          /\ job' = [job EXCEPT ![e] = r]
          /\ state' = [state EXCEPT ![e] = "queued"]
          /\ token' = [token EXCEPT ![e] = TRUE]
          /\ stop' = [stop EXCEPT ![e] = FALSE]
          /\ removed' = [removed EXCEPT ![e] = FALSE]
          /\ discard' = [discard EXCEPT ![e] = FALSE]
    BY <1>2 DEF EnqueueNew
  <2>2. r \in Job
    OBVIOUS
  <2>3. jobs' \in Seq(Entries) /\ job' \in [Entries -> Job \union {None}]
    BY <2>1, <2>2 DEF TypeOK, Types
  <2>4. DOMAIN jobs' = 1..(Len(jobs) + 1) /\ DOMAIN jobs = 1..Len(jobs) /\ Len(jobs) \in Nat
        /\ \A i \in DOMAIN jobs' : jobs'[i] = IF i = Len(jobs) + 1 THEN e ELSE jobs[i]
    BY <2>1 DEF TypeOK, Types
  <2>5. \A i \in DOMAIN jobs : jobs[i] # e /\ jobs[i] \in Entries
    BY <2>1, <2>4 DEF Listed, TypeOK, Types
  <2>6. mine' = mine /\ ui' = ui /\ ui # e /\ \A w \in Workers : mine[w] # e
    BY <1>2 DEF EnqueueNew, Held
  <2>7. ListSound'
    <3>1. \A i, k \in DOMAIN jobs' : jobs'[i] = jobs'[k] => i = k
      BY <2>4, <2>5 DEF TypeOK, ListSound
    <3>2. \A i \in DOMAIN jobs' : job'[jobs'[i]] \in Job
      BY <2>1, <2>2, <2>4, <2>5 DEF TypeOK, Types, ListSound
    <3>3. \A w \in Workers : mine'[w] # None => job'[mine'[w]] \in Job
      BY <2>1, <2>6 DEF TypeOK, Types, ListSound
    <3>4. ui' # None => job'[ui'] \in Job
      BY <2>1, <2>6 DEF TypeOK, Types, ListSound
    <3> QED
      BY <3>1, <3>2, <3>3, <3>4 DEF ListSound
  <2>8. saved' \in Seq(Job) /\ Len(saved') <= MaxEntries /\ stale' \in BOOLEAN
    BY <1>2, <2>3, <2>7, SaveTypes DEF EnqueueNew, TypeOK, Types
  <2>9. Types'
    BY <1>2, <2>1, <2>3, <2>8 DEF EnqueueNew, Call, TypeOK, Types, States, Woken
  <2>10. WorkersHold' /\ DownIsEmpty'
    BY <1>2 DEF EnqueueNew, Call, TypeOK, Types, WorkersHold, DownIsEmpty, Woken
  <2> QED
    BY <2>7, <2>9, <2>10 DEF TypeOK
<1>8. ASSUME NEW e \in Entries, NEW withFiles \in BOOLEAN, Remove(e, withFiles) PROVE TypeOK'
  <2>1. e \in Listed /\ job[e] \in Job
    BY <1>8 DEF Remove, Listed, TypeOK, ListSound
  <2>2. jobs' = jobs \/ jobs' = Without(e)
    BY <1>8 DEF Remove
  <2>3. /\ jobs' \in Seq(Entries)
        /\ \A i, k \in DOMAIN jobs' : jobs'[i] = jobs'[k] => i = k
        /\ \A i \in DOMAIN jobs' : jobs'[i] \in Listed
    <3>1. CASE jobs' = jobs
      BY <3>1 DEF TypeOK, Types, ListSound, Listed
    <3>2. CASE jobs' = Without(e)
      BY <3>2, WithoutList DEF TypeOK
    <3> QED
      BY <2>2, <3>1, <3>2
  <2>4. ListSound'
    BY <1>8, <2>1, <2>3 DEF Remove, TypeOK, Types, ListSound, Listed, workerVars
  <2>5. saved' \in Seq(Job) /\ Len(saved') <= MaxEntries /\ stale' \in BOOLEAN
    BY <1>8, <2>3, <2>4, SaveTypes DEF Remove, TypeOK, Types
  <2>6. Types'
    BY <1>8, <2>3, <2>5 DEF Remove, Call, TypeOK, Types, workerVars
  <2>7. WorkersHold' /\ DownIsEmpty'
    BY <1>8 DEF Remove, Call, TypeOK, WorkersHold, DownIsEmpty, workerVars
  <2> QED
    BY <2>4, <2>6, <2>7 DEF TypeOK
<1>9. ASSUME NEW i \in DOMAIN jobs, NEW k \in DOMAIN jobs, Move(i, k) PROVE TypeOK'
  <2>1. /\ jobs' \in Seq(Entries) /\ DOMAIN jobs' = DOMAIN jobs
        /\ \A m \in DOMAIN jobs : jobs'[m] = IF m = i THEN jobs[k] ELSE IF m = k THEN jobs[i] ELSE jobs[m]
    BY <1>9 DEF Move, TypeOK, Types
  <2>2. ListSound'
    <3>1. \A m, l \in DOMAIN jobs' : jobs'[m] = jobs'[l] => m = l
      BY <2>1 DEF TypeOK, ListSound
    <3>2. \A m \in DOMAIN jobs' : job[jobs'[m]] \in Job
      BY <2>1 DEF TypeOK, ListSound
    <3>3. job' = job /\ mine' = mine /\ ui' = ui
      BY <1>9 DEF Move, workerVars
    <3> QED
      BY <3>1, <3>2, <3>3 DEF TypeOK, ListSound
  <2>3. saved' \in Seq(Job) /\ Len(saved') <= MaxEntries /\ stale' \in BOOLEAN
    BY <1>9, <2>1, <2>2, SaveTypes DEF Move, TypeOK, Types
  <2>4. Types'
    BY <1>9, <2>1, <2>3 DEF Move, Call, TypeOK, Types, workerVars
  <2>5. WorkersHold' /\ DownIsEmpty'
    BY <1>9 DEF Move, Call, TypeOK, WorkersHold, DownIsEmpty, workerVars
  <2> QED
    BY <2>2, <2>4, <2>5 DEF TypeOK
<1> QED
  BY <1>1, <1>2, <1>3, <1>4, <1>5, <1>6, <1>7, <1>8, <1>9, <1>10, <1>11 DEF UserStep

\* The steps of a worker.
LEMMA TypeWorkerStep == ASSUME TypeOK, NEW w \in Workers, WorkerStep(w) PROVE TypeOK'
<1> USE QueueAssumption
<1>1. CASE Take(w)
  <2>1. PICK e \in Entries :
          /\ NextJob(e)
          /\ state' = [state EXCEPT ![e] = "checking"]
          /\ token' = [token EXCEPT ![e] = FALSE]
          /\ mine' = [mine EXCEPT ![w] = e]
    BY <1>1 DEF Take
  <2>2. e \in Listed /\ job[e] \in Job /\ e # None
    BY <2>1 DEF NextJob, TypeOK, ListSound, Listed
  <2>3. Types'
    BY <1>1, <2>1 DEF Take, TypeOK, Types, States, fileVars
  <2>4. ListSound'
    <3>1. \A v \in Workers : mine'[v] = e \/ mine'[v] = mine[v]
      BY <2>1 DEF TypeOK, Types
    <3> QED
      BY <1>1, <2>2, <3>1 DEF Take, TypeOK, ListSound
  <2>5. WorkersHold' /\ DownIsEmpty'
    BY <1>1, <2>1, <2>2 DEF Take, TypeOK, Types, WorkersHold, DownIsEmpty
  <2> QED
    BY <2>3, <2>4, <2>5 DEF TypeOK
<1>2. CASE Wait(w)
  BY <1>2 DEF Wait, TypeOK, Types, ListSound, WorkersHold, DownIsEmpty, listVars, fileVars
<1>3. CASE Plan(w)
  <2> DEFINE e == mine[w]
  <2>1. e \in Entries /\ job[e] \in Job /\ job' = [job EXCEPT ![e].named = TRUE]
    BY <1>3 DEF Plan, TypeOK, Types, ListSound, WorkersHold
  <2>2. [job[e] EXCEPT !.named = TRUE] \in Job
    BY <2>1 DEF Job
  <2>3. job' \in [Entries -> Job \union {None}] /\ \A x \in Entries : job[x] \in Job => job'[x] \in Job
    BY <2>1, <2>2 DEF TypeOK, Types
  <2>4. ListSound'
    <3>1. jobs' = jobs /\ mine' = mine /\ ui' = ui
      BY <1>3 DEF Plan, workerVars
    <3>2. \A i \in DOMAIN jobs : jobs[i] \in Entries
      BY DEF TypeOK, Types
    <3> QED
      BY <2>3, <3>1, <3>2 DEF TypeOK, Types, ListSound
  <2>5. saved' \in Seq(Job) /\ Len(saved') <= MaxEntries /\ stale' \in BOOLEAN
    BY <1>3, <2>4, SaveTypes DEF Plan, TypeOK, Types
  <2>6. Types'
    BY <1>3, <2>3, <2>5 DEF Plan, TypeOK, Types, workerVars
  <2>7. WorkersHold' /\ DownIsEmpty'
    BY <1>3 DEF Plan, TypeOK, WorkersHold, DownIsEmpty, workerVars
  <2> QED
    BY <2>4, <2>6, <2>7 DEF TypeOK
<1>4. CASE OpenFolder(w)
  BY <1>4 DEF OpenFolder, TypeOK, Types, ListSound, WorkersHold, DownIsEmpty, listVars, fileVars
<1>5. CASE Fetch(w)
  BY <1>5 DEF Fetch, TypeOK, Types, States, ListSound, WorkersHold, DownIsEmpty, workerVars, fileVars
<1>6. ASSUME NEW s \in {"complete", "paused", "failed"}, Finish(w, s) PROVE TypeOK'
  <2>1. ListSound'
    BY <1>6 DEF Finish, TypeOK, ListSound
  <2>2. saved' \in Seq(Job) /\ Len(saved') <= MaxEntries /\ stale' \in BOOLEAN
    BY <1>6, <2>1, SaveTypes DEF Finish, TypeOK, Types
  <2>3. Types'
    BY <1>6, <2>2 DEF Finish, TypeOK, Types, States
  <2>4. WorkersHold' /\ DownIsEmpty'
    BY <1>6 DEF Finish, Installing, TypeOK, Types, WorkersHold, DownIsEmpty
  <2> QED
    BY <2>1, <2>3, <2>4 DEF TypeOK
<1>7. CASE Notify(w)
  BY <1>7 DEF Notify, Woken, TypeOK, Types, ListSound, WorkersHold, DownIsEmpty, listVars, fileVars
<1>8. CASE Release(w)
  <2> DEFINE e == mine[w]
  <2>1. jobs' = jobs \/ jobs' = Without(e)
    BY <1>8 DEF Release, LeftBy
  <2>2. /\ jobs' \in Seq(Entries)
        /\ \A i, k \in DOMAIN jobs' : jobs'[i] = jobs'[k] => i = k
        /\ \A i \in DOMAIN jobs' : jobs'[i] \in Listed
    <3>1. CASE jobs' = jobs
      BY <3>1 DEF TypeOK, Types, ListSound, Listed
    <3>2. CASE jobs' = Without(e)
      BY <3>2, WithoutList DEF TypeOK
    <3> QED
      BY <2>1, <3>1, <3>2
  <2>3. \A v \in Workers : mine'[v] = None \/ mine'[v] = mine[v]
    BY <1>8 DEF Release, TypeOK, Types
  <2>4. ListSound'
    BY <1>8, <2>2, <2>3 DEF Release, TypeOK, ListSound, Listed
  <2>5. saved' \in Seq(Job) /\ Len(saved') <= MaxEntries /\ stale' \in BOOLEAN
    BY <1>8, <2>2, <2>4, SaveTypes DEF Release, TypeOK, Types, fileVars
  <2>6. Types'
    BY <1>8, <2>2, <2>5 DEF Release, TypeOK, Types
  <2>7. WorkersHold'
    BY <1>8 DEF Release, TypeOK, Types, WorkersHold
  <2>8. DownIsEmpty'
    BY <1>8 DEF Release, TypeOK, DownIsEmpty
  <2> QED
    BY <2>4, <2>6, <2>7, <2>8 DEF TypeOK
<1>9. CASE Discard(w)
  BY <1>9 DEF Discard, TypeOK, Types, ListSound, WorkersHold, DownIsEmpty, listVars, fileVars
<1>10. CASE Exit(w)
  BY <1>10 DEF Exit, TypeOK, Types, ListSound, WorkersHold, DownIsEmpty, listVars, fileVars
<1> QED
  BY <1>1, <1>2, <1>3, <1>4, <1>5, <1>6, <1>7, <1>8, <1>9, <1>10 DEF WorkerStep

\* The end of the process.
LEMMA TypeForget ==
  ASSUME TypeOK, Forget, active' = active, parallel' = parallel,
         UNCHANGED fileVars, signedOut' = signedOut, ops' \in Nat
  PROVE  TypeOK'
<1>1. StartJob(<<>>) = [e \in Entries |-> None]
  BY DEF StartJob
<1>2. Types'
  BY <1>1 DEF Forget, TypeOK, Types, States, fileVars
<1>3. ListSound'
  BY QueueAssumption DEF Forget, ListSound
<1>4. WorkersHold' /\ DownIsEmpty'
  BY DEF Forget, WorkersHold, DownIsEmpty
<1> QED
  BY <1>2, <1>3, <1>4 DEF TypeOK

\* The next start of the process.
LEMMA TypeRestart == TypeOK /\ Restart => TypeOK'
<1> SUFFICES ASSUME TypeOK, Restart PROVE TypeOK'
  OBVIOUS
<1> USE QueueAssumption
<1>1. PICK r \in Read(saved) : jobs' = StartJobs(r) /\ job' = StartJob(r)
  BY DEF Restart
<1>2. r \in Seq(Job) /\ Len(r) <= MaxEntries
  BY ReadRows DEF TypeOK, Types
<1>3. /\ jobs' \in Seq(Entries) /\ DOMAIN jobs' = 1..Len(r)
      /\ job' \in [Entries -> Job \union {None}]
      /\ \A i \in 1..Len(r) : jobs'[i] = i /\ job'[i] = r[i] /\ r[i] \in Job
  BY <1>1, <1>2, StartsList
<1>4. \A w \in Workers : mine'[w] = None
  BY DEF Restart, TypeOK, DownIsEmpty, WorkersHold
<1>5. ListSound'
  BY <1>3, <1>4 DEF Restart, TypeOK, DownIsEmpty, ListSound
<1>6. saved' \in Seq(Job) /\ Len(saved') <= MaxEntries /\ stale' \in BOOLEAN
  BY <1>3, <1>5, SaveTypes DEF Restart, TypeOK, Types
<1>7. Types'
  BY <1>3, <1>6 DEF Restart, TypeOK, Types
<1>8. WorkersHold' /\ DownIsEmpty'
  BY <1>4 DEF Restart, WorkersHold, DownIsEmpty
<1> QED
  BY <1>5, <1>7, <1>8 DEF TypeOK

LEMMA TypeStep == TypeOK /\ [Next]_vars => TypeOK'
<1> SUFFICES ASSUME TypeOK, [Next]_vars PROVE TypeOK'
  OBVIOUS
<1>1. CASE UserStep
  BY <1>1, TypeUserStep
<1>2. CASE RemoveDiscards
  BY <1>2 DEF RemoveDiscards, TypeOK, Types, ListSound, WorkersHold, DownIsEmpty, listVars, workerVars, fileVars
<1>3. CASE \E w \in Workers : WorkerStep(w)
  BY <1>3, TypeWorkerStep
<1>4. CASE Closed
  BY <1>4, TypeForget DEF Closed, TypeOK, Types
<1>5. CASE Crash
  BY <1>5, TypeForget DEF Crash, TypeOK, Types
<1>6. CASE Restart
  BY <1>6, TypeRestart
<1>7. CASE UNCHANGED vars
  BY <1>7 DEF vars, TypeOK, Types, ListSound, WorkersHold, DownIsEmpty, listVars, workerVars, fileVars
<1> QED
  BY <1>1, <1>2, <1>3, <1>4, <1>5, <1>6, <1>7 DEF Next

\* Whatever the threads, the user and the process do, every variable keeps to its
\* type, the list names no entry twice, and a worker holds an entry exactly while
\* it is between taking and releasing it.
THEOREM Typed == Spec => []TypeOK
<1> QED
  BY TypeInit, TypeStep, PTL DEF Spec

=============================================================================
