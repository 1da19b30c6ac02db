----------------------- MODULE LauncherAccounts_proofs -----------------------
(***************************************************************************)
(* What the launcher promises of sessions, of the vault and of sign-ins,   *)
(* for any accounts, games and number of acts.                             *)
(***************************************************************************)
EXTENDS LauncherGames_proofs

-----------------------------------------------------------------------------
(* What a step leaves of the tasks of accounts.                            *)

\* Task i after a step is task j before it.
Same(i, j, kinds) ==
  /\ j \in 1..N /\ i \in 1..N'
  /\ Submitted'[i].kind = Submitted[j].kind /\ Submitted'[i].by = Submitted[j].by
  /\ Submitted'[i].current <=> (Submitted[j].current /\ Submitted[j].kind \notin kinds)

\* A step that applied the first d results, outdated tasks of these kinds and
\* submitted more behind position m; scans and syncs may be beside them.
PassesAt(d, kinds, more, m) ==
  /\ m \in Nat /\ m >= N - d
  /\ \A i \in 1..N' : \/ Stays(i + d, d) /\ Same(i, i + d, kinds)
                      \/ /\ Brings(i - m, more) /\ i > N - d
                         /\ Submitted'[i] = more[i - m]
                      \/ Submitted'[i].kind \in {"scan", "steam"}
  /\ \A j : Stays(j, d) => Same(j - d, j, kinds)
  /\ \A k : Brings(k, more) => k + m \in 1..N' /\ Submitted'[k + m] = more[k]

Passes(d, kinds, more) == \E m : PassesAt(d, kinds, more, m)

\* sent is more, behind a scan or a sync if s is 1.
Behind(sent, more, s) ==
  /\ Len(sent) = Len(more) + s
  /\ s = 1 => sent[1].kind \in {"scan", "steam"}
  /\ \A k \in 1..Len(more) : sent[k + s] = more[k]

LEMMA Passing ==
  ASSUME NEW d \in {0, 1}, NEW kinds, NEW sent \in Seq(Task), Submits(d, kinds, sent),
         NEW more \in Seq(Task), NEW s \in {0, 1}, Behind(sent, more, s)
  PROVE  Passes(d, kinds, more)
<1> DEFINE m == N - d + s
<1>1. /\ Older(d, kinds) /\ Newer(d, sent)
      /\ N \in Nat /\ N' \in Nat /\ N - d \in Nat /\ N' = N - d + Len(more) + s
      /\ d \in Nat /\ s \in Nat /\ Len(more) \in Nat /\ Len(sent) = Len(more) + s
  <2>1. Older(d, kinds) /\ Newer(d, sent) /\ N - d \in Nat
    BY Origins
  <2>2. N \in Nat /\ N' \in Nat /\ N' = N - d + Len(sent)
    BY DEF Submits
  <2>3. Len(more) \in Nat
    BY LenProperties
  <2> QED BY <2>1, <2>2, <2>3 DEF Behind
<1>2. m \in Nat /\ m >= N - d /\ m = N - d + s
  BY <1>1
<1> HIDE DEF m
<1>3. ASSUME NEW j, Stays(j, d) PROVE Same(j - d, j, kinds)
  <2>1. j - d \in 1..N - d /\ j - d + d = j /\ j - d \in 1..N' /\ j \in 1..N
    BY <1>1, <1>3 DEF Stays
  <2> QED BY <1>1, <2>1 DEF Older, Same
<1>4. ASSUME NEW k, Brings(k, sent)
      PROVE  k + (N - d) \in 1..N' /\ Submitted'[k + (N - d)] = sent[k]
  <2> DEFINE p == k + (N - d)
  <2>1. p \in N - d + 1..N' /\ p - (N - d) = k /\ p \in 1..N'
    BY <1>1, <1>4 DEF Brings
  <2> HIDE DEF p
  <2>2. p \in 1..N' /\ Submitted'[p] = sent[k]
    BY <1>1, <2>1 DEF Newer
  <2> QED BY <2>2 DEF p
<1>5. ASSUME NEW k, Brings(k, more) PROVE k + m \in 1..N' /\ Submitted'[k + m] = more[k]
  <2>1. Brings(k + s, sent) /\ k + s + (N - d) = k + m /\ sent[k + s] = more[k]
    BY <1>1, <1>2, <1>5 DEF Brings, Behind
  <2> QED BY <1>4, <2>1
<1>6. ASSUME NEW i \in 1..N'
      PROVE  \/ Stays(i + d, d) /\ Same(i, i + d, kinds)
             \/ /\ Brings(i - m, more) /\ i > N - d
                /\ Submitted'[i] = more[i - m]
             \/ Submitted'[i].kind \in {"scan", "steam"}
  <2>1. CASE i \in 1..N - d
    <3>1. Stays(i + d, d) /\ i + d - d = i
      BY <1>1, <2>1 DEF Stays
    <3> QED BY <1>3, <3>1
  <2>2. CASE i > m
    <3>1. Brings(i - m, more) /\ i - m + m = i /\ i > N - d
      BY <1>1, <1>2, <2>2 DEF Brings
    <3> QED BY <1>5, <3>1
  <2>3. CASE i > N - d /\ i <= m
    <3>1. s = 1 /\ i = 1 + (N - d) /\ Brings(1, sent)
      BY <1>1, <1>2, <2>3 DEF Brings
    <3> QED BY <1>4, <3>1 DEF Behind
  <2> QED BY <1>1, <1>2, <2>1, <2>2, <2>3
<1>7. PassesAt(d, kinds, more, m)
  BY <1>2, <1>3, <1>5, <1>6 DEF PassesAt
<1> QED BY <1>7 DEF Passes

LEMMA QueuePasses ==
  ASSUME WorkerTypeOK, NEW d \in {0, 1}, Applies(d), NEW kinds, NEW more \in Seq(Task),
         Queue(Left(d), kinds, more)
  PROVE  Passes(d, kinds, more)
<1> DEFINE s == 0
<1>1. Submits(d, kinds, more)
  BY QueueSubmits
<1>2. s \in {0, 1} /\ s # 1 /\ Len(more) = Len(more) + s /\ \A k \in 1..Len(more) : k + s = k
  BY LenProperties
<1> HIDE DEF s
<1>3. Behind(more, more, s)
  BY <1>2 DEF Behind
<1> QED BY <1>1, <1>2, <1>3, Passing

LEMMA SyncPasses ==
  ASSUME WorkerTypeOK, GamesTypeOK', NEW d \in {0, 1}, Applies(d), NEW idle \in BOOLEAN,
         NEW waits, NEW more \in Seq(Task), SyncSteam(Left(d), idle, waits, more)
  PROVE  Passes(d, Moves, more)
<1> DEFINE begins == Begins(idle)
           t == Make("steam", None, Titles(installs', skip'))
           sent == (IF begins THEN <<t>> ELSE <<>>) \o more
           one == <<t>>
           s == 1
<1>1. Queue(Left(d), Moves, sent)
  BY DEF SyncSteam, Begins
<1>2. t \in Task /\ t.kind = "steam"
  BY DEF Make, Task, TaskKinds, Titles, GamesTypeOK
<1>3. CASE begins
  <2>1. sent = one \o more
    BY <1>3
  <2>2. one \in Seq(Task) /\ Len(one) = 1 /\ one[1] = t /\ Len(more) \in Nat
    BY <1>2, LenProperties
  <2>3. s \in {0, 1} /\ s = 1
    OBVIOUS
  <2> HIDE DEF sent, one, s, t
  <2>4. /\ sent \in Seq(Task) /\ Len(sent) = 1 + Len(more)
        /\ \A k \in 1..1 + Len(more) : sent[k] = IF k <= 1 THEN one[k] ELSE more[k - 1]
    BY <2>1, <2>2, OneBefore
  <2>5. sent[1] = t /\ Len(sent) = Len(more) + s
    BY <2>2, <2>3, <2>4
  <2>6. ASSUME NEW k \in 1..Len(more) PROVE sent[k + s] = more[k]
    <3>1. k + 1 \in 1..1 + Len(more) /\ ~(k + 1 <= 1) /\ k + 1 - 1 = k /\ k + s = k + 1
      BY <2>2, <2>3
    <3>2. sent[k + 1] = more[k]
      BY <2>4, <3>1
    <3> QED BY <3>1, <3>2
  <2>7. Submits(d, Moves, sent)
    BY <1>1, <2>4, QueueSubmits
  <2>8. Behind(sent, more, s)
    BY <1>2, <2>5, <2>6 DEF Behind
  <2> QED BY <2>3, <2>4, <2>7, <2>8, Passing
<1>4. CASE ~begins
  <2>1. sent = more
    BY <1>4, ConcatEmptySeq
  <2> QED BY <1>1, <2>1, QueuePasses
<1> QED BY <1>3, <1>4

LEMMA RescanPasses ==
  ASSUME WorkerTypeOK, Rescan(results)
  PROVE  \E kinds \in {{}, Moves} : Passes(0, kinds, <<>>)
<1>1. CASE scanning
  <2>1. Queue(Left(0), {}, <<>>)
    BY <1>1, NoneApplied DEF Rescan
  <2> QED BY <2>1, NoneApplied, NothingMore, QueuePasses
<1>2. CASE ~scanning
  <2> DEFINE t == Make("scan", None, {})
             sent == <<t>>
             none == <<>>
             s == 1
  <2>1. Queue(Left(0), Moves, sent)
    BY <1>2, NoneApplied DEF Rescan, Moves
  <2>2. t \in Task /\ t.kind = "scan"
    BY DEF Make, Task, TaskKinds
  <2>3. sent \in Seq(Task) /\ Len(sent) = 1 /\ sent[1] = t
    BY <2>2
  <2>4. none \in Seq(Task) /\ Len(none) = 0 /\ s \in {0, 1} /\ s = 1
    OBVIOUS
  <2> HIDE DEF sent, none, s, t
  <2>5. Submits(0, Moves, sent)
    BY <2>1, <2>3, NoneApplied, QueueSubmits
  <2>6. Behind(sent, none, s)
    BY <2>2, <2>3, <2>4 DEF Behind
  <2>7. Passes(0, Moves, none)
    BY <2>3, <2>4, <2>5, <2>6, Passing
  <2> QED BY <2>7 DEF none
<1> QED BY <1>1, <1>2

LEMMA SavePasses ==
  ASSUME WorkerTypeOK, GamesTypeOK, GamesTypeOK', NEW d \in {0, 1}, Applies(d),
         NEW more \in Seq(Task), SaveLibrary(Left(d), more)
  PROVE  \E kinds \in {{}, Moves} : Passes(d, kinds, more)
<1>1. CASE scanning
  <2>1. Queue(Left(d), {}, more)
    BY <1>1 DEF SaveLibrary
  <2> QED BY <2>1, QueuePasses
<1>2. CASE ~scanning
  <2>1. SyncSteam(Left(d), ~busy, steamPending, more)
    BY <1>2 DEF SaveLibrary, Sync
  <2>2. (~busy) \in BOOLEAN
    OBVIOUS
  <2> QED BY <2>1, <2>2, SyncPasses
<1> QED BY <1>1, <1>2

-----------------------------------------------------------------------------
(* The tasks of accounts.                                                  *)

Fetches(i)   == Submitted[i].kind = "refresh" /\ Submitted[i].current
Answering(i) == Submitted[i].kind = "complete" /\ Submitted[i].current
Beginning(i) == Submitted[i].kind = "begin" /\ Submitted[i].current
OfAccount(i) == Submitted[i].kind = "account"

\* While the account of a session is not known, what arrives for it is its own.
RefreshesOwn ==
  \A i \in 1..N : Fetches(i) =>
    Submitted[i].by # None /\ (scope = None => Submitted[i].by = session)

CompletesWanted ==
  /\ \A i \in 1..N : Answering(i) =>
       verifying /\ Submitted[i].by = wanted /\ wanted # None
  /\ \A i, j \in 1..N : Answering(i) /\ Answering(j) => i = j
  /\ verifying => \E i \in 1..N : Answering(i)

BeginsAwaited ==
  signingIn /\ ~verifying /\ ~auth => \E i \in 1..N : Beginning(i)

AccountsPending ==
  /\ \A i, j \in 1..N : OfAccount(i) /\ OfAccount(j) /\ Submitted[i].by = Submitted[j].by
       => i = j
  /\ \A i \in 1..N : OfAccount(i) => Submitted[i].by \in libraryPending
  /\ \A a \in libraryPending : \E i \in 1..N : OfAccount(i) /\ Submitted[i].by = a

LEMMA RefreshesKept ==
  ASSUME RefreshesOwn, NEW d \in {0, 1}, NEW kinds, NEW more, Passes(d, kinds, more),
         "refresh" \in kinds \/ scope' # None \/ UNCHANGED <<scope, session>>,
         \A k : Brings(k, more) /\ more[k].kind = "refresh"
           => more[k].by # None /\ (scope' = None => more[k].by = session')
  PROVE  RefreshesOwn'
<1>1. PICK m : PassesAt(d, kinds, more, m)
  BY DEF Passes
<1> SUFFICES ASSUME NEW i \in 1..N', Fetches(i)'
             PROVE  Submitted'[i].by # None /\ (scope' = None => Submitted'[i].by = session')
  BY DEF RefreshesOwn
<1>2. CASE Same(i, i + d, kinds)
  BY <1>2 DEF Same, RefreshesOwn, Fetches
<1>3. CASE Brings(i - m, more) /\ Submitted'[i] = more[i - m]
  BY <1>3 DEF Fetches
<1> QED BY <1>1, <1>2, <1>3 DEF PassesAt, Fetches

LEMMA CompletesKept ==
  ASSUME CompletesWanted, NEW d \in {0, 1}, NEW kinds, NEW more, Passes(d, kinds, more),
         N \in Nat, N' \in Nat,
         \A i : Stays(i, d) /\ Answering(i) /\ "complete" \notin kinds
           => verifying' /\ wanted' = wanted,
         \A k : Brings(k, more) /\ more[k].kind = "complete"
           => /\ verifying' /\ more[k].by = wanted' /\ wanted' # None /\ ~verifying
              /\ k = 1,
         verifying' => \/ \E i : Stays(i, d) /\ Answering(i) /\ "complete" \notin kinds
                       \/ \E k : Brings(k, more) /\ more[k].kind = "complete" /\ more[k].current
  PROVE  CompletesWanted'
<1>1. PICK m : PassesAt(d, kinds, more, m)
  BY DEF Passes
<1>2. ASSUME NEW i \in 1..N', Answering(i)'
      PROVE  \/ /\ Stays(i + d, d) /\ Same(i, i + d, kinds) /\ Answering(i + d) /\ verifying
                /\ "complete" \notin kinds
             \/ /\ Brings(i - m, more) /\ Submitted'[i] = more[i - m] /\ ~verifying /\ i - m = 1
                /\ more[i - m].kind = "complete"
  <2>1. CASE Stays(i + d, d) /\ Same(i, i + d, kinds)
    BY <1>2, <2>1 DEF Same, Answering, CompletesWanted
  <2>2. CASE Brings(i - m, more) /\ Submitted'[i] = more[i - m]
    BY <1>2, <2>2 DEF Answering
  <2> QED BY <1>1, <1>2, <2>1, <2>2 DEF PassesAt, Answering
<1>3. ASSUME NEW i \in 1..N', Answering(i)'
      PROVE  verifying' /\ Submitted'[i].by = wanted' /\ wanted' # None
  BY <1>2, <1>3 DEF Same, CompletesWanted
<1>4. ASSUME NEW i \in 1..N', NEW j \in 1..N', Answering(i)', Answering(j)' PROVE i = j
  <2>1. CASE Answering(i + d) /\ Same(i, i + d, kinds) /\ Answering(j + d) /\ Same(j, j + d, kinds)
    <3>1. i + d = j + d
      BY <2>1 DEF Same, CompletesWanted
    <3> QED BY <3>1
  <2>2. CASE i - m = 1 /\ j - m = 1
    BY <1>1, <2>2 DEF PassesAt
  <2> QED BY <1>2, <1>4, <2>1, <2>2
<1>5. ASSUME verifying' PROVE \E i \in 1..N' : Answering(i)'
  <2>1. ASSUME NEW i, Stays(i, d), Answering(i), "complete" \notin kinds
        PROVE  \E j \in 1..N' : Answering(j)'
    <3>1. Same(i - d, i, kinds)
      BY <1>1, <2>1 DEF PassesAt
    <3> QED BY <2>1, <3>1 DEF Same, Answering
  <2>2. ASSUME NEW k, Brings(k, more), more[k].kind = "complete", more[k].current
        PROVE  \E j \in 1..N' : Answering(j)'
    BY <1>1, <2>2 DEF PassesAt, Answering
  <2> QED BY <1>5, <2>1, <2>2
<1> QED BY <1>3, <1>4, <1>5 DEF CompletesWanted

LEMMA BeginsKept ==
  ASSUME NEW d \in {0, 1}, NEW kinds, NEW more, Passes(d, kinds, more),
         signingIn' /\ ~verifying' /\ ~auth' =>
           \/ \E i : Stays(i, d) /\ Beginning(i) /\ "begin" \notin kinds
           \/ \E k : Brings(k, more) /\ more[k].kind = "begin" /\ more[k].current
  PROVE  BeginsAwaited'
<1>1. PICK m : PassesAt(d, kinds, more, m)
  BY DEF Passes
<1>2. ASSUME NEW i, Stays(i, d), Beginning(i), "begin" \notin kinds
      PROVE  \E j \in 1..N' : Beginning(j)'
  <2>1. Same(i - d, i, kinds)
    BY <1>1, <1>2 DEF PassesAt
  <2> QED BY <1>2, <2>1 DEF Same, Beginning
<1>3. ASSUME NEW k, Brings(k, more), more[k].kind = "begin", more[k].current
      PROVE  \E j \in 1..N' : Beginning(j)'
  BY <1>1, <1>3 DEF PassesAt, Beginning
<1> QED BY <1>2, <1>3 DEF BeginsAwaited

LEMMA PendingKept ==
  ASSUME AccountsPending, NEW d \in {0, 1}, NEW kinds, NEW more, Passes(d, kinds, more),
         N \in Nat, N' \in Nat,
         \A i : Stays(i, d) /\ OfAccount(i) => Submitted[i].by \in libraryPending',
         \A k, l : Brings(k, more) /\ Brings(l, more) /\ more[k].by = more[l].by
                     /\ more[k].kind = "account" /\ more[l].kind = "account" => k = l,
         \A k : Brings(k, more) /\ more[k].kind = "account"
           => more[k].by \in libraryPending' \ libraryPending,
         \A a \in libraryPending' :
           \/ \E i : Stays(i, d) /\ OfAccount(i) /\ Submitted[i].by = a
           \/ \E k : Brings(k, more) /\ more[k].kind = "account" /\ more[k].by = a
  PROVE  AccountsPending'
<1>1. PICK m : PassesAt(d, kinds, more, m)
  BY DEF Passes
<1>2. ASSUME NEW i \in 1..N', OfAccount(i)'
      PROVE  \/ /\ Stays(i + d, d) /\ Same(i, i + d, kinds) /\ OfAccount(i + d)
                /\ Submitted'[i].by \in libraryPending
             \/ /\ Brings(i - m, more) /\ Submitted'[i] = more[i - m]
                /\ more[i - m].kind = "account" /\ Submitted'[i].by \notin libraryPending
  <2>1. CASE Stays(i + d, d) /\ Same(i, i + d, kinds)
    BY <1>2, <2>1 DEF Same, OfAccount, AccountsPending
  <2>2. CASE Brings(i - m, more) /\ Submitted'[i] = more[i - m]
    BY <1>2, <2>2 DEF OfAccount
  <2> QED BY <1>1, <1>2, <2>1, <2>2 DEF PassesAt, OfAccount
<1>3. ASSUME NEW i \in 1..N', OfAccount(i)' PROVE Submitted'[i].by \in libraryPending'
  BY <1>2, <1>3 DEF Same
<1>4. ASSUME NEW i \in 1..N', NEW j \in 1..N', OfAccount(i)', OfAccount(j)',
             Submitted'[i].by = Submitted'[j].by
      PROVE  i = j
  <2>1. CASE OfAccount(i + d) /\ Same(i, i + d, kinds) /\ OfAccount(j + d) /\ Same(j, j + d, kinds)
    <3>1. i + d = j + d
      BY <1>4, <2>1 DEF Same, AccountsPending
    <3> QED BY <3>1
  <2>2. CASE /\ Brings(i - m, more) /\ Submitted'[i] = more[i - m] /\ more[i - m].kind = "account"
             /\ Brings(j - m, more) /\ Submitted'[j] = more[j - m] /\ more[j - m].kind = "account"
    <3>1. i - m = j - m
      BY <1>4, <2>2
    <3> QED BY <1>1, <3>1 DEF PassesAt
  <2> QED BY <1>2, <1>4, <2>1, <2>2
<1>5. ASSUME NEW a \in libraryPending'
      PROVE  \E i \in 1..N' : OfAccount(i)' /\ Submitted'[i].by = a
  <2>1. ASSUME NEW i, Stays(i, d), OfAccount(i), Submitted[i].by = a
        PROVE  \E j \in 1..N' : OfAccount(j)' /\ Submitted'[j].by = a
    <3>1. Same(i - d, i, kinds)
      BY <1>1, <2>1 DEF PassesAt
    <3> QED BY <2>1, <3>1 DEF Same, OfAccount
  <2>2. ASSUME NEW k, Brings(k, more), more[k].kind = "account", more[k].by = a
        PROVE  \E j \in 1..N' : OfAccount(j)' /\ Submitted'[j].by = a
    BY <1>1, <2>2 DEF PassesAt, OfAccount
  <2> QED BY <2>1, <2>2
<1> QED BY <1>3, <1>4, <1>5 DEF AccountsPending

-----------------------------------------------------------------------------
(* The invariant.                                                          *)

\* No session is of an account that signed out, nor is the one that a sign-in
\* will bring; before its account is known no slot holds anything.
Signed ==
  /\ SessionIsOfKey /\ SignedOutStaysOut
  /\ wanted \notin out /\ session \notin out
  /\ key = None /\ session # None => \A a \in Accounts : vault[a] = "absent"

TasksOwn == RefreshesOwn /\ CompletesWanted /\ BeginsAwaited /\ AccountsPending

AInv == Inv /\ Signed /\ TasksOwn

LEMMA Lengths ==
  ASSUME Inv, Inv'
  PROVE  N \in Nat /\ N' \in Nat /\ WorkerTypeOK /\ GamesTypeOK /\ GamesTypeOK'
<1>1. WorkerTypeOK /\ WorkerTypeOK' /\ GamesTypeOK /\ GamesTypeOK'
  BY DEF Inv, GamesInv
<1> QED BY <1>1, SubmittedAt, SubmittedNext

LEMMA Staying ==
  ASSUME N \in Nat, NEW d \in {0, 1}, NEW i \in 1..N, d = 1 => i # 1
  PROVE  Stays(i, d)
BY DEF Stays

LEMMA NoneBrought ==
  \A k : ~Brings(k, <<>>)
BY DEF Brings

LEMMA OneBrought ==
  ASSUME NEW kind, NEW by, NEW games1
  PROVE  /\ \A k : Brings(k, <<Make(kind, by, games1)>>) <=> k = 1
         /\ <<Make(kind, by, games1)>>[1].kind = kind
         /\ <<Make(kind, by, games1)>>[1].by = by
         /\ <<Make(kind, by, games1)>>[1].current
BY DEF Brings, Make

LEMMA CompletesStill ==
  ASSUME CompletesWanted, N \in Nat, N' \in Nat, NEW d \in {0, 1}, NEW kinds, NEW more,
         Passes(d, kinds, more), "complete" \notin kinds, UNCHANGED <<verifying, wanted>>,
         d = 1 => ~Answering(1), \A k : Brings(k, more) => more[k].kind # "complete"
  PROVE  CompletesWanted'
<1>1. ASSUME NEW i, Stays(i, d), Answering(i) PROVE verifying' /\ wanted' = wanted
  <2>1. i \in 1..N
    BY <1>1 DEF Stays
  <2> QED BY <1>1, <2>1 DEF CompletesWanted
<1>2. ASSUME verifying' PROVE \E i : Stays(i, d) /\ Answering(i)
  <2>1. PICK i \in 1..N : Answering(i)
    BY <1>2 DEF CompletesWanted
  <2>2. Stays(i, d)
    BY <2>1, Staying
  <2> QED BY <2>1, <2>2
<1> QED BY <1>1, <1>2, CompletesKept

LEMMA BeginsStill ==
  ASSUME BeginsAwaited, N \in Nat, NEW d \in {0, 1}, NEW kinds, NEW more,
         Passes(d, kinds, more), "begin" \notin kinds,
         signingIn' /\ ~verifying' /\ ~auth' => signingIn /\ ~verifying /\ ~auth,
         d = 1 => ~Beginning(1)
  PROVE  BeginsAwaited'
<1>1. ASSUME signingIn' /\ ~verifying' /\ ~auth' PROVE \E i : Stays(i, d) /\ Beginning(i)
  <2>1. PICK i \in 1..N : Beginning(i)
    BY <1>1 DEF BeginsAwaited
  <2>2. Stays(i, d)
    BY <2>1, Staying
  <2> QED BY <2>1, <2>2
<1> QED BY <1>1, BeginsKept

LEMMA PendingStill ==
  ASSUME AccountsPending, N \in Nat, N' \in Nat, NEW d \in {0, 1}, NEW kinds, NEW more,
         Passes(d, kinds, more), UNCHANGED libraryPending,
         d = 1 => ~OfAccount(1), \A k : Brings(k, more) => more[k].kind # "account"
  PROVE  AccountsPending'
<1>1. ASSUME NEW i, Stays(i, d), OfAccount(i) PROVE Submitted[i].by \in libraryPending'
  <2>1. i \in 1..N
    BY <1>1 DEF Stays
  <2> QED BY <1>1, <2>1 DEF AccountsPending
<1>2. ASSUME NEW a \in libraryPending'
      PROVE  \E i : Stays(i, d) /\ OfAccount(i) /\ Submitted[i].by = a
  <2>1. PICK i \in 1..N : OfAccount(i) /\ Submitted[i].by = a
    BY DEF AccountsPending
  <2>2. Stays(i, d)
    BY <2>1, Staying
  <2> QED BY <2>1, <2>2
<1>3. \A k, l : Brings(k, more) /\ Brings(l, more) /\ more[k].by = more[l].by
                  /\ more[k].kind = "account" /\ more[l].kind = "account" => k = l
  OBVIOUS
<1>4. \A k : Brings(k, more) /\ more[k].kind = "account"
        => more[k].by \in libraryPending' \ libraryPending
  OBVIOUS
<1>5. \A a \in libraryPending' :
        \/ \E i : Stays(i, d) /\ OfAccount(i) /\ Submitted[i].by = a
        \/ \E k : Brings(k, more) /\ more[k].kind = "account" /\ more[k].by = a
  BY <1>2
<1> QED BY <1>1, <1>3, <1>4, <1>5, PendingKept

\* ++epoch_: what is under way for an account, but other accounts' libraries,
\* counts no more.
LEMMA Abandoned ==
  ASSUME AInv, N \in Nat, N' \in Nat, NEW more, Passes(0, Epochs, more), ~verifying',
         UNCHANGED libraryPending,
         \A k : Brings(k, more) => more[k].kind \notin {"complete", "account"},
         \A k : Brings(k, more) /\ more[k].kind = "refresh"
           => more[k].by # None /\ more[k].by = session',
         signingIn' => \E k : Brings(k, more) /\ more[k].kind = "begin" /\ more[k].current
  PROVE  TasksOwn'
<1>1. RefreshesOwn /\ CompletesWanted /\ AccountsPending
  BY DEF AInv, TasksOwn
<1>2. "refresh" \in Epochs /\ "complete" \in Epochs
  BY DEF Epochs
<1> DEFINE d == 0
<1>3. d \in {0, 1} /\ d # 1 /\ Passes(d, Epochs, more)
  OBVIOUS
<1> HIDE DEF d
<1>4. RefreshesOwn'
  BY <1>1, <1>2, <1>3, RefreshesKept
<1>5. CompletesWanted'
  BY <1>1, <1>2, <1>3, CompletesKept
<1>6. BeginsAwaited'
  BY <1>3, BeginsKept
<1>7. AccountsPending'
  BY <1>1, <1>3, PendingStill
<1> QED BY <1>4, <1>5, <1>6, <1>7 DEF TasksOwn

\* A step about scans and syncs.
LEMMA AccountsAlone ==
  ASSUME AInv, Inv', NEW d \in {0, 1}, NEW kinds \in {{}, Moves}, Passes(d, kinds, <<>>),
         d = 1 => Submitted[1].kind \in {"scan", "steam"}, UNCHANGED accountVars
  PROVE  Signed' /\ TasksOwn'
<1>1. N \in Nat /\ N' \in Nat /\ Signed /\ TasksOwn
  BY Lengths DEF AInv
<1>2. /\ UNCHANGED <<vault, session, key, scope, dl, signingIn, verifying, auth, wanted,
                     libraryPending, out>>
  BY DEF accountVars, slots, window, signIn, fetches
<1>3. Signed'
  BY <1>1, <1>2 DEF Signed, SessionIsOfKey, SignedOutStaysOut, In
<1>4. "complete" \notin kinds /\ "begin" \notin kinds
  BY DEF Moves
<1>5. RefreshesOwn'
  BY <1>1, <1>2, NoneBrought, RefreshesKept DEF TasksOwn
<1>6. CompletesWanted'
  BY <1>1, <1>2, <1>4, NoneBrought, CompletesStill DEF TasksOwn, Answering
<1>7. BeginsAwaited'
  BY <1>1, <1>2, <1>4, BeginsStill DEF TasksOwn, Beginning
<1>8. AccountsPending'
  BY <1>1, <1>2, NoneBrought, PendingStill DEF TasksOwn, OfAccount
<1> QED BY <1>3, <1>5, <1>6, <1>7, <1>8 DEF TasksOwn

\* A step that leaves what was submitted as it is.
LEMMA TasksStay ==
  ASSUME AInv, N' = N, \A i \in 1..N : Submitted'[i] = Submitted[i],
         UNCHANGED <<session, scope, signingIn, verifying, auth, wanted, libraryPending>>
  PROVE  TasksOwn'
BY DEF AInv, TasksOwn, RefreshesOwn, CompletesWanted, BeginsAwaited, AccountsPending,
       Fetches, Answering, Beginning, OfAccount

LEMMA WorkerStays ==
  ASSUME UNCHANGED worker
  PROVE  N' = N /\ \A i \in 1..N : Submitted'[i] = Submitted[i]
BY DEF worker, Submitted, N

-----------------------------------------------------------------------------
(* The user's acts on accounts, and those of other processes.              *)

LEMMA NoOne ==
  ASSUME Inv
  PROVE  /\ None \notin Accounts /\ None \notin out /\ out \subseteq Accounts
         /\ "out" \notin Accounts /\ "absent" \notin Accounts
         /\ vault \in [Accounts -> Accounts \union {"out", "absent"}]
         /\ session \in Accounts \union {None} /\ key \in Accounts \union {None}
BY WorkerAssumption DEF Inv, AccountsOK, Words

LEMMA SwitchesA ==
  ASSUME AInv, Inv', NEW a \in Accounts, SwitchAccount(a)
  PROVE  Signed' /\ TasksOwn'
<1>1. /\ a \in In(vault) /\ session' = vault[a] /\ key' = a /\ scope' = a /\ dl' = a
      /\ Queue(results, Epochs, <<RefreshTask>>) /\ signingIn' = FALSE /\ verifying' = FALSE
      /\ wanted' = None /\ UNCHANGED <<vault, libraryPending, out>>
  BY DEF SwitchAccount, Abandon
<1>2. /\ N \in Nat /\ N' \in Nat /\ WorkerTypeOK /\ Signed /\ Inv
  BY Lengths DEF AInv
<1>3. session' = a
  BY <1>1, <1>2 DEF Signed, SessionIsOfKey
<1>4. Signed'
  BY <1>1, <1>2, <1>3, NoOne DEF Signed, SessionIsOfKey, SignedOutStaysOut, In
<1> DEFINE more == <<Make("refresh", session', {})>>
<1>5. Passes(0, Epochs, more)
  <2>1. Queue(Left(0), Epochs, more) /\ more \in Seq(Task)
    BY <1>1, <1>3, NoneApplied, OneTask DEF RefreshTask
  <2> QED BY <1>2, <2>1, NoneApplied, QueuePasses
<1>6. /\ \A k : Brings(k, more) => k = 1
      /\ more[1].kind = "refresh" /\ more[1].by = session' /\ session' # None
  BY <1>2, <1>3, OneBrought, NoOne
<1> HIDE DEF more
<1>7. TasksOwn'
  <2>1. /\ \A k : Brings(k, more) => more[k].kind \notin {"complete", "account"}
        /\ \A k : Brings(k, more) /\ more[k].kind = "refresh"
             => more[k].by # None /\ more[k].by = session'
    BY <1>6
  <2> QED BY <1>1, <1>2, <1>5, <2>1, Abandoned
<1> QED BY <1>4, <1>7

LEMMA LeavesA ==
  ASSUME AInv, Inv', NEW a \in Accounts, vault[a] # "absent", NEW gone \in {"out", "absent"},
         Leave(a, gone)
  PROVE  Signed' /\ TasksOwn'
<1>1. /\ vault' = [vault EXCEPT ![a] = gone] /\ UNCHANGED libraryPending
      /\ out' = IF wanted = a /\ key # a THEN out ELSE out \union {a}
  BY DEF Leave
<1>2. /\ N \in Nat /\ N' \in Nat /\ WorkerTypeOK /\ Signed /\ Inv /\ TasksOwn
  BY Lengths DEF AInv
<1>3. /\ vault'[a] \notin Accounts
      /\ \A b \in Accounts \ {a} : vault'[b] = vault[b]
  BY <1>1, <1>2, NoOne
<1>4. a \notin In(vault') /\ In(vault') \subseteq In(vault) /\ \A b \in In(vault') : vault'[b] = b
  BY <1>2, <1>3 DEF In, Signed, SessionIsOfKey
<1>5. out' \intersect In(vault') = {}
  BY <1>1, <1>2, <1>4 DEF Signed, SignedOutStaysOut
<1>6. CASE key = a
  <2>1. /\ Queue(results, Epochs, <<>>) /\ signingIn' = FALSE /\ verifying' = FALSE
        /\ wanted' = None /\ session' = None /\ key' = None /\ scope' = None /\ dl' = None
    BY <1>6 DEF Leave, SignOutAbandon, Abandon
  <2>2. None \notin out'
    BY <1>1, <1>2, NoOne
  <2>3. Signed'
    BY <1>4, <1>5, <2>1, <2>2 DEF Signed, SessionIsOfKey, SignedOutStaysOut
  <2>4. Passes(0, Epochs, <<>>)
    BY <1>2, <2>1, NoneApplied, NothingMore, QueuePasses
  <2>5. TasksOwn'
    BY <1>1, <1>2, <2>1, <2>4, NoneBrought, Abandoned
  <2> QED BY <2>3, <2>5
<1>7. CASE key # a
  <2>1. UNCHANGED <<window, signIn, worker>>
    BY <1>7 DEF Leave
  <2>2. UNCHANGED <<session, key, scope, dl, signingIn, verifying, auth, wanted>>
    BY <2>1 DEF window, signIn
  <2>3. session # a /\ (key = None => session = None)
    BY <1>2, <1>7, NoOne DEF Signed, SessionIsOfKey
  <2>4. wanted' \notin out' /\ session' \notin out'
    BY <1>1, <1>2, <1>7, <2>2, <2>3 DEF Signed
  <2>5. Signed'
    BY <1>2, <1>4, <1>5, <2>2, <2>3, <2>4 DEF Signed, SessionIsOfKey, SignedOutStaysOut
  <2>6. TasksOwn'
    BY <1>1, <2>1, <2>2, WorkerStays, TasksStay
  <2> QED BY <2>5, <2>6
<1> QED BY <1>6, <1>7

LEMMA SignsOutA ==
  ASSUME AInv, Inv', NEW a \in Accounts, SignOut(a) \/ RemoveAccount(a)
  PROVE  Signed' /\ TasksOwn'
BY LeavesA DEF SignOut, RemoveAccount

LEMMA ElsewhereA ==
  ASSUME AInv, Inv', NEW a \in Accounts, Elsewhere(a)
  PROVE  Signed' /\ TasksOwn'
<1>1. /\ a \in In(vault) /\ UNCHANGED <<window, signIn, fetches, out, worker>>
      /\ vault' = [vault EXCEPT ![a] = "out"] \/ vault' = vault
  BY DEF Elsewhere
<1>2. UNCHANGED <<session, key, scope, dl, signingIn, verifying, auth, wanted, libraryPending>>
  BY <1>1 DEF window, signIn, fetches
<1>3. Signed /\ Inv
  BY DEF AInv
<1>4. In(vault') \subseteq In(vault) /\ \A b \in In(vault') : vault'[b] = vault[b]
  BY <1>1, <1>3, NoOne DEF In
<1>5. ~(key = None /\ session # None)
  BY <1>1, <1>3, NoOne DEF Signed, In
<1>6. Signed'
  BY <1>1, <1>2, <1>3, <1>4, <1>5 DEF Signed, SessionIsOfKey, SignedOutStaysOut
<1>7. TasksOwn'
  BY <1>1, <1>2, WorkerStays, TasksStay
<1> QED BY <1>6, <1>7

\* The vault, the session and the account shown stay, nobody signs out.
LEMMA SignedStays ==
  ASSUME AInv, UNCHANGED <<vault, session, key, scope, dl>>, out' \subseteq out,
         wanted' \notin out'
  PROVE  Signed'
BY DEF AInv, Signed, SessionIsOfKey, SignedOutStaysOut, In

LEMMA RefreshesA ==
  ASSUME AInv, Inv', Refresh \/ AddOwned \/ SignIn \/ CancelSignIn
  PROVE  Signed' /\ TasksOwn'
<1>1. /\ UNCHANGED <<slots, window, out, libraryPending>>
      /\ wanted' = wanted \/ wanted' = None
  BY DEF Refresh, AddOwned, SignIn, CancelSignIn, Abandon, signIn, fetches
<1>2. UNCHANGED <<vault, session, key, scope, dl, libraryPending, out>>
  BY <1>1 DEF slots, window
<1>3. N \in Nat /\ N' \in Nat /\ WorkerTypeOK /\ Signed /\ Inv /\ TasksOwn
  BY Lengths DEF AInv
<1>4. Signed'
  <2>1. wanted' \notin out'
    BY <1>1, <1>2, <1>3, NoOne DEF Signed
  <2> QED BY <1>2, <2>1, SignedStays
<1>5. CASE Refresh \/ AddOwned
  <2>1. PICK kind \in {"refresh", "add"} : Queue(results, {}, <<Make(kind, session, {})>>)
    BY <1>5 DEF Refresh, AddOwned
  <2>2. session # None /\ UNCHANGED signIn /\ session \in Accounts \union {None}
    BY <1>3, <1>5, NoOne DEF Refresh, AddOwned
  <2>3. UNCHANGED <<signingIn, verifying, auth, wanted>>
    BY <2>2 DEF signIn
  <2> DEFINE more == <<Make(kind, session, {})>>
             d == 0
             kinds == {}
  <2>4. Passes(d, kinds, more)
    <3>1. more \in Seq(Task) /\ Queue(Left(0), {}, more)
      BY <2>1, <2>2, NoneApplied, OneTask
    <3> QED BY <1>3, <3>1, NoneApplied, QueuePasses
  <2>5. /\ \A k : Brings(k, more) => k = 1
        /\ more[1].kind \in {"refresh", "add"} /\ more[1].by = session
    BY OneBrought
  <2>6. d \in {0, 1} /\ d # 1 /\ "complete" \notin kinds /\ "begin" \notin kinds
    OBVIOUS
  <2> HIDE DEF more, d, kinds
  <2>7. RefreshesOwn'
    BY <1>2, <1>3, <2>2, <2>4, <2>5, <2>6, RefreshesKept DEF TasksOwn
  <2>8. CompletesWanted'
    BY <1>3, <2>3, <2>4, <2>5, <2>6, CompletesStill DEF TasksOwn
  <2>9. BeginsAwaited'
    BY <1>3, <2>3, <2>4, <2>6, BeginsStill DEF TasksOwn
  <2>10. AccountsPending'
    BY <1>2, <1>3, <2>4, <2>5, <2>6, PendingStill DEF TasksOwn
  <2> QED BY <1>4, <2>7, <2>8, <2>9, <2>10 DEF TasksOwn
<1>6. CASE SignIn
  <2> DEFINE more == <<Make("begin", None, {})>>
  <2>1. Queue(results, Epochs, more) /\ verifying' = FALSE
    BY <1>6 DEF SignIn, Verifies
  <2>2. Passes(0, Epochs, more)
    <3>1. more \in Seq(Task) /\ Queue(Left(0), Epochs, more)
      BY <2>1, NoneApplied, OneTask
    <3> QED BY <1>3, <3>1, NoneApplied, QueuePasses
  <2>3. /\ \A k : Brings(k, more) <=> k = 1
        /\ more[1].kind = "begin" /\ more[1].current
    BY OneBrought
  <2> HIDE DEF more
  <2>4. /\ \A k : Brings(k, more) => more[k].kind \notin {"complete", "account"}
        /\ \A k : Brings(k, more) /\ more[k].kind = "refresh"
             => more[k].by # None /\ more[k].by = session'
        /\ \E k : Brings(k, more) /\ more[k].kind = "begin" /\ more[k].current
    BY <2>3
  <2>5. TasksOwn'
    BY <1>2, <1>3, <2>1, <2>2, <2>4, Abandoned
  <2> QED BY <1>4, <2>5
<1>7. CASE CancelSignIn
  <2>1. Queue(results, Epochs, <<>>) /\ verifying' = FALSE /\ signingIn' = FALSE
    BY <1>7 DEF CancelSignIn, Abandon
  <2>2. Passes(0, Epochs, <<>>)
    BY <1>3, <2>1, NoneApplied, NothingMore, QueuePasses
  <2>3. TasksOwn'
    BY <1>2, <1>3, <2>1, <2>2, NoneBrought, Abandoned
  <2> QED BY <1>4, <2>3
<1> QED BY <1>5, <1>6, <1>7

-----------------------------------------------------------------------------
(* The sign-in window, and an address pasted by hand.                      *)

LEMMA CompletesA ==
  ASSUME AInv, Inv', UNCHANGED <<slots, window, fetches>>, Verifiable,
         NEW a \in Accounts, CompleteSignIn(a)
  PROVE  Signed' /\ TasksOwn'
<1>1. /\ Queue(results, {}, <<Make("complete", a, {})>>) /\ verifying' = TRUE /\ wanted' = a
      /\ out' = out \ {a} /\ UNCHANGED <<signingIn, auth>>
      /\ UNCHANGED <<vault, session, key, scope, dl, libraryPending>>
  BY DEF CompleteSignIn, slots, window, fetches
<1>2. N \in Nat /\ N' \in Nat /\ WorkerTypeOK /\ Inv /\ TasksOwn /\ ~verifying
  BY Lengths DEF AInv, Verifiable
<1>3. Signed'
  BY <1>1, SignedStays
<1> DEFINE more == <<Make("complete", a, {})>>
           d == 0
           kinds == {}
<1>4. Passes(d, kinds, more)
  <2>1. more \in Seq(Task) /\ Queue(Left(0), {}, more)
    BY <1>1, NoneApplied, OneTask
  <2> QED BY <1>2, <2>1, NoneApplied, QueuePasses
<1>5. /\ \A k : Brings(k, more) <=> k = 1
      /\ more[1].kind = "complete" /\ more[1].by = a /\ more[1].current
  BY OneBrought
<1>6. d \in {0, 1} /\ d # 1 /\ a # None
  BY <1>2, NoOne
<1> HIDE DEF more, d, kinds
<1>7. RefreshesOwn'
  BY <1>1, <1>2, <1>4, <1>5, <1>6, RefreshesKept DEF TasksOwn
<1>8. CompletesWanted'
  <2>1. \A i : Stays(i, d) /\ Answering(i) => FALSE
    BY <1>2, <1>6 DEF TasksOwn, CompletesWanted, Stays
  <2>2. \A k : Brings(k, more) /\ more[k].kind = "complete"
          => verifying' /\ more[k].by = wanted' /\ wanted' # None /\ ~verifying /\ k = 1
    BY <1>1, <1>2, <1>5, <1>6
  <2>3. \E k : Brings(k, more) /\ more[k].kind = "complete" /\ more[k].current
    BY <1>5
  <2> QED BY <1>2, <1>4, <1>6, <2>1, <2>2, <2>3, CompletesKept DEF TasksOwn
<1>9. BeginsAwaited'
  BY <1>1, <1>4, <1>6, BeginsKept
<1>10. AccountsPending'
  BY <1>1, <1>2, <1>4, <1>5, <1>6, PendingStill DEF TasksOwn
<1> QED BY <1>3, <1>7, <1>8, <1>9, <1>10 DEF TasksOwn

LEMMA WindowsA ==
  ASSUME AInv, Inv', WindowActs
  PROVE  Signed' /\ TasksOwn'
<1>1. UNCHANGED <<slots, window, signIn, fetches, out, worker>>
  BY DEF WindowActs, HelperReports, HelperCloses, WindowReports
<1>2. UNCHANGED <<vault, session, key, scope, dl, signingIn, verifying, auth, wanted,
                  libraryPending, out>>
  BY <1>1 DEF slots, window, signIn, fetches
<1>3. Signed'
  BY <1>2, SignedStays DEF AInv, Signed
<1> QED BY <1>1, <1>2, <1>3, WorkerStays, TasksStay

LEMMA PollsBrowserA ==
  ASSUME AInv, Inv', PollBrowser
  PROVE  Signed' /\ TasksOwn'
<1>1. UNCHANGED <<slots, window, fetches>>
  BY DEF PollBrowser
<1>2. UNCHANGED <<vault, session, key, scope, dl, libraryPending>>
  BY <1>1 DEF slots, window, fetches
<1>3. N \in Nat /\ N' \in Nat /\ WorkerTypeOK /\ Inv /\ TasksOwn
  BY Lengths DEF AInv
<1>4. CASE Head(events) \in Accounts /\ Verifiable /\ CompleteSignIn(Head(events))
  BY <1>1, <1>4, CompletesA
<1>5. CASE UNCHANGED <<signIn, out, worker>>
  <2>1. UNCHANGED <<signingIn, verifying, auth, wanted, out>>
    BY <1>5 DEF signIn
  <2>2. Signed'
    BY <1>2, <2>1, SignedStays DEF AInv, Signed
  <2> QED BY <1>2, <1>5, <2>1, <2>2, WorkerStays, TasksStay
<1>6. CASE /\ signingIn' = signingIn \/ signingIn' = FALSE
           /\ UNCHANGED <<verifying, auth, wanted, out, worker>>
  <2>1. Signed'
    BY <1>2, <1>6, SignedStays DEF AInv, Signed
  <2>2. TasksOwn'
    BY <1>2, <1>3, <1>6, WorkerStays
       DEF TasksOwn, RefreshesOwn, CompletesWanted, BeginsAwaited, AccountsPending,
           Fetches, Answering, Beginning, OfAccount
  <2> QED BY <2>1, <2>2
<1>7. CASE /\ signingIn' = FALSE /\ ~verifying /\ Queue(results, Epochs, <<>>)
           /\ UNCHANGED <<verifying, wanted, out>>
  <2>1. Signed'
    BY <1>2, <1>7, SignedStays DEF AInv, Signed
  <2>2. Passes(0, Epochs, <<>>)
    BY <1>3, <1>7, NoneApplied, NothingMore, QueuePasses
  <2>3. TasksOwn'
    BY <1>2, <1>3, <1>7, <2>2, NoneBrought, Abandoned
  <2> QED BY <2>1, <2>3
<1>8. CASE Head(events) = "error"
  <2>1. /\ signingIn' = signingIn \/ signingIn' = FALSE
        /\ UNCHANGED <<verifying, auth, wanted, out, worker>>
    <3>1. "error" \notin Accounts
      BY WorkerAssumption DEF Words
    <3> QED BY <1>8, <3>1 DEF PollBrowser
  <2> QED BY <2>1, <1>6
<1>9. CASE Head(events) = "closed"
  <2>1. "closed" \notin Accounts
    BY WorkerAssumption DEF Words
  <2>2. UNCHANGED <<verifying, manual, wanted, out>>
    BY <1>9, <2>1 DEF PollBrowser
  <2>3. CASE signingIn /\ ~verifying
    BY <1>7, <1>9, <2>1, <2>2, <2>3 DEF PollBrowser
  <2>4. CASE ~(signingIn /\ ~verifying)
    <3>1. UNCHANGED <<signingIn, auth, worker>>
      BY <1>9, <2>1, <2>4 DEF PollBrowser
    <3> QED BY <1>5, <2>2, <3>1 DEF signIn
  <2> QED BY <2>3, <2>4
<1>10. CASE Head(events) \in Accounts /\ Head(events) # "error" /\ Head(events) # "closed"
  BY <1>4, <1>5, <1>10 DEF PollBrowser
<1> QED BY <1>8, <1>9, <1>10 DEF PollBrowser

LEMMA PastesA ==
  ASSUME AInv, Inv', NEW a \in Accounts, PasteSignIn(a)
  PROVE  Signed' /\ TasksOwn'
BY CompletesA DEF PasteSignIn

-----------------------------------------------------------------------------
(* Games, scans and syncs, and the worker's thread.                        *)

LEMMA FetchesA ==
  ASSUME AInv, Inv', RunFetch
  PROVE  Signed' /\ TasksOwn'
<1>1. /\ tasks # <<>> /\ UNCHANGED accountVars /\ WorkerTypeOK
  BY DEF RunFetch, AInv, Inv, GamesInv
<1>2. Head(tasks) \in Task
  BY <1>1, HeadTailProperties, EmptySeq DEF WorkerTypeOK
<1>3. PICK ok \in BOOLEAN, full \in BOOLEAN : Finished(Answer(Head(tasks), ok, full, {}))
  BY DEF RunFetch
<1> DEFINE r == Answer(Head(tasks), ok, full, {})
<1>4. r \in Result /\ r.task = Head(tasks) /\ Finished(r)
  BY <1>2, <1>3 DEF Answer, Result
<1> HIDE DEF r
<1>5. N' = N /\ \A i \in 1..N : Submitted'[i] = Submitted[i]
  BY <1>1, <1>4, FinishedSubmits
<1>6. UNCHANGED <<vault, session, key, scope, dl, signingIn, verifying, auth, wanted,
                  libraryPending, out>>
  BY <1>1 DEF accountVars, slots, window, signIn, fetches
<1>7. Signed'
  BY <1>6, SignedStays DEF AInv, Signed
<1> QED BY <1>5, <1>6, <1>7, TasksStay

\* Whatever the rest of the launcher does to the worker.
LEMMA Elsewheres ==
  ASSUME AInv, Inv', UNCHANGED accountVars,
         \/ UNCHANGED worker
         \/ \E kinds \in {{}, Moves} : Passes(0, kinds, <<>>)
  PROVE  Signed' /\ TasksOwn'
<1>1. CASE UNCHANGED worker
  <2>1. UNCHANGED <<vault, session, key, scope, dl, signingIn, verifying, auth, wanted,
                    libraryPending, out>>
    BY DEF accountVars, slots, window, signIn, fetches
  <2>2. Signed'
    BY <2>1, SignedStays DEF AInv, Signed
  <2> QED BY <1>1, <2>1, <2>2, WorkerStays, TasksStay
<1>2. ASSUME NEW kinds \in {{}, Moves}, Passes(0, kinds, <<>>)
      PROVE  Signed' /\ TasksOwn'
  <2> DEFINE d == 0
  <2>1. d \in {0, 1} /\ d # 1 /\ Passes(d, kinds, <<>>)
    BY <1>2
  <2> HIDE DEF d
  <2> QED BY <2>1, AccountsAlone
<1> QED BY <1>1, <1>2

LEMMA SyncNowPasses ==
  ASSUME Inv, Inv', Sync(results, <<>>)
  PROVE  \E kinds \in {{}, Moves} : Passes(0, kinds, <<>>)
<1>1. WorkerTypeOK /\ GamesTypeOK'
  BY Lengths
<1>2. SyncSteam(Left(0), ~busy, steamPending, <<>>)
  BY NoneApplied DEF Sync
<1>3. (~busy) \in BOOLEAN
  OBVIOUS
<1> QED BY <1>1, <1>2, <1>3, NoneApplied, NothingMore, SyncPasses

LEMMA GamesA ==
  ASSUME AInv, Inv', GameActs \/ OutsideActs \/ Poll \/ PollSteam, UNCHANGED accountVars
  PROVE  Signed' /\ TasksOwn'
<1>1. UNCHANGED worker \/ Rescan(results) \/ Sync(results, <<>>)
  BY DEF GameActs, OutsideActs, Launch, GameExits, Uninstall, Download, OtherLaunch,
         OtherEnds, OtherExit, OrphanEnds, Outside, OtherUninstall, SetInSteam, ApplySettings,
         SteamChanges, RestartSteam, Quit, Poll, PollSteam
<1>2. Inv /\ WorkerTypeOK
  BY Lengths DEF AInv
<1> QED BY <1>1, <1>2, RescanPasses, SyncNowPasses, Elsewheres

LEMMA RunsA ==
  ASSUME AInv, Inv', RunScan \/ RunSteam, UNCHANGED accountVars
  PROVE  Signed' /\ TasksOwn'
<1>1. tasks # <<>> /\ WorkerTypeOK /\ Head(tasks) \in Task
  <2>1. tasks # <<>> /\ WorkerTypeOK
    BY DEF RunScan, RunSteam, AInv, Inv, GamesInv
  <2> QED BY <2>1, HeadTailProperties, EmptySeq DEF WorkerTypeOK
<1>2. UNCHANGED worker \/ \E r \in Result : r.task = Head(tasks) /\ Finished(r)
  <2>1. ASSUME NEW ok \in BOOLEAN, NEW full \in BOOLEAN, NEW found, found \subseteq Games
        PROVE  /\ Answer(Head(tasks), ok, full, found) \in Result
               /\ Answer(Head(tasks), ok, full, found).task = Head(tasks)
    BY <1>1, <2>1 DEF Answer, Result
  <2>2. CASE RunScan
    <3>1. disk \subseteq Games
      BY DEF AInv, Inv, GamesInv, GamesTypeOK
    <3>2. CASE Finished(Answer(Head(tasks), FALSE, FALSE, {}))
      BY <2>1, <3>2
    <3>3. ASSUME NEW found \in SUBSET disk,
                 Finished(Answer(Head(tasks), TRUE, found = disk, found))
          PROVE  \E r \in Result : r.task = Head(tasks) /\ Finished(r)
      <4>1. (found = disk) \in BOOLEAN /\ found \subseteq Games
        BY <3>1
      <4> QED BY <2>1, <3>3, <4>1
    <3> QED BY <2>2, <3>2, <3>3 DEF RunScan
  <2>3. CASE RunSteam
    <3>1. (shortcuts = Head(tasks).games) \in BOOLEAN /\ {} \subseteq Games
      OBVIOUS
    <3> QED BY <2>1, <2>3, <3>1 DEF RunSteam
  <2> QED BY <2>2, <2>3
<1>3. CASE UNCHANGED worker
  BY <1>3, Elsewheres
<1>4. ASSUME NEW r \in Result, r.task = Head(tasks), Finished(r)
      PROVE  Signed' /\ TasksOwn'
  <2>1. N' = N /\ \A i \in 1..N : Submitted'[i] = Submitted[i]
    BY <1>1, <1>4, FinishedSubmits
  <2>2. UNCHANGED <<vault, session, key, scope, dl, signingIn, verifying, auth, wanted,
                    libraryPending, out>>
    BY DEF accountVars, slots, window, signIn, fetches
  <2>3. Signed'
    BY <2>2, SignedStays DEF AInv, Signed
  <2> QED BY <2>1, <2>2, <2>3, TasksStay
<1> QED BY <1>2, <1>3, <1>4

LEMMA GamesDoneA ==
  ASSUME AInv, Inv', results # <<>>, ScanDone(Head(results)) \/ SteamDone(Head(results)),
         UNCHANGED accountVars
  PROVE  Signed' /\ TasksOwn'
<1> DEFINE r == Head(results)
           d == 1
<1>1. /\ d \in {0, 1} /\ Left(d) = Tail(results) /\ Applies(d) /\ Submitted[1] = r.task
      /\ WorkerTypeOK /\ GamesTypeOK'
  BY Lengths, FirstResult DEF AInv
<1> HIDE DEF d
<1>2. Submitted[1].kind \in {"scan", "steam"}
  BY <1>1 DEF ScanDone, SteamDone
<1>3. \/ Queue(Left(d), {}, <<>>)
      \/ \E idle \in BOOLEAN : \E waits : SyncSteam(Left(d), idle, waits, <<>>)
  <2>1. (~busy) \in BOOLEAN
    OBVIOUS
  <2>2. CASE ScanDone(r)
    BY <1>1, <2>1, <2>2 DEF ScanDone, Sync
  <2>3. CASE SteamDone(r)
    BY <1>1, <2>3 DEF SteamDone
  <2> QED BY <2>2, <2>3
<1>4. \E kinds \in {{}, Moves} : Passes(d, kinds, <<>>)
  BY <1>1, <1>3, NothingMore, QueuePasses, SyncPasses
<1> QED BY <1>1, <1>2, <1>4, AccountsAlone

-----------------------------------------------------------------------------
(* Completions.                                                            *)

LEMMA FirstA ==
  ASSUME AInv, Inv', results # <<>>
  PROVE  /\ Submitted[1] = Head(results).task /\ 1 \in 1..N /\ N \in Nat /\ N' \in Nat
         /\ Head(results) \in Result /\ Head(results).task.by \in Accounts \union {None}
         /\ Inv /\ Signed /\ RefreshesOwn /\ CompletesWanted /\ BeginsAwaited /\ AccountsPending
BY Lengths, FirstResult DEF AInv, TasksOwn, Task

LEMMA DonePasses ==
  ASSUME AInv, Inv', results # <<>>, NEW more \in Seq(Task),
         Queue(Tail(results), {}, more) \/ SaveLibrary(Tail(results), more)
  PROVE  \E kinds \in {{}, Moves} : Passes(1, kinds, more)
<1> DEFINE d == 1
<1>1. /\ d \in {0, 1} /\ Left(d) = Tail(results) /\ Applies(d)
      /\ WorkerTypeOK /\ GamesTypeOK /\ GamesTypeOK'
  BY Lengths, FirstResult DEF AInv
<1> HIDE DEF d
<1>2. \E kinds \in {{}, Moves} : Passes(d, kinds, more)
  BY <1>1, QueuePasses, SavePasses
<1> QED BY <1>2 DEF d

\* A completion that leaves the sign-in alone.
LEMMA SignInStays ==
  ASSUME AInv, Inv', results # <<>>, NEW kinds \in {{}, Moves}, NEW more,
         Passes(1, kinds, more), Head(results).task.kind \notin {"begin", "complete"},
         \A k : Brings(k, more) => more[k].kind # "complete", UNCHANGED signIn
  PROVE  CompletesWanted' /\ BeginsAwaited'
<1> DEFINE d == 1
<1>1. /\ d \in {0, 1} /\ Passes(d, kinds, more) /\ "complete" \notin kinds /\ "begin" \notin kinds
  BY DEF Moves
<1> HIDE DEF d
<1>2. ~Answering(1) /\ ~Beginning(1)
  BY FirstA DEF Answering, Beginning
<1>3. UNCHANGED <<signingIn, verifying, auth, wanted>>
  BY DEF signIn
<1> QED BY <1>1, <1>2, <1>3, FirstA, CompletesStill, BeginsStill

\* A completion that asks for nothing of accounts and changes only flags.
LEMMA FlagsDone ==
  ASSUME AInv, Inv', results # <<>>,
         Queue(Tail(results), {}, <<>>) \/ SaveLibrary(Tail(results), <<>>),
         Head(results).task.kind \notin {"begin", "complete", "account"},
         UNCHANGED <<vault, session, key, scope, dl, signIn, libraryPending, out>>
  PROVE  Signed' /\ TasksOwn'
<1>1. PICK kinds \in {{}, Moves} : Passes(1, kinds, <<>>)
  BY DonePasses, NothingMore
<1>2. Signed'
  <2>1. wanted' = wanted
    BY DEF signIn
  <2> QED BY <2>1, SignedStays DEF AInv, Signed
<1>3. CompletesWanted' /\ BeginsAwaited'
  BY <1>1, NoneBrought, SignInStays
<1> DEFINE d == 1
<1>4. d \in {0, 1} /\ Passes(d, kinds, <<>>)
  BY <1>1
<1> HIDE DEF d
<1>5. RefreshesOwn'
  BY <1>4, FirstA, NoneBrought, RefreshesKept
<1>6. AccountsPending'
  <2>1. ~OfAccount(1)
    BY FirstA DEF OfAccount
  <2> QED BY <1>4, <2>1, FirstA, NoneBrought, PendingStill
<1> QED BY <1>2, <1>3, <1>5, <1>6 DEF TasksOwn

LEMMA AsksEach ==
  ASSUME NEW asked, asked \subseteq Accounts, NEW order \in Orders(asked)
  PROVE  /\ \A k : Brings(k, AccountTasks(order)) =>
              /\ AccountTasks(order)[k].kind = "account"
              /\ AccountTasks(order)[k].by \in asked
         /\ \A k, l : Brings(k, AccountTasks(order)) /\ Brings(l, AccountTasks(order))
                        /\ AccountTasks(order)[k].by = AccountTasks(order)[l].by => k = l
         /\ \A a \in asked : \E k : /\ Brings(k, AccountTasks(order))
                                    /\ AccountTasks(order)[k].by = a
<1>1. Cardinality(asked) \in Nat
  BY AccountsAssumption, FS_Subset, FS_CardinalityType
<1> DEFINE n == Cardinality(asked)
           f == AccountTasks(order)
<1>2. /\ order \in [1..n -> asked]
      /\ \A k, l \in 1..n : order[k] = order[l] => k = l
      /\ \A a \in asked : \E k \in 1..n : order[k] = a
  BY DEF Orders, Bijection, Injection, Surjection, IsInjective
<1>3. /\ f \in [1..n -> Task]
      /\ \A k \in 1..n : f[k].kind = "account" /\ f[k].by = order[k]
  <2>1. \A k \in 1..n : /\ Make("account", order[k], {}) \in Task
                        /\ Make("account", order[k], {}).kind = "account"
                        /\ Make("account", order[k], {}).by = order[k]
    BY <1>2 DEF Make, Task, TaskKinds
  <2> QED BY <1>2, <2>1 DEF AccountTasks
<1> HIDE DEF f
<1>4. \A k : Brings(k, f) <=> k \in 1..n
  <2>1. n \in Nat
    BY <1>1
  <2> HIDE DEF n
  <2>2. Len(f) = n
    BY <1>3, <2>1, ASequence
  <2> QED BY <2>2 DEF Brings
<1> HIDE DEF n
<1>5. /\ \A k : Brings(k, f) => f[k].kind = "account" /\ f[k].by \in asked
      /\ \A k, l : Brings(k, f) /\ Brings(l, f) /\ f[k].by = f[l].by => k = l
      /\ \A a \in asked : \E k : Brings(k, f) /\ f[k].by = a
  BY <1>2, <1>3, <1>4
<1> QED BY <1>5 DEF f

\* A refresh that counts is of the session shown, and tells its account.
LEMMA RefreshTells ==
  ASSUME AInv, Inv', results # <<>>, RefreshDone(Head(results)),
         ~(~Current(Head(results).task) \/ Unusable(Head(results)))
  PROVE  /\ session # None /\ session \in Accounts
         /\ scope' = session /\ session' = session
<1> DEFINE r == Head(results)
<1>1. /\ r.task.kind = "refresh" /\ scope' = (IF r.full THEN r.task.by ELSE scope)
      /\ session' = session
  BY DEF RefreshDone
<1>2. /\ r \in Result /\ Submitted[1] = r.task /\ 1 \in 1..N /\ RefreshesOwn /\ Signed
      /\ session \in Accounts \union {None}
  BY FirstA, NoOne
<1>3. r.full \in BOOLEAN /\ r.task.current
  BY <1>2 DEF Result, Current
<1>4. r.task.by # None /\ (scope = None => r.task.by = session)
  BY <1>1, <1>2, <1>3 DEF RefreshesOwn, Fetches
<1>5. ~OtherAccount(r) /\ ~(scope = None /\ ~r.full)
  BY DEF Unusable
<1> HIDE DEF r
<1>6. CASE scope = None
  BY <1>1, <1>2, <1>3, <1>4, <1>5, <1>6
<1>7. CASE scope # None
  <2>1. session = scope
    BY <1>2, <1>7 DEF Signed, SessionIsOfKey
  <2> QED BY <1>1, <1>2, <1>5, <1>7, <2>1 DEF OtherAccount
<1> QED BY <1>6, <1>7

LEMMA RefreshesDoneA ==
  ASSUME AInv, Inv', results # <<>>, RefreshDone(Head(results))
  PROVE  Signed' /\ TasksOwn'
<1> DEFINE r == Head(results)
<1>1. r.task.kind = "refresh" /\ UNCHANGED <<signIn, out>>
  BY DEF RefreshDone
<1>2. CASE Ignored
  <2>1. /\ Queue(Tail(results), {}, <<>>) /\ UNCHANGED <<slots, window, libraryPending>>
    BY <1>2 DEF Ignored
  <2>2. UNCHANGED <<vault, session, key, scope, dl, libraryPending>>
    BY <2>1 DEF slots, window
  <2> QED BY <1>1, <2>1, <2>2, FlagsDone
<1>3. CASE ~(~Current(r.task) \/ Unusable(r))
  <2>1. session # None /\ session \in Accounts /\ scope' = session /\ session' = session
    BY <1>3, RefreshTells
  <2>2. wanted' = wanted /\ out' = out
    BY <1>1 DEF signIn
  <2>3. /\ Signed /\ Inv /\ N \in Nat /\ N' \in Nat /\ Submitted[1].kind = "refresh"
        /\ RefreshesOwn /\ AccountsPending /\ scope' # None
    BY <1>1, <2>1, FirstA
  <2>4. ASSUME Upsert(scope', session), key' = (IF key = None THEN active' ELSE key), dl' = key',
               libraryPending' = libraryPending \union Stale, Reload,
               NEW order \in Orders(Stale), SaveLibrary(Tail(results), AccountTasks(order))
        PROVE  Signed' /\ TasksOwn'
    <3>1. vault' = [vault EXCEPT ![session] = session] /\ active' = session
      BY <2>1, <2>4 DEF Upsert
    <3>2. key' = session
      BY <2>3, <2>4, <3>1 DEF Signed, SessionIsOfKey
    <3>3. In(vault') \subseteq In(vault) \union {session} /\ \A a \in In(vault') : vault'[a] = a
      BY <2>1, <2>3, <3>1, NoOne DEF In, Signed, SessionIsOfKey
    <3>4. Signed'
      BY <2>1, <2>2, <2>3, <2>4, <3>2, <3>3 DEF Signed, SessionIsOfKey, SignedOutStaysOut
    <3>5. Stale \subseteq Accounts /\ Stale \intersect libraryPending = {}
      BY DEF Stale, In
    <3> DEFINE more == AccountTasks(order)
               asked == Stale
               d == 1
    <3>6. /\ more \in Seq(Task) /\ SaveLibrary(Tail(results), more)
          /\ \A k : Brings(k, more) => more[k].kind = "account" /\ more[k].by \in asked
          /\ \A k, l : Brings(k, more) /\ Brings(l, more) /\ more[k].by = more[l].by => k = l
          /\ \A a \in asked : \E k : Brings(k, more) /\ more[k].by = a
          /\ libraryPending' = libraryPending \union asked /\ asked \intersect libraryPending = {}
      BY <2>4, <3>5, AsksEach, TasksOfAccounts
    <3> HIDE DEF more, asked
    <3>7. PICK kinds \in {{}, Moves} : Passes(1, kinds, more)
      BY <3>6, DonePasses
    <3>8. d \in {0, 1} /\ Passes(d, kinds, more)
      BY <3>7
    <3>9. CompletesWanted' /\ BeginsAwaited'
      BY <1>1, <3>6, <3>7, SignInStays
    <3> HIDE DEF d
    <3>10. RefreshesOwn'
      BY <2>3, <3>6, <3>8, RefreshesKept
    <3>11. AccountsPending'
      <4>1. ASSUME NEW i, Stays(i, d), OfAccount(i) PROVE Submitted[i].by \in libraryPending'
        <5>1. i \in 1..N
          BY <2>3, <3>8, <4>1 DEF Stays
        <5> QED BY <2>3, <3>6, <4>1, <5>1 DEF AccountsPending
      <4>2. ASSUME NEW a \in libraryPending
            PROVE  \E i : Stays(i, d) /\ OfAccount(i) /\ Submitted[i].by = a
        <5>1. PICK i \in 1..N : OfAccount(i) /\ Submitted[i].by = a
          BY <2>3 DEF AccountsPending
        <5>2. Stays(i, d)
          BY <2>3, <3>8, <5>1, Staying DEF OfAccount
        <5> QED BY <5>1, <5>2
      <4>3. \A a \in libraryPending' :
              \/ \E i : Stays(i, d) /\ OfAccount(i) /\ Submitted[i].by = a
              \/ \E k : Brings(k, more) /\ more[k].kind = "account" /\ more[k].by = a
        BY <3>6, <4>2
      <4>4. \A k : Brings(k, more) /\ more[k].kind = "account"
              => more[k].by \in libraryPending' \ libraryPending
        BY <3>6
      <4>5. \A k, l : Brings(k, more) /\ Brings(l, more) /\ more[k].by = more[l].by
                        /\ more[k].kind = "account" /\ more[l].kind = "account" => k = l
        BY <3>6
      <4>6. /\ AccountsPending /\ N \in Nat /\ N' \in Nat
            /\ d \in {0, 1} /\ Passes(d, kinds, more)
        BY <2>3, <3>8
      <4> HIDE DEF r
      <4> QED BY <4>1, <4>3, <4>4, <4>5, <4>6, PendingKept
    <3> QED BY <3>4, <3>9, <3>10, <3>11 DEF TasksOwn
  <2>5. ASSUME UNCHANGED <<slots, view, key, dl, libraryPending, games>>,
               Queue(Tail(results), {}, <<>>)
        PROVE  Signed' /\ TasksOwn'
    <3>1. UNCHANGED <<vault, key, dl, libraryPending>>
      BY <2>5 DEF slots
    <3>2. Signed'
      BY <2>1, <2>2, <2>3, <3>1 DEF Signed, SessionIsOfKey, SignedOutStaysOut, In
    <3>3. PICK kinds \in {{}, Moves} : Passes(1, kinds, <<>>)
      BY <2>5, DonePasses, NothingMore
    <3> DEFINE d == 1
    <3>4. d \in {0, 1} /\ Passes(d, kinds, <<>>) /\ ~OfAccount(1)
      BY <2>3, <3>3 DEF OfAccount
    <3>5. CompletesWanted' /\ BeginsAwaited'
      BY <1>1, <3>3, NoneBrought, SignInStays
    <3> HIDE DEF d
    <3>6. RefreshesOwn'
      BY <2>3, <3>4, NoneBrought, RefreshesKept
    <3>7. AccountsPending'
      BY <2>3, <3>1, <3>4, NoneBrought, PendingStill
    <3> QED BY <3>2, <3>5, <3>6, <3>7 DEF TasksOwn
  <2> QED BY <1>3, <2>1, <2>4, <2>5 DEF RefreshDone
<1> QED BY <1>2, <1>3 DEF RefreshDone

LEMMA AccountsDoneA ==
  ASSUME AInv, Inv', results # <<>>, AccountDone(Head(results)) \/ AddDone(Head(results))
  PROVE  Signed' /\ TasksOwn'
<1> DEFINE r == Head(results)
<1>1. CASE AddDone(r)
  <2>1. /\ r.task.kind = "add" /\ UNCHANGED <<signIn, out, slots, window, libraryPending>>
        /\ Queue(Tail(results), {}, <<>>) \/ SaveLibrary(Tail(results), <<>>)
    BY <1>1 DEF AddDone, Ignored
  <2>2. UNCHANGED <<vault, session, key, scope, dl>>
    BY <2>1 DEF slots, window
  <2> QED BY <2>1, <2>2, FlagsDone
<1>2. CASE AccountDone(r)
  <2>1. /\ r.task.kind = "account" /\ libraryPending' = libraryPending \ {r.task.by}
        /\ UNCHANGED <<window, signIn, out>> /\ vault' = vault
        /\ Queue(Tail(results), {}, <<>>) \/ SaveLibrary(Tail(results), <<>>)
    BY <1>2, SavesAsHeld DEF AccountDone, Forgets, AInv, Inv
  <2>2. UNCHANGED <<vault, session, key, scope, dl>> /\ wanted' = wanted /\ out' = out
    BY <2>1 DEF window, signIn
  <2>3. /\ Submitted[1] = r.task /\ 1 \in 1..N /\ N \in Nat /\ N' \in Nat /\ OfAccount(1)
        /\ RefreshesOwn /\ AccountsPending
    BY <2>1, FirstA DEF OfAccount
  <2>4. Signed'
    BY <2>2, SignedStays DEF AInv, Signed
  <2>5. PICK kinds \in {{}, Moves} : Passes(1, kinds, <<>>)
    BY <2>1, DonePasses, NothingMore
  <2>6. CompletesWanted' /\ BeginsAwaited'
    BY <2>1, <2>5, NoneBrought, SignInStays
  <2> DEFINE d == 1
             none == <<>>
  <2>7. d \in {0, 1} /\ d = 1 /\ Passes(d, kinds, none) /\ \A k : ~Brings(k, none)
    BY <2>5, NoneBrought
  <2> HIDE DEF d, none, r
  <2>8. RefreshesOwn'
    BY <2>2, <2>3, <2>7, RefreshesKept
  <2>9. AccountsPending'
    <3>1. ASSUME NEW i, Stays(i, d), OfAccount(i) PROVE Submitted[i].by \in libraryPending'
      <4>1. i \in 1..N /\ i # 1
        BY <2>3, <2>7, <3>1 DEF Stays
      <4> QED BY <2>1, <2>3, <3>1, <4>1 DEF AccountsPending
    <3>2. ASSUME NEW a \in libraryPending'
          PROVE  \E i : Stays(i, d) /\ OfAccount(i) /\ Submitted[i].by = a
      <4>1. PICK i \in 1..N : OfAccount(i) /\ Submitted[i].by = a
        BY <2>1, <2>3 DEF AccountsPending
      <4>2. Stays(i, d)
        BY <2>1, <2>3, <2>7, <4>1, Staying
      <4> QED BY <4>1, <4>2
    <3>3. \A k, l : Brings(k, none) /\ Brings(l, none) /\ none[k].by = none[l].by
                      /\ none[k].kind = "account" /\ none[l].kind = "account" => k = l
      BY <2>7
    <3>4. \A k : Brings(k, none) /\ none[k].kind = "account"
            => none[k].by \in libraryPending' \ libraryPending
      BY <2>7
    <3>5. \A a \in libraryPending' :
            \/ \E i : Stays(i, d) /\ OfAccount(i) /\ Submitted[i].by = a
            \/ \E k : Brings(k, none) /\ none[k].kind = "account" /\ none[k].by = a
      BY <3>2
    <3> QED BY <2>3, <2>7, <3>1, <3>3, <3>4, <3>5, PendingKept
  <2> QED BY <2>4, <2>6, <2>8, <2>9 DEF TasksOwn
<1> QED BY <1>1, <1>2

LEMMA BeginsDoneA ==
  ASSUME AInv, Inv', results # <<>>, BeginDone(Head(results))
  PROVE  Signed' /\ TasksOwn'
<1> DEFINE r == Head(results)
           d == 1
<1>1. /\ r.task.kind = "begin" /\ Queue(Tail(results), {}, <<>>)
      /\ UNCHANGED <<slots, window, fetches, verifying, wanted, out>>
  BY DEF BeginDone
<1>2. UNCHANGED <<vault, session, key, scope, dl, libraryPending>>
  BY <1>1 DEF slots, window, fetches
<1>3. /\ Submitted[1] = r.task /\ N \in Nat /\ N' \in Nat /\ RefreshesOwn /\ CompletesWanted
      /\ BeginsAwaited /\ AccountsPending
  BY FirstA
<1>4. Signed'
  BY <1>1, <1>2, SignedStays DEF AInv, Signed
<1>5. PICK kinds \in {{}, Moves} : Passes(1, kinds, <<>>)
  BY <1>1, DonePasses, NothingMore
<1>6. /\ d \in {0, 1} /\ Passes(d, kinds, <<>>) /\ "complete" \notin kinds /\ "begin" \notin kinds
      /\ ~Answering(1) /\ ~OfAccount(1)
  BY <1>1, <1>3, <1>5 DEF Moves, Answering, OfAccount
<1>7. \/ ~Beginning(1) /\ UNCHANGED <<signingIn, auth>>
      \/ signingIn' = FALSE \/ auth' = TRUE
  BY <1>1, <1>3 DEF BeginDone, Beginning, Current
<1> HIDE DEF d
<1>8. RefreshesOwn'
  BY <1>2, <1>3, <1>6, NoneBrought, RefreshesKept
<1>9. CompletesWanted'
  BY <1>1, <1>3, <1>6, NoneBrought, CompletesStill
<1>10. BeginsAwaited'
  <2>1. CASE ~Beginning(1) /\ UNCHANGED <<signingIn, auth>>
    BY <1>1, <1>3, <1>6, <2>1, BeginsStill
  <2>2. CASE signingIn' = FALSE \/ auth' = TRUE
    BY <2>2 DEF BeginsAwaited
  <2> QED BY <1>7, <2>1, <2>2
<1>11. AccountsPending'
  BY <1>2, <1>3, <1>6, NoneBrought, PendingStill
<1> QED BY <1>4, <1>8, <1>9, <1>10, <1>11 DEF TasksOwn

\* An answer that counts is for the account that was asked for.
LEMMA CompleteIsWanted ==
  ASSUME AInv, Inv', results # <<>>, CompleteDone(Head(results)),
         Current(Head(results).task)
  PROVE  /\ verifying /\ wanted = Head(results).task.by /\ wanted \in Accounts
         /\ wanted \notin out /\ Answering(1)
<1>1. /\ Submitted[1] = Head(results).task /\ 1 \in 1..N /\ CompletesWanted /\ Signed
      /\ Head(results).task.by \in Accounts \union {None}
  BY FirstA
<1>2. Answering(1)
  BY <1>1 DEF CompleteDone, Current, Answering
<1> QED BY <1>1, <1>2 DEF CompletesWanted, Signed

LEMMA CompletesDoneA ==
  ASSUME AInv, Inv', results # <<>>, CompleteDone(Head(results))
  PROVE  Signed' /\ TasksOwn'
<1> DEFINE r == Head(results)
           d == 1
<1>1. /\ r.task.kind = "complete" /\ UNCHANGED <<fetches, out>>
      /\ Queue(Tail(results), {}, <<>>) \/ SaveLibrary(Tail(results), <<>>)
  BY DEF CompleteDone
<1>2. UNCHANGED libraryPending
  BY <1>1 DEF fetches
<1>3. /\ Submitted[1] = r.task /\ 1 \in 1..N /\ N \in Nat /\ N' \in Nat /\ Inv /\ Signed
      /\ RefreshesOwn /\ CompletesWanted /\ BeginsAwaited /\ AccountsPending
  BY FirstA
<1>4. PICK kinds \in {{}, Moves} : Passes(1, kinds, <<>>)
  BY <1>1, DonePasses, NothingMore
<1>5. /\ d \in {0, 1} /\ d = 1 /\ Passes(d, kinds, <<>>)
      /\ "complete" \notin kinds /\ "begin" \notin kinds /\ ~Beginning(1) /\ ~OfAccount(1)
  BY <1>1, <1>3, <1>4 DEF Moves, Beginning, OfAccount
<1> HIDE DEF d
<1>6. AccountsPending'
  BY <1>2, <1>3, <1>5, NoneBrought, PendingStill
<1>7. CASE ~Current(r.task)
  <2>1. UNCHANGED <<slots, window, signIn>>
    BY <1>7 DEF CompleteDone
  <2>2. UNCHANGED <<vault, session, key, scope, dl, signingIn, verifying, auth, wanted>>
    BY <2>1 DEF slots, window, signIn
  <2>3. ~Answering(1)
    BY <1>3, <1>7 DEF Answering, Current
  <2>4. Signed'
    BY <1>1, <2>2, SignedStays DEF AInv, Signed
  <2>5. RefreshesOwn'
    BY <1>3, <1>5, <2>2, NoneBrought, RefreshesKept
  <2>6. CompletesWanted'
    BY <1>3, <1>5, <2>2, <2>3, NoneBrought, CompletesStill
  <2>7. BeginsAwaited'
    BY <1>3, <1>5, <2>2, BeginsStill
  <2> QED BY <1>6, <2>4, <2>5, <2>6, <2>7 DEF TasksOwn
<1>8. CASE Current(r.task)
  <2>1. signingIn' = FALSE /\ verifying' = FALSE /\ wanted' = None
    BY <1>8 DEF CompleteDone
  <2>2. wanted = r.task.by /\ wanted \in Accounts /\ wanted \notin out /\ Answering(1)
    BY <1>8, CompleteIsWanted
  <2>3. CompletesWanted'
    <3>1. \A i : Stays(i, d) => ~Answering(i)
      BY <1>3, <1>5, <2>2 DEF Stays, CompletesWanted
    <3> QED BY <1>3, <1>5, <2>1, <3>1, NoneBrought, CompletesKept
  <2>4. BeginsAwaited'
    BY <2>1 DEF BeginsAwaited
  <2>5. CASE /\ Upsert(r.task.by, r.task.by) /\ session' = r.task.by /\ key' = r.task.by
             /\ scope' = r.task.by /\ dl' = r.task.by
    <3>1. vault' = [vault EXCEPT ![wanted] = wanted]
      BY <2>2, <2>5 DEF Upsert
    <3>2. In(vault') \subseteq In(vault) \union {wanted} /\ \A a \in In(vault') : vault'[a] = a
      BY <1>3, <2>2, <3>1, NoOne DEF In, Signed, SessionIsOfKey
    <3>3. Signed'
      BY <1>1, <1>3, <2>1, <2>2, <2>5, <3>2, NoOne DEF Signed, SessionIsOfKey, SignedOutStaysOut
    <3>4. scope' # None
      BY <1>3, <2>2, <2>5, NoOne
    <3>5. RefreshesOwn'
      BY <1>3, <1>5, <3>4, NoneBrought, RefreshesKept
    <3> QED BY <1>6, <2>3, <2>4, <3>3, <3>5 DEF TasksOwn
  <2>6. CASE UNCHANGED <<slots, view, window, games>>
    <3>1. UNCHANGED <<vault, session, key, scope, dl>>
      BY <2>6 DEF slots, window
    <3>2. wanted' \notin out'
      BY <1>1, <1>3, <2>1, NoOne
    <3>3. Signed'
      BY <1>1, <3>1, <3>2, SignedStays
    <3>4. RefreshesOwn'
      BY <1>3, <1>5, <3>1, NoneBrought, RefreshesKept
    <3> QED BY <1>6, <2>3, <2>4, <3>3, <3>4 DEF TasksOwn
  <2> QED BY <1>8, <2>5, <2>6 DEF CompleteDone
<1> QED BY <1>7, <1>8

-----------------------------------------------------------------------------
(* The theorems.                                                           *)

LEMMA AInitially ==
  ASSUME Init
  PROVE  AInv
<1>1. Inv
  BY Initially
<1>2. PICK a \in Accounts \union {None}, k \in Accounts \union {None} :
        /\ Start(a, k)
        /\ \/ k = a /\ scope = a /\ \A b \in Accounts : vault[b] \in Accounts => vault[b] = b
           \/ k = None /\ scope \in {a, None} /\ \A b \in Accounts : vault[b] = "absent"
  <2>1. CASE \E signed \in SUBSET Accounts : \E a \in signed \union {None} :
               /\ vault = [b \in Accounts |-> IF b \in signed THEN b ELSE "absent"]
               /\ active = a /\ scope = a /\ Start(a, a)
    <3>1. PICK signed \in SUBSET Accounts, a \in Accounts \union {None} :
            /\ vault = [b \in Accounts |-> IF b \in signed THEN b ELSE "absent"]
            /\ scope = a /\ Start(a, a)
      BY <2>1
    <3>2. \A b \in Accounts : vault[b] \in Accounts => vault[b] = b
      BY <1>1, <3>1, NoOne
    <3> QED BY <3>1, <3>2
  <2>2. CASE \E a \in Accounts :
               /\ vault = [b \in Accounts |-> "absent"] /\ active = None
               /\ scope \in {a, None} /\ Start(a, None)
    BY <2>2
  <2> QED BY <2>1, <2>2 DEF Init
<1>3. /\ session = a /\ key = k /\ dl = k
      /\ tasks = <<Make("scan", None, {})>>
                 \o (IF a = None THEN <<>> ELSE <<Make("refresh", a, {})>>)
  BY <1>2 DEF Start
<1>4. /\ signingIn = FALSE /\ verifying = FALSE /\ libraryPending = {} /\ wanted = None
      /\ out = {} /\ results = <<>>
  BY DEF Init
<1>5. Signed
  BY <1>1, <1>2, <1>3, <1>4, NoOne DEF Signed, SessionIsOfKey, SignedOutStaysOut, In
<1>6. N \in Nat /\ \A i \in 1..N : Submitted[i] = tasks[i] /\ i \in 1..Len(tasks)
  <2>1. WorkerTypeOK
    BY <1>1 DEF Inv, GamesInv
  <2>2. Len(results) = 0
    BY <1>4
  <2> QED BY <2>1, <2>2, SubmittedAt
<1>7. \A i \in 1..Len(tasks) :
        \/ tasks[i].kind = "scan"
        \/ tasks[i].kind = "refresh" /\ tasks[i].by = a /\ a # None
  <2> DEFINE first == <<Make("scan", None, {})>>
             rest == IF a = None THEN <<>> ELSE <<Make("refresh", a, {})>>
  <2>1. first \in Seq(Task) /\ Len(first) = 1 /\ first[1].kind = "scan"
    <3>1. Make("scan", None, {}) \in Task /\ Make("scan", None, {}).kind = "scan"
      BY DEF Make, Task, TaskKinds
    <3> QED BY <3>1
  <2>2. rest \in Seq(Task) /\ \A i \in 1..Len(rest) :
          rest[i].kind = "refresh" /\ rest[i].by = a /\ a # None
    <3>1. CASE a = None
      BY <3>1
    <3>2. CASE a # None
      <4>1. Make("refresh", a, {}) \in Task /\ Make("refresh", a, {}).kind = "refresh"
            /\ Make("refresh", a, {}).by = a
        BY DEF Make, Task, TaskKinds
      <4> QED BY <3>2, <4>1
    <3> QED BY <3>1, <3>2
  <2>3. tasks = first \o rest
    BY <1>3
  <2> HIDE DEF first, rest
  <2>4. Len(rest) \in Nat
    BY <2>2, LenProperties
  <2>5. /\ Len(tasks) = 1 + Len(rest)
        /\ \A i \in 1..1 + Len(rest) : tasks[i] = IF i <= 1 THEN first[i] ELSE rest[i - 1]
    <3>1. first \in Seq(Task) /\ rest \in Seq(Task) /\ Len(first) = 1
      BY <2>1, <2>2
    <3> QED BY <2>3, <3>1, OneBefore
  <2>6. ASSUME NEW i \in 1..Len(tasks), i # 1
        PROVE  tasks[i].kind = "refresh" /\ tasks[i].by = a /\ a # None
    <3>1. i \in 1..1 + Len(rest) /\ ~(i <= 1) /\ i - 1 \in 1..Len(rest)
      BY <2>4, <2>5, <2>6
    <3>2. tasks[i] = rest[i - 1]
      BY <2>5, <3>1
    <3> QED BY <2>2, <3>1, <3>2
  <2>7. 1 \in 1..Len(tasks) => tasks[1].kind = "scan"
    BY <2>1, <2>5
  <2> QED BY <2>6, <2>7
<1>8. TasksOwn
  <2>1. \A i \in 1..N : \/ Submitted[i].kind = "scan"
                        \/ /\ Submitted[i].kind = "refresh"
                           /\ Submitted[i].by = session /\ session # None
    BY <1>3, <1>6, <1>7
  <2> QED BY <1>4, <2>1 DEF TasksOwn, RefreshesOwn, CompletesWanted, BeginsAwaited,
                            AccountsPending, Fetches, Answering, Beginning, OfAccount
<1> QED BY <1>1, <1>5, <1>8 DEF AInv

LEMMA ASteps ==
  ASSUME AInv, [Next]_vars
  PROVE  AInv'
<1>1. Inv'
  BY Steps DEF AInv
<1>2. CASE Run
  <2>1. Signed' /\ TasksOwn'
    BY <1>1, <1>2, FetchesA, RunsA DEF Run
  <2> QED BY <1>1, <2>1 DEF AInv
<1>3. CASE Apply
  <2>1. results # <<>>
    BY <1>3 DEF Apply
  <2>2. Signed' /\ TasksOwn'
    BY <1>1, <1>3, <2>1, GamesDoneA, RefreshesDoneA, AccountsDoneA, BeginsDoneA, CompletesDoneA
       DEF Apply
  <2> QED BY <1>1, <2>2 DEF AInv
<1>4. CASE Tick
  <2>1. Signed' /\ TasksOwn'
    BY <1>1, <1>4, PollsBrowserA, GamesA DEF Tick
  <2> QED BY <1>1, <2>1 DEF AInv
<1>5. CASE UserActs
  <2>1. Signed' /\ TasksOwn'
    BY <1>1, <1>5, SwitchesA, SignsOutA, PastesA, RefreshesA, GamesA DEF UserActs
  <2> QED BY <1>1, <2>1 DEF AInv
<1>6. CASE WindowActs
  <2>1. Signed' /\ TasksOwn'
    BY <1>1, <1>6, WindowsA
  <2> QED BY <1>1, <2>1 DEF AInv
<1>7. CASE UNCHANGED vars
  <2>1. UNCHANGED accountVars /\ UNCHANGED worker
    BY <1>7 DEF vars
  <2>2. Signed' /\ TasksOwn'
    BY <1>1, <2>1, Elsewheres
  <2> QED BY <1>1, <2>2 DEF AInv
<1>8. CASE OutsideActs /\ UNCHANGED accountVars
  <2>1. Signed' /\ TasksOwn'
    BY <1>1, <1>8, GamesA
  <2> QED BY <1>1, <2>1 DEF AInv
<1>9. ASSUME NEW a \in Accounts, Elsewhere(a)
      PROVE  AInv'
  <2>1. Signed' /\ TasksOwn'
    BY <1>1, <1>9, ElsewhereA
  <2> QED BY <1>1, <2>1 DEF AInv
<1> QED BY <1>2, <1>3, <1>4, <1>5, <1>6, <1>7, <1>8, <1>9 DEF Next

LEMMA AAlways ==
  Spec => []AInv
<1>1. Init => AInv
  BY AInitially
<1>2. AInv /\ [Next]_vars => AInv'
  BY ASteps
<1> QED BY <1>1, <1>2, PTL DEF Spec

\* The session, the account shown and its scope never part, whatever answer
\* arrives late.
THEOREM SessionOfKey == Spec => []SessionIsOfKey
<1>1. AInv => SessionIsOfKey
  BY DEF AInv, Signed
<1> QED BY <1>1, AAlways, PTL

\* No answer signs an account in again that signed out meanwhile.
THEOREM StaysOut == Spec => []SignedOutStaysOut
<1>1. AInv => SignedOutStaysOut
  BY DEF AInv, Signed
<1> QED BY <1>1, AAlways, PTL

\* No sign-in waits for an answer that is not coming.
THEOREM AnswerComes == Spec => []SignInHasAnswer
<1>1. AInv => SignInHasAnswer
  <2> SUFFICES ASSUME AInv PROVE SignInHasAnswer
    OBVIOUS
  <2>1. DOMAIN Submitted = 1..N
    BY SubmittedAt DEF AInv, Inv, GamesInv
  <2>2. verifying \in BOOLEAN
    BY DEF AInv, Inv, AccountsOK
  <2>3. /\ verifying <=> \E i \in 1..N : Answering(i)
        /\ BeginsAwaited
    BY DEF AInv, TasksOwn, CompletesWanted
  <2> QED BY <2>1, <2>2, <2>3 DEF SignInHasAnswer, Underway, Answering, Beginning, BeginsAwaited
<1> QED BY <1>1, AAlways, PTL

\* Every account that waits for its library has one fetch under way.
THEOREM OneFetchEach == Spec => []PendingHasTask
<1>1. AInv => PendingHasTask
  <2> SUFFICES ASSUME AInv, NEW a \in Accounts
               PROVE  Cardinality({i \in DOMAIN Submitted : /\ Submitted[i].kind = "account"
                                                            /\ Submitted[i].by = a})
                        = IF a \in libraryPending THEN 1 ELSE 0
    BY DEF PendingHasTask
  <2> DEFINE S == {i \in DOMAIN Submitted : Submitted[i].kind = "account" /\ Submitted[i].by = a}
  <2>1. DOMAIN Submitted = 1..N
    BY SubmittedAt DEF AInv, Inv, GamesInv
  <2>2. AccountsPending
    BY DEF AInv, TasksOwn
  <2>3. CASE a \in libraryPending
    <3>1. PICK i \in 1..N : OfAccount(i) /\ Submitted[i].by = a
      BY <2>2, <2>3 DEF AccountsPending
    <3>2. S = {i}
      BY <2>1, <2>2, <3>1 DEF AccountsPending, OfAccount
    <3> QED BY <2>3, <3>2, FS_Singleton
  <2>4. CASE a \notin libraryPending
    <3>1. S = {}
      BY <2>1, <2>2, <2>4 DEF AccountsPending, OfAccount
    <3> QED BY <2>4, <3>1, FS_EmptySet
  <2> QED BY <2>3, <2>4
<1> QED BY <1>1, AAlways, PTL

\* Only a completion takes a result away.
LEMMA OnlyApplyTakes ==
  ASSUME Inv, [Next]_vars, ~Apply
  PROVE  Len(results') >= Len(results)
<1>1. WorkerTypeOK /\ results \in Seq(Result) /\ Len(results) \in Nat
  BY LenProperties DEF Inv, GamesInv, WorkerTypeOK
<1>2. \/ results' = results
      \/ \E kinds, more : Queue(results, kinds, more)
      \/ \E r : Finished(r)
  <2>1. CASE Run
    BY <2>1 DEF Run, RunFetch, RunScan, RunSteam, worker
  <2>2. CASE Tick
    BY <2>2 DEF Tick, PollBrowser, CompleteSignIn, Poll, PollSteam, Rescan, Sync, SyncSteam, worker
  <2>3. CASE UserActs
    BY <2>3 DEF UserActs, SwitchAccount, SignOut, RemoveAccount, Leave, SignOutAbandon, Abandon,
         PasteSignIn, CompleteSignIn, Refresh, AddOwned, SignIn, CancelSignIn, GameActs, Launch,
         GameExits, Uninstall, Download, SetInSteam, ApplySettings, RestartSteam, Quit, Rescan,
         Sync, SyncSteam, worker
  <2>4. CASE WindowActs
    BY <2>4 DEF WindowActs, HelperReports, HelperCloses, WindowReports, worker
  <2>5. CASE UNCHANGED vars
    BY <2>5 DEF vars, worker
  <2>6. CASE OutsideActs \/ \E a \in Accounts : Elsewhere(a)
    BY <2>6 DEF OutsideActs, OtherLaunch, OtherEnds, OtherExit, OrphanEnds, Outside,
         OtherUninstall, SteamChanges, Elsewhere, worker
  <2> QED BY <2>1, <2>2, <2>3, <2>4, <2>5, <2>6 DEF Next
<1>3. ASSUME NEW kinds, NEW more, Queue(results, kinds, more)
      PROVE  Len(results') = Len(results)
  <2>1. results' = [i \in 1..Len(results) |-> [results[i] EXCEPT !.task = Outdated(@, kinds)]]
    BY <1>3 DEF Queue
  <2> DEFINE S == {results'[i] : i \in 1..Len(results)}
  <2>2. results' \in [1..Len(results) -> S]
    BY <2>1
  <2> HIDE DEF S
  <2> QED BY <1>1, <2>2, ASequence
<1>4. ASSUME NEW r, Finished(r) PROVE Len(results') >= Len(results)
  <2>1. results' = Append(results, r)
    BY <1>4 DEF Finished
  <2>2. results \in Seq(Result \union {r})
    BY <1>1, ElementOfSeq
  <2>3. Len(results') = Len(results) + 1
    BY <2>1, <2>2, AppendProperties
  <2> QED BY <1>1, <2>3
<1> QED BY <1>1, <1>2, <1>3, <1>4

\* A completion changes whose session a slot holds only for the session shown
\* or the sign-in being verified: what another account's fetch saves is what
\* its slot holds by then.
THEOREM WantedChanges == Spec => OnlyWantedChanges
<1> DEFINE P == Len(results') < Len(results)
                  => /\ session' # session => verifying /\ session' = wanted
                     /\ vault' # vault =>
                          \E a \in Accounts :
                            /\ \A b \in Accounts \ {a} : vault'[b] = vault[b]
                            /\ a = session \/ (verifying /\ a = wanted)
<1>1. AInv /\ [Next]_vars => P
  <2> SUFFICES ASSUME AInv, [Next]_vars, Len(results') < Len(results)
               PROVE  /\ session' # session => verifying /\ session' = wanted
                      /\ vault' # vault =>
                           \E a \in Accounts :
                             /\ \A b \in Accounts \ {a} : vault'[b] = vault[b]
                             /\ a = session \/ (verifying /\ a = wanted)
    OBVIOUS
  <2>1. Inv /\ Inv' /\ vault \in [Accounts -> Accounts \union {"out", "absent"}]
    BY Steps, NoOne DEF AInv
  <2>2. Apply /\ results # <<>>
    <3>1. Len(results) \in Nat /\ Len(results') \in Nat
      BY <2>1, SubmittedAt, SubmittedNext DEF Inv, GamesInv
    <3>2. Apply
      BY <2>1, <3>1, OnlyApplyTakes
    <3> QED BY <3>2 DEF Apply
  <2> DEFINE r == Head(results)
  <2>3. CASE (ScanDone(r) \/ SteamDone(r)) /\ UNCHANGED accountVars
    BY <2>3 DEF accountVars, slots, window
  <2>4. CASE AccountDone(r) \/ AddDone(r) \/ BeginDone(r)
    <3>1. ProfileSaved(r.task.by) = vault
      BY <2>1, SavesAsHeld DEF Inv
    <3> QED BY <2>4, <3>1 DEF AccountDone, AddDone, BeginDone, Ignored, slots, window
  <2>5. CASE RefreshDone(r)
    <3>1. CASE Ignored
      BY <3>1 DEF Ignored, slots, window
    <3>2. CASE ~(~Current(r.task) \/ Unusable(r))
      <4>1. session \in Accounts /\ session # None /\ scope' = session /\ session' = session
        BY <2>1, <2>2, <2>5, <3>2, RefreshTells
      <4>2. vault' = [vault EXCEPT ![session] = session] \/ vault' = vault
        BY <2>5, <3>2, <4>1 DEF RefreshDone, Upsert, slots
      <4> QED BY <2>1, <4>1, <4>2
    <3> QED BY <2>5, <3>1, <3>2 DEF RefreshDone
  <2>6. CASE CompleteDone(r)
    <3>1. CASE UNCHANGED <<slots, window>>
      BY <3>1 DEF slots, window
    <3>2. CASE Current(r.task) /\ Upsert(r.task.by, r.task.by) /\ session' = r.task.by
      <4>1. verifying /\ wanted = r.task.by /\ wanted \in Accounts
        BY <2>1, <2>2, <2>6, <3>2, CompleteIsWanted
      <4>2. vault' = [vault EXCEPT ![wanted] = wanted]
        BY <3>2, <4>1 DEF Upsert
      <4> QED BY <2>1, <3>2, <4>1, <4>2
    <3> QED BY <2>6, <3>1, <3>2 DEF CompleteDone
  <2> QED BY <2>2, <2>3, <2>4, <2>5, <2>6 DEF Apply
<1>2. AInv /\ [Next]_vars => [P]_<<results, session, vault>>
  BY <1>1
<1> QED BY <1>2, AAlways, PTL DEF Spec, OnlyWantedChanges
=============================================================================
