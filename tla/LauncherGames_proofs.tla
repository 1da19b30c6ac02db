------------------------- MODULE LauncherGames_proofs -------------------------
(***************************************************************************)
(* The worker's queue, and what the launcher promises of installed games   *)
(* and of Steam, for any accounts, games and number of acts.               *)
(***************************************************************************)
EXTENDS LauncherCore, FiniteSetTheorems, SequenceTheorems, TLAPS

-----------------------------------------------------------------------------
(* The worker's queue.                                                     *)

N == Len(Submitted)

LEMMA ASequence ==
  ASSUME NEW S, NEW n \in Nat, NEW f \in [1..n -> S]
  PROVE  f \in Seq(S) /\ Len(f) = n
<1>1. f \in Seq(S)
  BY SeqDef
<1>2. Len(f) \in Nat /\ 1..Len(f) = 1..n
  BY <1>1, LenProperties
<1> QED BY <1>1, <1>2

LEMMA OneBefore ==
  ASSUME NEW S, NEW one \in Seq(S), Len(one) = 1, NEW more \in Seq(S)
  PROVE  /\ one \o more \in Seq(S) /\ Len(more) \in Nat /\ Len(one \o more) = 1 + Len(more)
         /\ \A k \in 1..1 + Len(more) :
              (one \o more)[k] = IF k <= 1 THEN one[k] ELSE more[k - 1]
<1>1. Len(more) \in Nat
  BY LenProperties
<1>2. /\ one \o more \in Seq(S) /\ Len(one \o more) = Len(one) + Len(more)
      /\ \A k \in 1..Len(one) + Len(more) :
           (one \o more)[k] = IF k <= Len(one) THEN one[k] ELSE more[k - Len(one)]
  BY ConcatProperties
<1> QED BY <1>1, <1>2

Joined(r, t) == [i \in 1..Len(r) |-> r[i].task] \o t

LEMMA JoinedAt ==
  ASSUME NEW r \in Seq(Result), NEW t \in Seq(Task)
  PROVE  /\ Joined(r, t) \in Seq(Task) /\ Len(Joined(r, t)) = Len(r) + Len(t)
         /\ Len(r) \in Nat /\ Len(t) \in Nat
         /\ \A i \in 1..Len(r) : Joined(r, t)[i] = r[i].task /\ r[i] \in Result
         /\ \A i \in Len(r) + 1..Len(r) + Len(t) : Joined(r, t)[i] = t[i - Len(r)]
<1> DEFINE done == [i \in 1..Len(r) |-> r[i].task]
<1>1. Len(r) \in Nat /\ Len(t) \in Nat /\ \A i \in 1..Len(r) : r[i] \in Result
  BY LenProperties, ElementOfSeq
<1>2. done \in [1..Len(r) -> Task] /\ \A i \in 1..Len(r) : done[i] = r[i].task
  BY <1>1 DEF Result
<1>3. Joined(r, t) = done \o t
  BY DEF Joined
<1> HIDE DEF done
<1>4. done \in Seq(Task) /\ Len(done) = Len(r)
  BY <1>1, <1>2, ASequence
<1>5. /\ done \o t \in Seq(Task) /\ Len(done \o t) = Len(done) + Len(t)
      /\ \A i \in 1..Len(done) + Len(t) :
           (done \o t)[i] = IF i <= Len(done) THEN done[i] ELSE t[i - Len(done)]
  BY <1>4, ConcatProperties
<1> QED BY <1>1, <1>2, <1>3, <1>4, <1>5

LEMMA SubmittedAt ==
  ASSUME WorkerTypeOK
  PROVE  /\ Submitted \in Seq(Task) /\ N = Len(results) + Len(tasks) /\ N \in Nat
         /\ DOMAIN Submitted = 1..N /\ \A i \in 1..N : Submitted[i] \in Task
         /\ Len(results) \in Nat /\ Len(tasks) \in Nat
         /\ \A i \in 1..Len(results) : Submitted[i] = results[i].task /\ results[i] \in Result
         /\ \A i \in Len(results) + 1..N : Submitted[i] = tasks[i - Len(results)]
<1>1. Submitted = Joined(results, tasks)
  BY DEF Submitted, Joined
<1>2. results \in Seq(Result) /\ tasks \in Seq(Task)
  BY DEF WorkerTypeOK
<1>3. /\ DOMAIN Submitted = 1..N /\ \A i \in 1..N : Submitted[i] \in Task
  BY <1>1, <1>2, JoinedAt, LenProperties, ElementOfSeq DEF N
<1> QED BY <1>1, <1>2, <1>3, JoinedAt DEF N

LEMMA SubmittedNext ==
  ASSUME WorkerTypeOK'
  PROVE  /\ Submitted' \in Seq(Task) /\ N' = Len(results') + Len(tasks') /\ N' \in Nat
         /\ DOMAIN Submitted' = 1..N' /\ \A i \in 1..N' : Submitted'[i] \in Task
         /\ Len(results') \in Nat /\ Len(tasks') \in Nat
         /\ \A i \in 1..Len(results') : Submitted'[i] = results'[i].task /\ results'[i] \in Result
         /\ \A i \in Len(results') + 1..N' : Submitted'[i] = tasks'[i - Len(results')]
<1>1. Submitted' = Joined(results', tasks')
  BY DEF Submitted, Joined
<1>2. results' \in Seq(Result) /\ tasks' \in Seq(Task)
  BY DEF WorkerTypeOK
<1>3. /\ DOMAIN Submitted' = 1..N' /\ \A i \in 1..N' : Submitted'[i] \in Task
  BY <1>1, <1>2, JoinedAt, LenProperties, ElementOfSeq DEF N
<1> QED BY <1>1, <1>2, <1>3, JoinedAt DEF N

\* The results that are left once d of them, 0 or 1, are applied.
Left(d) == IF d = 1 THEN Tail(results) ELSE results
Applies(d) == d = 0 \/ (d = 1 /\ results # <<>>)

\* What a step of the owner's thread leaves of what was submitted.
Submits(d, kinds, more) ==
  /\ WorkerTypeOK'
  /\ N \in Nat /\ N' \in Nat /\ Len(more) \in Nat /\ d <= N
  /\ N' = N - d + Len(more) /\ Len(results') = Len(results) - d
  /\ \A i \in 1..N - d : Submitted'[i] = Outdated(Submitted[i + d], kinds)
  /\ \A i \in 1..N - d : Submitted[i + d] \in Task
  /\ \A i \in N - d + 1..N' : Submitted'[i] = more[i - (N - d)]
  /\ \A i \in 1..Len(results') : /\ results'[i].ok = results[i + d].ok
                                 /\ results'[i].full = results[i + d].full

LEMMA OutdatedType ==
  ASSUME NEW t \in Task, NEW kinds
  PROVE  /\ Outdated(t, kinds) \in Task
         /\ Outdated(t, kinds).kind = t.kind /\ Outdated(t, kinds).by = t.by
         /\ Outdated(t, kinds).games = t.games
         /\ Outdated(t, kinds).current <=> (t.current /\ t.kind \notin kinds)
<1>1. (t.current /\ t.kind \notin kinds) \in BOOLEAN
  OBVIOUS
<1> QED BY <1>1 DEF Outdated, Task

LEMMA QueueSubmits ==
  ASSUME WorkerTypeOK, NEW d \in {0, 1}, Applies(d), NEW kinds, NEW more \in Seq(Task),
         Queue(Left(d), kinds, more)
  PROVE  Submits(d, kinds, more)
<1> DEFINE rest == Left(d)
           old == [i \in 1..Len(tasks) |-> Outdated(tasks[i], kinds)]
           new(i) == [rest[i] EXCEPT !.task = Outdated(@, kinds)]
<1>1. /\ N = Len(results) + Len(tasks) /\ N \in Nat
      /\ Len(results) \in Nat /\ Len(tasks) \in Nat
      /\ \A i \in 1..N : Submitted[i] \in Task
      /\ \A i \in 1..Len(results) : Submitted[i] = results[i].task /\ results[i] \in Result
      /\ \A i \in Len(results) + 1..N : Submitted[i] = tasks[i - Len(results)]
      /\ \A i \in 1..Len(tasks) : tasks[i] \in Task
      /\ results \in Seq(Result) /\ tasks \in Seq(Task) /\ d <= Len(results)
  <2>1. results \in Seq(Result) /\ tasks \in Seq(Task)
    BY DEF WorkerTypeOK
  <2>2. d <= Len(results)
    BY <2>1, EmptySeq DEF Applies
  <2> QED BY <2>1, <2>2, SubmittedAt, ElementOfSeq
<1>2. /\ rest \in Seq(Result) /\ Len(rest) = Len(results) - d
      /\ \A i \in 1..Len(rest) : rest[i] = results[i + d]
  <2>1. CASE d = 0
    BY <1>1, <2>1 DEF Left
  <2>2. CASE d = 1
    <3>1. results # <<>>
      BY <2>2 DEF Applies
    <3> QED BY <1>1, <2>2, <3>1, HeadTailProperties DEF Left
  <2> QED BY <2>1, <2>2
<1>3. old \in [1..Len(tasks) -> Task] /\ \A i \in 1..Len(tasks) : old[i] = Outdated(tasks[i], kinds)
  BY <1>1, OutdatedType
<1>4. tasks' = old \o more
  BY DEF Queue
<1>5. results' = [i \in 1..Len(rest) |-> new(i)]
  BY DEF Queue
<1> HIDE DEF old
<1>6. /\ old \in Seq(Task) /\ Len(old) = Len(tasks) /\ Len(more) \in Nat
      /\ old \o more \in Seq(Task) /\ Len(old \o more) = Len(old) + Len(more)
      /\ \A i \in 1..Len(old) + Len(more) :
           (old \o more)[i] = IF i <= Len(old) THEN old[i] ELSE more[i - Len(old)]
  <2>1. old \in Seq(Task) /\ Len(old) = Len(tasks)
    BY <1>1, <1>3, ASequence
  <2> QED BY <2>1, ConcatProperties, LenProperties
<1>7. ASSUME NEW i \in 1..Len(rest)
      PROVE  /\ new(i) \in Result /\ new(i).task = Outdated(results[i + d].task, kinds)
             /\ new(i).ok = results[i + d].ok /\ new(i).full = results[i + d].full
  <2>1. i + d \in 1..Len(results)
    BY <1>1, <1>2
  <2>2. rest[i] \in Result /\ rest[i] = results[i + d] /\ rest[i].task \in Task
    BY <1>1, <1>2, <2>1 DEF Result
  <2>3. Outdated(rest[i].task, kinds) \in Task
    BY <2>2, OutdatedType
  <2> QED BY <2>2, <2>3 DEF Result
<1>8. /\ results' \in Seq(Result) /\ Len(results') = Len(results) - d
      /\ \A i \in 1..Len(results') : results'[i] = new(i)
  <2>1. results' \in [1..Len(rest) -> Result]
    BY <1>5, <1>7
  <2>2. Len(rest) \in Nat
    BY <1>2, LenProperties
  <2>3. results' \in Seq(Result) /\ Len(results') = Len(rest)
    BY <2>1, <2>2, ASequence
  <2> QED BY <1>2, <1>5, <2>3
<1> HIDE DEF new, rest
<1>9. WorkerTypeOK'
  BY <1>4, <1>6, <1>8 DEF WorkerTypeOK
<1>10. /\ N' = Len(results') + Len(tasks') /\ N' \in Nat
       /\ \A i \in 1..Len(results') : Submitted'[i] = results'[i].task
       /\ \A i \in Len(results') + 1..N' : Submitted'[i] = tasks'[i - Len(results')]
  BY <1>9, SubmittedNext
<1>11. /\ N' = N - d + Len(more) /\ Len(results') = Len(results) - d
       /\ Len(tasks') = Len(tasks) + Len(more) /\ d \in Nat /\ d <= N
       /\ \A i \in 1..Len(tasks) : tasks'[i] = old[i]
       /\ \A i \in Len(tasks) + 1..Len(tasks') : tasks'[i] = more[i - Len(tasks)]
  <2>1. Len(tasks') = Len(tasks) + Len(more)
    BY <1>4, <1>6
  <2>2. N' = Len(results') + Len(tasks') /\ Len(results') = Len(results) - d
    BY <1>8, <1>10
  <2>3. N' = N - d + Len(more) /\ d <= N
    BY <1>1, <1>6, <2>1, <2>2
  <2>4. \A i \in 1..Len(tasks) + Len(more) :
          tasks'[i] = IF i <= Len(tasks) THEN old[i] ELSE more[i - Len(tasks)]
    BY <1>4, <1>6
  <2>5. \A i \in 1..Len(tasks) : i \in 1..Len(tasks) + Len(more) /\ i <= Len(tasks)
    BY <1>1, <1>6
  <2>6. \A i \in Len(tasks) + 1..Len(tasks') :
          i \in 1..Len(tasks) + Len(more) /\ ~(i <= Len(tasks))
    BY <1>1, <1>6, <2>1
  <2>7. d \in Nat
    OBVIOUS
  <2> QED BY <2>1, <2>2, <2>3, <2>4, <2>5, <2>6, <2>7
<1>15. /\ N \in Nat /\ Len(results) \in Nat /\ Len(tasks) \in Nat /\ Len(more) \in Nat
        /\ N = Len(results) + Len(tasks) /\ N' = Len(results') + Len(tasks')
        /\ N' \in Nat /\ d <= N /\ d \in Nat /\ Len(results') = Len(results) - d
        /\ d <= Len(results) /\ Len(tasks') = Len(tasks) + Len(more)
  BY <1>1, <1>6, <1>10, <1>11
<1>12. ASSUME NEW i \in 1..N - d
       PROVE  Submitted'[i] = Outdated(Submitted[i + d], kinds) /\ Submitted[i + d] \in Task
  <2>1. i + d \in 1..N
    BY <1>1
  <2>2. CASE i <= Len(results')
    <3>1. i + d \in 1..Len(results) /\ i \in 1..Len(rest) /\ i \in 1..Len(results')
      BY <1>1, <1>2, <1>8, <2>2
    <3>2. Submitted'[i] = new(i).task /\ Submitted[i + d] = results[i + d].task
      BY <1>1, <1>8, <1>10, <3>1
    <3> QED BY <1>1, <1>7, <2>1, <3>1, <3>2
  <2>3. CASE i > Len(results')
    <3>1. /\ i \in Len(results') + 1..N' /\ i + d \in Len(results) + 1..N
          /\ i - Len(results') = i + d - Len(results)
          /\ i - Len(results') \in 1..Len(tasks)
      BY <1>15, <2>3
    <3>4. Submitted'[i] = tasks'[i - Len(results')]
      BY <1>10, <3>1
    <3>5. Submitted[i + d] = tasks[i + d - Len(results)]
      BY <1>1, <3>1
    <3>2. Submitted'[i] = tasks'[i - Len(results')] /\ Submitted[i + d] = tasks[i - Len(results')]
      BY <3>1, <3>4, <3>5
    <3>3. tasks'[i - Len(results')] = Outdated(tasks[i - Len(results')], kinds)
      BY <1>3, <1>11, <3>1
    <3> QED BY <1>1, <2>1, <3>2, <3>3
  <2> QED BY <1>1, <1>11, <2>2, <2>3
<1>13. ASSUME NEW i \in N - d + 1..N' PROVE Submitted'[i] = more[i - (N - d)]
  <2>1. /\ i \in Len(results') + 1..N' /\ i - Len(results') \in Len(tasks) + 1..Len(tasks')
        /\ i - Len(results') - Len(tasks) = i - (N - d)
    BY <1>15
  <2>2. Submitted'[i] = tasks'[i - Len(results')]
    BY <1>10, <2>1
  <2>3. tasks'[i - Len(results')] = more[i - Len(results') - Len(tasks)]
    BY <1>11, <2>1
  <2> QED BY <2>1, <2>2, <2>3
<1>14. \A i \in 1..Len(results') : /\ results'[i].ok = results[i + d].ok
                                   /\ results'[i].full = results[i + d].full
  BY <1>2, <1>7, <1>8
<1> QED BY <1>1, <1>6, <1>9, <1>10, <1>11, <1>12, <1>13, <1>14 DEF Submits

LEMMA FinishedSubmits ==
  ASSUME WorkerTypeOK, tasks # <<>>, NEW r \in Result, r.task = Head(tasks), Finished(r)
  PROVE  /\ WorkerTypeOK' /\ N' = N /\ \A i \in 1..N : Submitted'[i] = Submitted[i]
         /\ Len(results') = Len(results) + 1
         /\ \A i \in 1..Len(results) : results'[i] = results[i]
         /\ results'[Len(results) + 1] = r
         /\ Len(results) + 1 \in 1..N /\ Submitted[Len(results) + 1] = Head(tasks)
<1>1. /\ results \in Seq(Result) /\ tasks \in Seq(Task) /\ Head(tasks) = tasks[1]
      /\ N = Len(results) + Len(tasks) /\ Len(results) \in Nat /\ Len(tasks) \in Nat \ {0}
      /\ \A i \in 1..Len(results) : Submitted[i] = results[i].task
      /\ \A i \in Len(results) + 1..N : Submitted[i] = tasks[i - Len(results)]
  BY SubmittedAt, EmptySeq DEF WorkerTypeOK
<1>2. /\ tasks' \in Seq(Task) /\ Len(tasks') = Len(tasks) - 1
      /\ \A i \in 1..Len(tasks') : tasks'[i] = tasks[i + 1]
  BY <1>1, HeadTailProperties DEF Finished
<1>3. /\ results' \in Seq(Result) /\ Len(results') = Len(results) + 1
      /\ \A i \in 1..Len(results) : results'[i] = results[i]
      /\ results'[Len(results) + 1] = r
  BY <1>1, AppendProperties DEF Finished
<1>4. WorkerTypeOK'
  BY <1>2, <1>3 DEF WorkerTypeOK
<1>5. /\ N' = Len(results') + Len(tasks')
      /\ \A i \in 1..Len(results') : Submitted'[i] = results'[i].task
      /\ \A i \in Len(results') + 1..N' : Submitted'[i] = tasks'[i - Len(results')]
  BY <1>4, SubmittedNext
<1>6. Len(results) + 1 \in 1..N /\ Submitted[Len(results) + 1] = Head(tasks)
  <2>1. Len(results) + 1 \in Len(results) + 1..N /\ Len(results) + 1 - Len(results) = 1
    BY <1>1
  <2> QED BY <1>1, <2>1
<1>7. ASSUME NEW i \in 1..N PROVE Submitted'[i] = Submitted[i]
  <2>1. CASE i <= Len(results)
    <3>1. i \in 1..Len(results) /\ i \in 1..Len(results')
      BY <1>1, <1>3, <2>1
    <3>2. Submitted'[i] = results'[i].task /\ results'[i] = results[i]
      BY <1>3, <1>5, <3>1
    <3> QED BY <1>1, <3>1, <3>2
  <2>2. CASE i = Len(results) + 1
    BY <1>1, <1>3, <1>5, <1>6, <2>2
  <2>3. CASE i > Len(results) + 1
    <3>1. /\ i \in Len(results') + 1..N' /\ i - Len(results') \in 1..Len(tasks')
          /\ i - Len(results') + 1 = i - Len(results) /\ i \in Len(results) + 1..N
      BY <1>1, <1>2, <1>3, <1>5, <2>3
    <3>2. Submitted'[i] = tasks'[i - Len(results')] /\ Submitted[i] = tasks[i - Len(results)]
      BY <1>1, <1>5, <3>1
    <3> QED BY <1>2, <3>1, <3>2
  <2> QED BY <1>1, <2>1, <2>2, <2>3
<1> QED BY <1>1, <1>2, <1>3, <1>4, <1>5, <1>6, <1>7

\* Where the tasks after such a step come from.
Older(d, kinds) ==
  \A i \in 1..N - d :
    /\ i + d \in 1..N /\ Submitted[i + d] \in Task /\ Submitted'[i] \in Task
    /\ Submitted'[i].kind = Submitted[i + d].kind /\ Submitted'[i].by = Submitted[i + d].by
    /\ Submitted'[i].games = Submitted[i + d].games
    /\ Submitted'[i].current <=> (Submitted[i + d].current /\ Submitted[i + d].kind \notin kinds)

Newer(d, more) ==
  \A i \in N - d + 1..N' : i - (N - d) \in 1..Len(more) /\ Submitted'[i] = more[i - (N - d)]

LEMMA Origins ==
  ASSUME NEW d \in {0, 1}, NEW kinds, NEW more \in Seq(Task), Submits(d, kinds, more)
  PROVE  /\ Older(d, kinds) /\ Newer(d, more)
         /\ N \in Nat /\ N' \in Nat /\ N - d \in Nat /\ N' >= N - d
<1>1. N \in Nat /\ N' \in Nat /\ Len(more) \in Nat /\ d \in Nat /\ d <= N /\ N' = N - d + Len(more)
  BY DEF Submits
<1>2. Older(d, kinds)
  <2>1. ASSUME NEW i \in 1..N - d
        PROVE  /\ i + d \in 1..N /\ Submitted[i + d] \in Task
               /\ Submitted'[i] = Outdated(Submitted[i + d], kinds)
    <3>1. i + d \in 1..N
      BY <1>1
    <3> QED BY <3>1 DEF Submits
  <2> QED BY <2>1, OutdatedType DEF Older
<1>3. Newer(d, more)
  <2>1. ASSUME NEW i \in N - d + 1..N'
        PROVE  i - (N - d) \in 1..Len(more) /\ Submitted'[i] = more[i - (N - d)]
    <3>1. i - (N - d) \in 1..Len(more)
      BY <1>1
    <3> QED BY <3>1 DEF Submits
  <2> QED BY <2>1 DEF Newer
<1> QED BY <1>1, <1>2, <1>3

-----------------------------------------------------------------------------
(* Installed games and Steam.                                              *)

Scan(i)  == Submitted[i].kind = "scan"
Steam(i) == Submitted[i].kind = "steam"

\* A sync that the worker has not finished leaves out only what may go, and
\* no scan that could change that ends before it.
Unfinished(i) ==
  /\ sure /\ Games \ Submitted[i].games \subseteq leftOut \union (Games \ installs)
  /\ \A j \in 1..N : Scan(j) => j > i

GamesInv ==
  /\ WorkerTypeOK /\ GamesTypeOK
  /\ \A i, j \in 1..N : Scan(i) /\ Scan(j) => i = j
  /\ \A i, j \in 1..N : Steam(i) /\ Steam(j) => i = j
  /\ scanning <=> \E i \in 1..N : Scan(i)
  /\ busy <=> \E i \in 1..N : Steam(i)
  /\ scanning => ~reliable
  /\ reliable => sure
  /\ \A i \in 1..N : Steam(i) /\ Submitted[i].current
       => ~scanning /\ Submitted[i].games = Titles(installs, skip)
  /\ \A i \in 1..N : Steam(i) /\ i > Len(results) => Unfinished(i)
  /\ \A i \in 1..Len(results) : Steam(i) /\ results[i].ok /\ results[i].full
       => shortcuts = Submitted[i].games
  /\ SteamIsCurrent

\* What is left of a step that applied the first d results and submitted
\* more; the sync's titles follow what the step leaves.
Stays(i, d) == i \in d + 1..N
Brings(k, more) == k \in 1..Len(more)

OneOfAKind(d, more) ==
  /\ \A k, l : Brings(k, more) /\ Brings(l, more) /\ more[k].kind = more[l].kind
                 /\ more[k].kind \in {"scan", "steam"} => k = l
  /\ \A k : Brings(k, more) /\ more[k].kind = "scan" => \A i : Stays(i, d) => ~Scan(i)
  /\ \A k : Brings(k, more) /\ more[k].kind = "steam"
       => \A i : Stays(i, d) => ~Steam(i)

Flags(d, more) ==
  /\ scanning' <=> \/ \E i : Stays(i, d) /\ Scan(i)
                   \/ \E k : Brings(k, more) /\ more[k].kind = "scan"
  /\ busy' <=> \/ \E i : Stays(i, d) /\ Steam(i)
               \/ \E k : Brings(k, more) /\ more[k].kind = "steam"
  /\ scanning' => ~reliable'
  /\ reliable' => sure'

Follows(d, kinds, more) ==
  /\ \A k : Brings(k, more) /\ more[k].kind = "steam"
       => more[k].games = Titles(installs', skip') /\ ~scanning' /\ sure'
  /\ \A i : Stays(i, d) /\ Steam(i) /\ Submitted[i].current /\ "steam" \notin kinds
       => ~scanning' /\ Submitted[i].games = Titles(installs', skip')
  /\ \A i : Stays(i, d) /\ Steam(i) /\ i > Len(results)
       => sure' /\ Games \ Submitted[i].games \subseteq leftOut' \union (Games \ installs')

LEMMA Owner ==
  ASSUME GamesInv, NEW d \in {0, 1}, NEW kinds, NEW more \in Seq(Task),
         Submits(d, kinds, more), OneOfAKind(d, more), Flags(d, more),
         Follows(d, kinds, more), GamesTypeOK', SteamIsCurrent', UNCHANGED shortcuts
  PROVE  GamesInv'
<1>1. /\ Older(d, kinds) /\ Newer(d, more)
      /\ N \in Nat /\ N' \in Nat /\ N - d \in Nat /\ N' = N - d + Len(more)
      /\ WorkerTypeOK' /\ Len(results') = Len(results) - d /\ Len(results) \in Nat
      /\ Len(results) <= N /\ d \in Nat /\ Len(more) \in Nat
      /\ N' = Len(results') + Len(tasks') /\ Len(tasks') \in Nat
  <2>1. Len(results) \in Nat /\ Len(results) <= N
    BY SubmittedAt DEF GamesInv
  <2>2. WorkerTypeOK'
    BY DEF Submits
  <2>3. N' = Len(results') + Len(tasks') /\ Len(tasks') \in Nat
    BY <2>2, SubmittedNext
  <2>4. Older(d, kinds) /\ Newer(d, more) /\ N - d \in Nat
    BY Origins
  <2>5. /\ N \in Nat /\ N' \in Nat /\ Len(more) \in Nat /\ N' = N - d + Len(more)
        /\ Len(results') = Len(results) - d /\ d \in Nat
    BY DEF Submits
  <2> QED BY <2>1, <2>2, <2>3, <2>4, <2>5
\* A task of these kinds stays, or is new.
<1>2. ASSUME NEW i \in 1..N'
      PROVE  \/ /\ Stays(i + d, d) /\ i \in 1..N - d /\ i + d \in 1..N
                /\ Scan(i)' <=> Scan(i + d)
                /\ Steam(i)' <=> Steam(i + d)
                /\ Submitted'[i].games = Submitted[i + d].games
                /\ Submitted'[i].current <=>
                     (Submitted[i + d].current /\ Submitted[i + d].kind \notin kinds)
             \/ /\ Brings(i - (N - d), more) /\ i > N - d
                /\ Submitted'[i] = more[i - (N - d)]
  <2>1. CASE i \in 1..N - d
    <3>1. i + d \in d + 1..N
      BY <1>1, <2>1
    <3> QED BY <2>1, <3>1, <1>1 DEF Older, Stays, Scan, Steam
  <2>2. CASE i \in N - d + 1..N'
    BY <2>2, <1>1 DEF Newer, Brings
  <2> QED BY <1>1, <2>1, <2>2
<1>3. ASSUME NEW i, Stays(i, d)
      PROVE  /\ i - d \in 1..N' /\ i \in 1..N
             /\ Scan(i - d)' <=> Scan(i)
             /\ Steam(i - d)' <=> Steam(i)
  <2>1. i - d \in 1..N - d /\ i - d \in 1..N' /\ i - d + d = i /\ i \in 1..N
    BY <1>1, <1>3 DEF Stays
  <2> QED BY <1>1, <2>1 DEF Older, Scan, Steam
<1>4. ASSUME NEW k, Brings(k, more)
      PROVE  k + (N - d) \in 1..N' /\ Submitted'[k + (N - d)] = more[k]
  <2>1. /\ k + (N - d) \in N - d + 1..N' /\ k + (N - d) - (N - d) = k
        /\ k + (N - d) \in 1..N' /\ k \in Nat
    BY <1>1, <1>4 DEF Brings
  <2>2. PICK i \in N - d + 1..N' : i = k + (N - d) /\ i - (N - d) = k
    BY <1>1, <2>1
  <2>3. Submitted'[i] = more[k]
    BY <1>1, <2>2 DEF Newer
  <2> QED BY <2>1, <2>2, <2>3
<1>5. ASSUME NEW i \in 1..N', NEW j \in 1..N', Scan(i)', Scan(j)' PROVE i = j
  <2>1. CASE Stays(i + d, d) /\ Stays(j + d, d) /\ Scan(i + d) /\ Scan(j + d)
    <3>1. i + d \in 1..N /\ j + d \in 1..N
      BY <1>1, <2>1 DEF Stays
    <3>2. i + d = j + d
      BY <2>1, <3>1 DEF GamesInv
    <3> QED BY <1>1, <3>2
  <2>2. CASE /\ Brings(i - (N - d), more) /\ Brings(j - (N - d), more)
             /\ Submitted'[i] = more[i - (N - d)] /\ Submitted'[j] = more[j - (N - d)]
    <3>1. more[i - (N - d)].kind = "scan" /\ more[j - (N - d)].kind = "scan"
      BY <1>5, <2>2 DEF Scan
    <3>2. i - (N - d) = j - (N - d)
      BY <2>2, <3>1 DEF OneOfAKind
    <3> QED BY <1>1, <3>2
  <2>3. \A k, m : Brings(k, more) /\ more[k].kind = "scan" /\ Stays(m, d) => ~Scan(m)
    BY DEF OneOfAKind
  <2> QED BY <1>2, <1>5, <2>1, <2>2, <2>3 DEF Scan
<1>6. ASSUME NEW i \in 1..N', NEW j \in 1..N', Steam(i)', Steam(j)' PROVE i = j
  <2>1. CASE Stays(i + d, d) /\ Stays(j + d, d) /\ Steam(i + d) /\ Steam(j + d)
    <3>1. i + d \in 1..N /\ j + d \in 1..N
      BY <1>1, <2>1 DEF Stays
    <3>2. i + d = j + d
      BY <2>1, <3>1 DEF GamesInv
    <3> QED BY <1>1, <3>2
  <2>2. CASE /\ Brings(i - (N - d), more) /\ Brings(j - (N - d), more)
             /\ Submitted'[i] = more[i - (N - d)] /\ Submitted'[j] = more[j - (N - d)]
    <3>1. more[i - (N - d)].kind = "steam" /\ more[j - (N - d)].kind = "steam"
      BY <1>6, <2>2 DEF Steam
    <3>2. i - (N - d) = j - (N - d)
      BY <2>2, <3>1 DEF OneOfAKind
    <3> QED BY <1>1, <3>2
  <2>3. \A k, m : Brings(k, more) /\ more[k].kind = "steam" /\ Stays(m, d) => ~Steam(m)
    BY DEF OneOfAKind
  <2> QED BY <1>2, <1>6, <2>1, <2>2, <2>3 DEF Steam
<1>7. scanning' <=> \E i \in 1..N' : Scan(i)'
  <2>1. ASSUME scanning' PROVE \E i \in 1..N' : Scan(i)'
    BY <2>1, <1>3, <1>4 DEF Flags, Scan
  <2>2. ASSUME NEW i \in 1..N', Scan(i)' PROVE scanning'
    BY <2>2, <1>2 DEF Flags, Scan
  <2> QED BY <2>1, <2>2
<1>8. busy' <=> \E i \in 1..N' : Steam(i)'
  <2>1. ASSUME busy' PROVE \E i \in 1..N' : Steam(i)'
    BY <2>1, <1>3, <1>4 DEF Flags, Steam
  <2>2. ASSUME NEW i \in 1..N', Steam(i)' PROVE busy'
    BY <2>2, <1>2 DEF Flags, Steam
  <2> QED BY <2>1, <2>2
<1>9. ASSUME NEW i \in 1..N', Steam(i)', Submitted'[i].current
      PROVE  ~scanning' /\ Submitted'[i].games = Titles(installs', skip')
  BY <1>2, <1>9 DEF Follows, Steam
<1>10. ASSUME NEW i \in 1..N', Steam(i)', i > Len(results') PROVE Unfinished(i)'
  <2>1. CASE Stays(i + d, d) /\ Steam(i + d) /\ Submitted'[i].games = Submitted[i + d].games
    <3>1. i + d > Len(results) /\ i + d \in 1..N
      BY <1>1, <1>10, <2>1 DEF Stays
    <3>2. Unfinished(i + d)
      BY <2>1, <3>1 DEF GamesInv
    <3>3. ASSUME NEW j \in 1..N', Scan(j)' PROVE j > i
      <4>1. CASE Scan(j + d) /\ j + d \in 1..N
        BY <1>1, <3>2, <4>1 DEF Unfinished
      <4>2. CASE j > N - d
        BY <1>1, <2>1, <4>2 DEF Stays
      <4> QED BY <1>2, <3>3, <4>1, <4>2
    <3>4. sure' /\ Games \ Submitted'[i].games \subseteq leftOut' \union (Games \ installs')
      BY <2>1, <3>1 DEF Follows
    <3> QED BY <3>3, <3>4 DEF Unfinished
  <2>2. CASE Brings(i - (N - d), more) /\ Submitted'[i] = more[i - (N - d)]
    <3>1. /\ Submitted'[i].games = Titles(installs', skip') /\ ~scanning' /\ sure'
      BY <1>10, <2>2 DEF Follows, Steam
    <3>2. skip' \subseteq leftOut'
      BY DEF GamesTypeOK
    <3>3. Games \ Submitted'[i].games \subseteq leftOut' \union (Games \ installs')
      BY <3>1, <3>2 DEF Titles
    <3>4. \A j \in 1..N' : ~Scan(j)'
      BY <1>7, <3>1
    <3> QED BY <3>1, <3>3, <3>4 DEF Unfinished
  <2> QED BY <1>2, <1>10, <2>1, <2>2
<1>11. ASSUME NEW i \in 1..Len(results'), Steam(i)', results'[i].ok, results'[i].full
       PROVE  shortcuts' = Submitted'[i].games
  <2>1. i \in 1..N' /\ i + d \in 1..Len(results) /\ i <= N - d
    BY <1>1
  <2>2. results[i + d].ok /\ results[i + d].full
    BY <1>11 DEF Submits
  <2>3. Steam(i + d) /\ Submitted'[i].games = Submitted[i + d].games
    BY <1>1, <1>2, <1>11, <2>1
  <2> QED BY <2>1, <2>2, <2>3 DEF GamesInv
<1> QED BY <1>1, <1>5, <1>6, <1>7, <1>8, <1>9, <1>10, <1>11 DEF GamesInv, Flags

-----------------------------------------------------------------------------
(* The ways in which the owner's thread leaves scans and syncs.            *)

Others(more) == \A k \in 1..Len(more) : more[k].kind \notin {"scan", "steam"}

LEMMA FirstResult ==
  ASSUME WorkerTypeOK, results # <<>>
  PROVE  /\ 1 \in 1..N /\ Len(results) \in Nat /\ Len(results) >= 1 /\ N \in Nat
         /\ Head(results) \in Result /\ Head(results).task \in Task
         /\ Submitted[1] = Head(results).task /\ Head(results) = results[1]
         /\ Left(1) = Tail(results) /\ Applies(1)
<1>1. results \in Seq(Result)
  BY DEF WorkerTypeOK
<1>2. Len(results) \in Nat /\ Len(results) # 0 /\ Head(results) = results[1]
  BY <1>1, EmptySeq, HeadTailProperties, LenProperties
<1>3. N = Len(results) + Len(tasks) /\ Len(tasks) \in Nat /\ 1 \in 1..Len(results)
  BY <1>2, SubmittedAt
<1>4. Submitted[1] = results[1].task /\ results[1] \in Result
  BY <1>3, SubmittedAt
<1>5. Left(1) = Tail(results) /\ Applies(1)
  BY DEF Left, Applies
<1> QED BY <1>2, <1>3, <1>4, <1>5 DEF Result

LEMMA NoneApplied ==
  Left(0) = results /\ Applies(0)
BY DEF Left, Applies

\* Scans and syncs stay in the queue if what is applied is neither.
LEMMA Remain ==
  ASSUME WorkerTypeOK, NEW d \in {0, 1}, Applies(d),
         d = 1 => Head(results).task.kind \notin {"scan", "steam"}
  PROVE  /\ \A i \in 1..N : Scan(i) \/ Steam(i) => Stays(i, d)
         /\ \A i : Stays(i, d) => i \in 1..N
<1>1. N \in Nat
  BY SubmittedAt
<1>2. ASSUME NEW i \in 1..N, Scan(i) \/ Steam(i) PROVE Stays(i, d)
  <2>1. CASE d = 1
    <3>1. Submitted[1] = Head(results).task
      BY <2>1, FirstResult DEF Applies
    <3> QED BY <1>1, <2>1, <3>1, <1>2 DEF Scan, Steam, Stays
  <2>2. CASE d = 0
    BY <2>2 DEF Stays
  <2> QED BY <2>1, <2>2
<1>3. ASSUME NEW i, Stays(i, d) PROVE i \in 1..N
  BY <1>1, <1>3 DEF Stays
<1> QED BY <1>2, <1>3

Kept == <<scans, prefs, sync, shortcuts>>

\* A step that has nothing to do with scans and syncs.
LEMMA OtherTasks ==
  ASSUME GamesInv, NEW d \in {0, 1}, Applies(d), NEW kinds, "steam" \notin kinds,
         NEW more \in Seq(Task), Others(more), Queue(Left(d), kinds, more),
         d = 1 => Head(results).task.kind \notin {"scan", "steam"},
         UNCHANGED Kept, GamesTypeOK'
  PROVE  GamesInv'
<1>1. Submits(d, kinds, more)
  BY QueueSubmits DEF GamesInv
<1>2. /\ \A i \in 1..N : Scan(i) \/ Steam(i) => Stays(i, d)
      /\ \A i : Stays(i, d) => i \in 1..N
  BY Remain DEF GamesInv
<1>4. /\ scanning' = scanning /\ reliable' = reliable /\ busy' = busy /\ sure' = sure
      /\ installs' = installs /\ skip' = skip /\ leftOut' = leftOut /\ enabled' = enabled
      /\ steamPending' = steamPending /\ failed' = failed /\ shortcuts' = shortcuts
  BY DEF Kept, scans, prefs, sync
<1>5. OneOfAKind(d, more)
  BY DEF Others, OneOfAKind, Brings
<1>6. Flags(d, more)
  <2>1. scanning <=> \E i \in 1..N : Scan(i)
    BY DEF GamesInv
  <2>2. busy <=> \E i \in 1..N : Steam(i)
    BY DEF GamesInv
  <2>3. /\ scanning => ~reliable
        /\ reliable => sure
    BY DEF GamesInv
  <2>4. \A k : Brings(k, more) => more[k].kind # "scan" /\ more[k].kind # "steam"
    BY DEF Others, Brings
  <2> QED BY <1>2, <1>4, <2>1, <2>2, <2>3, <2>4 DEF Flags
<1>7. Follows(d, kinds, more)
  <2>1. \A k : Brings(k, more) => more[k].kind # "steam"
    BY DEF Others, Brings
  <2>2. ASSUME NEW i, Stays(i, d), Steam(i), Submitted[i].current
        PROVE  ~scanning' /\ Submitted[i].games = Titles(installs', skip')
    BY <1>2, <1>4, <2>2 DEF GamesInv
  <2>3. ASSUME NEW i, Stays(i, d), Steam(i), i > Len(results)
        PROVE  sure' /\ Games \ Submitted[i].games \subseteq leftOut' \union (Games \ installs')
    BY <1>2, <1>4, <2>3 DEF GamesInv, Unfinished
  <2> QED BY <2>1, <2>2, <2>3 DEF Follows
<1>8. SteamIsCurrent'
  BY <1>4 DEF GamesInv, SteamIsCurrent, Titles
<1> QED BY <1>1, <1>4, <1>5, <1>6, <1>7, <1>8, Owner

LEMMA SentTasks ==
  ASSUME NEW t \in Task, t.kind = "steam", NEW more \in Seq(Task), Others(more)
  PROVE  /\ <<t>> \o more \in Seq(Task)
         /\ \A k : Brings(k, <<t>> \o more) /\ (<<t>> \o more)[k].kind \in {"scan", "steam"}
                     => k = 1
         /\ Brings(1, <<t>> \o more) /\ (<<t>> \o more)[1] = t
<1> DEFINE one == <<t>>
           sent == one \o more
<1>1. Len(more) \in Nat /\ \A k \in 1..Len(more) : more[k] \in Task
  BY LenProperties, ElementOfSeq
<1>2. one \in Seq(Task) /\ Len(one) = 1 /\ one[1] = t
  OBVIOUS
<1>7. sent = one \o more
  OBVIOUS
<1> HIDE DEF one, sent
<1>3. /\ sent \in Seq(Task) /\ Len(sent) = 1 + Len(more)
      /\ \A k \in 1..1 + Len(more) : sent[k] = IF k <= 1 THEN one[k] ELSE more[k - 1]
  BY <1>2, <1>7, OneBefore
<1>4. ASSUME NEW k, Brings(k, sent), k # 1 PROVE sent[k].kind \notin {"scan", "steam"}
  <2>1. k \in 1..1 + Len(more) /\ k - 1 \in 1..Len(more) /\ ~(k <= 1)
    BY <1>1, <1>3, <1>4 DEF Brings
  <2>2. sent[k] = more[k - 1]
    BY <1>3, <2>1
  <2> QED BY <2>1, <2>2 DEF Others
<1>5. Brings(1, sent) /\ sent[1] = t
  <2>1. 1 \in 1..1 + Len(more)
    BY <1>1
  <2> QED BY <1>2, <1>3, <2>1 DEF Brings
<1>6. /\ sent \in Seq(Task)
      /\ \A k : Brings(k, sent) /\ sent[k].kind \in {"scan", "steam"} => k = 1
      /\ Brings(1, sent) /\ sent[1] = t
  BY <1>3, <1>4, <1>5
<1> QED BY <1>6 DEF sent, one

Begins(idle) == ~scanning' /\ reliable' /\ idle /\ enabled'

\* A step that asks for a sync.
LEMMA Synced ==
  ASSUME GamesInv, NEW d \in {0, 1}, Applies(d), NEW idle \in BOOLEAN, NEW waits,
         NEW more \in Seq(Task), Others(more), SyncSteam(Left(d), idle, waits, more),
         scanning' <=> \E i : Stays(i, d) /\ Scan(i),
         idle <=> \A i : Stays(i, d) => ~Steam(i),
         scanning' => ~reliable', reliable' => sure',
         \A i : Stays(i, d) /\ Steam(i) /\ i > Len(results)
           => sure' /\ Games \ Submitted[i].games \subseteq leftOut' \union (Games \ installs'),
         GamesTypeOK', UNCHANGED shortcuts
  PROVE  GamesInv'
<1> DEFINE begins == Begins(idle)
           t == Make("steam", None, Titles(installs', skip'))
           sent == (IF begins THEN <<t>> ELSE <<>>) \o more
<1>1. /\ busy' = (begins \/ ~idle)
      /\ Queue(Left(d), {"steam"}, sent)
  BY DEF SyncSteam, Moves, Begins
<1>2. begins \in BOOLEAN
  BY DEF GamesTypeOK, Begins
<1>3. t \in Task /\ t.kind = "steam" /\ t.games = Titles(installs', skip')
  BY DEF Make, Task, TaskKinds, Titles, GamesTypeOK
<1>14. sent = (IF begins THEN <<t>> ELSE <<>>) \o more
  OBVIOUS
<1> HIDE DEF begins, t, sent
<1>4. /\ sent \in Seq(Task)
      /\ \A k : Brings(k, sent) /\ sent[k].kind \in {"scan", "steam"}
                  => k = 1 /\ begins /\ sent[k] = t
      /\ begins => Brings(1, sent) /\ sent[1] = t
  <2>1. CASE begins
    <3>1. sent = <<t>> \o more
      BY <1>14, <2>1
    <3> QED BY <1>3, <2>1, <3>1, SentTasks
  <2>2. CASE ~begins
    <3>1. sent = more
      BY <1>14, <2>2, ConcatEmptySeq
    <3> QED BY <2>2, <3>1 DEF Others, Brings
  <2> QED BY <1>2, <2>1, <2>2
<1>5. Submits(d, {"steam"}, sent)
  BY <1>1, <1>4, QueueSubmits DEF GamesInv
<1>6. begins => ~scanning' /\ reliable' /\ idle /\ enabled'
  BY DEF begins, Begins
<1>7. OneOfAKind(d, sent)
  BY <1>3, <1>4, <1>6 DEF OneOfAKind
<1>8. Flags(d, sent)
  <2>1. busy' <=> \/ \E i : Stays(i, d) /\ Steam(i)
                  \/ \E k : Brings(k, sent) /\ sent[k].kind = "steam"
    BY <1>1, <1>3, <1>4
  <2>2. \A k : Brings(k, sent) => sent[k].kind # "scan"
    BY <1>3, <1>4
  <2> QED BY <2>1, <2>2 DEF Flags
<1>9. Follows(d, {"steam"}, sent)
  BY <1>3, <1>4, <1>6 DEF Follows
<1>10. SteamIsCurrent'
  <2>1. enabled' /\ reliable' /\ ~scanning' => busy'
    BY <1>1 DEF begins, Begins
  <2> QED BY <2>1 DEF SteamIsCurrent
<1> QED BY <1>4, <1>5, <1>7, <1>8, <1>9, <1>10, Owner

\* A step that asks for a scan, unless one is under way.
LEMMA Rescanned ==
  ASSUME GamesInv, Rescan(results), GamesTypeOK', UNCHANGED <<skip, leftOut>>
  PROVE  GamesInv'
<1>1. /\ installs' = installs /\ sure' = sure /\ busy' = busy /\ shortcuts' = shortcuts
      /\ skip' = skip /\ leftOut' = leftOut
  BY DEF Rescan, sync
<1>2. /\ scanning <=> \E i \in 1..N : Scan(i)
      /\ busy <=> \E i \in 1..N : Steam(i)
      /\ scanning => ~reliable
      /\ reliable => sure
      /\ \A i : Stays(i, 0) <=> i \in 1..N
      /\ scanning \in BOOLEAN
  <2>1. \A i : Stays(i, 0) <=> i \in 1..N
    BY DEF Stays
  <2> QED BY <2>1 DEF GamesInv, GamesTypeOK
<1>3. ASSUME NEW i, Stays(i, 0), Steam(i), i > Len(results)
      PROVE  sure' /\ Games \ Submitted[i].games \subseteq leftOut' \union (Games \ installs')
  BY <1>1, <1>2, <1>3 DEF GamesInv, Unfinished
<1>4. CASE scanning
  <2> DEFINE more == <<>>
  <2>1. more \in Seq(Task) /\ \A k : ~Brings(k, more)
    <3>1. more \in Seq(Task) /\ Len(more) = 0
      OBVIOUS
    <3> HIDE DEF more
    <3> QED BY <3>1 DEF Brings
  <2>2. Queue(Left(0), {}, more) /\ scanning' = scanning /\ reliable' = reliable
    BY <1>4, NoneApplied DEF Rescan
  <2> HIDE DEF more
  <2>3. Submits(0, {}, more)
    BY <2>1, <2>2, NoneApplied, QueueSubmits DEF GamesInv
  <2>4. OneOfAKind(0, more)
    BY <2>1 DEF OneOfAKind
  <2>5. Flags(0, more)
    BY <2>1, <2>2, <1>1, <1>2 DEF Flags
  <2>6. Follows(0, {}, more)
    <3>1. ASSUME NEW i, Stays(i, 0), Steam(i), Submitted[i].current PROVE FALSE
      BY <1>2, <1>4, <3>1 DEF GamesInv
    <3> QED BY <2>1, <1>3, <3>1 DEF Follows
  <2>7. SteamIsCurrent'
    BY <1>4, <2>2 DEF SteamIsCurrent
  <2> QED BY <1>1, <2>1, <2>3, <2>4, <2>5, <2>6, <2>7, Owner
<1>5. CASE ~scanning
  <2> DEFINE more == <<Make("scan", None, {})>>
  <2>1. /\ more \in Seq(Task) /\ more[1].kind = "scan"
        /\ \A k : Brings(k, more) <=> k = 1
    <3>1. Make("scan", None, {}) \in Task /\ Make("scan", None, {}).kind = "scan"
      BY DEF Make, Task, TaskKinds
    <3>2. more \in Seq(Task) /\ Len(more) = 1 /\ more[1] = Make("scan", None, {})
      BY <3>1
    <3> HIDE DEF more
    <3> QED BY <3>1, <3>2 DEF Brings
  <2>2. Queue(Left(0), {"steam"}, more) /\ scanning' = TRUE /\ reliable' = FALSE
    BY <1>5, NoneApplied DEF Rescan
  <2> HIDE DEF more
  <2>3. Submits(0, {"steam"}, more)
    BY <2>1, <2>2, NoneApplied, QueueSubmits DEF GamesInv
  <2>4. OneOfAKind(0, more)
    BY <2>1, <1>2, <1>5 DEF OneOfAKind
  <2>5. Flags(0, more)
    BY <2>1, <2>2, <1>1, <1>2 DEF Flags
  <2>6. Follows(0, {"steam"}, more)
    BY <2>1, <1>3 DEF Follows
  <2>7. SteamIsCurrent'
    BY <2>2 DEF SteamIsCurrent
  <2> QED BY <1>1, <2>1, <2>3, <2>4, <2>5, <2>6, <2>7, Owner
<1> QED BY <1>2, <1>4, <1>5

LEMMA Scanned ==
  ASSUME GamesInv, results # <<>>, ScanDone(Head(results)), GamesTypeOK'
  PROVE  GamesInv'
<1> DEFINE r == Head(results)
<1>1. /\ 1 \in 1..N /\ N \in Nat /\ Submitted[1] = r.task /\ r \in Result
      /\ Left(1) = Tail(results) /\ Applies(1) /\ Len(results) >= 1 /\ Len(results) \in Nat
  BY FirstResult DEF GamesInv
<1>2. Scan(1) /\ scanning' = FALSE /\ UNCHANGED prefs
  BY <1>1 DEF ScanDone, Scan
<1>3. scanning /\ ~reliable /\ (\A i : Stays(i, 1) => i \in 1..N /\ ~Scan(i))
  BY <1>1, <1>2 DEF GamesInv, Stays
\* The sync that is under way, if there is one, has been overtaken.
<1>4. ASSUME NEW i, Stays(i, 1), Steam(i)
      PROVE  ~(i > Len(results)) /\ ~Submitted[i].current
  <2>1. i \in 1..N
    BY <1>3, <1>4
  <2>2. ASSUME i > Len(results) PROVE FALSE
    BY <1>1, <1>2, <1>4, <2>1, <2>2 DEF GamesInv, Unfinished
  <2>3. ASSUME Submitted[i].current PROVE FALSE
    BY <1>3, <1>4, <2>1, <2>3 DEF GamesInv
  <2> QED BY <2>2, <2>3
<1>5. busy <=> \E i : Stays(i, 1) /\ Steam(i)
  <2>1. busy <=> \E i \in 1..N : Steam(i)
    BY DEF GamesInv
  <2>2. ASSUME NEW i \in 1..N, Steam(i) PROVE Stays(i, 1)
    BY <1>1, <1>2, <2>2 DEF Stays, Scan, Steam
  <2> QED BY <1>3, <2>1, <2>2
<1>6. busy \in BOOLEAN
  BY DEF GamesInv, GamesTypeOK
<1>7. CASE r.ok
  <2>1. /\ SyncSteam(Left(1), ~busy, steamPending, <<>>) /\ shortcuts' = shortcuts
        /\ reliable' = r.full /\ sure' = r.full
    BY <1>1, <1>7 DEF ScanDone, Sync, Authoritative
  <2>2. <<>> \in Seq(Task) /\ Others(<<>>)
    BY DEF Others
  <2>3. ~busy <=> \A i : Stays(i, 1) => ~Steam(i)
    BY <1>5
  <2>4. (~busy) \in BOOLEAN
    OBVIOUS
  <2> QED BY <1>1, <1>2, <1>3, <1>4, <2>1, <2>2, <2>3, <2>4, Synced
<1>8. CASE ~r.ok
  <2> DEFINE more == <<>>
  <2>1. more \in Seq(Task) /\ \A k : ~Brings(k, more)
    <3>1. more \in Seq(Task) /\ Len(more) = 0
      OBVIOUS
    <3> HIDE DEF more
    <3> QED BY <3>1 DEF Brings
  <2>2. /\ Queue(Left(1), {}, more)
        /\ UNCHANGED <<installs, reliable, sure, busy, shortcuts>>
    BY <1>1, <1>8 DEF ScanDone, sync
  <2> HIDE DEF more
  <2>3. Submits(1, {}, more)
    BY <1>1, <2>1, <2>2, QueueSubmits DEF GamesInv
  <2>4. OneOfAKind(1, more)
    BY <2>1 DEF OneOfAKind
  <2>5. Flags(1, more)
    <3>1. \A k : ~Brings(k, more)
      BY <2>1
    <3>2. scanning' = FALSE /\ ~reliable'
      BY <1>2, <1>3, <2>2
    <3> QED BY <1>3, <1>5, <2>2, <3>1, <3>2 DEF Flags
  <2>6. Follows(1, {}, more)
    BY <2>1, <1>4 DEF Follows
  <2>7. SteamIsCurrent'
    BY <1>3, <2>2 DEF SteamIsCurrent
  <2> QED BY <2>1, <2>2, <2>3, <2>4, <2>5, <2>6, <2>7, Owner
<1> QED BY <1>1, <1>7, <1>8 DEF Result

LEMMA SteamSynced ==
  ASSUME GamesInv, results # <<>>, SteamDone(Head(results)), GamesTypeOK'
  PROVE  GamesInv'
<1> DEFINE r == Head(results)
           waits == r.ok /\ ~r.full
<1>1. /\ 1 \in 1..N /\ N \in Nat /\ Submitted[1] = r.task /\ r \in Result /\ r = results[1]
      /\ Left(1) = Tail(results) /\ Applies(1) /\ Len(results) >= 1 /\ Len(results) \in Nat
      /\ r.task \in Task
  BY FirstResult DEF GamesInv
<1>2. /\ Steam(1) /\ failed' = ~r.ok /\ shortcuts' = shortcuts
      /\ UNCHANGED <<installs, scanning, reliable, sure, enabled, skip, leftOut>>
  BY <1>1 DEF SteamDone, Steam, scans, prefs
<1>3. \A i : Stays(i, 1) => i \in 1..N /\ ~Steam(i)
  BY <1>1, <1>2 DEF GamesInv, Stays
<1>4. scanning <=> \E i : Stays(i, 1) /\ Scan(i)
  <2>1. scanning <=> \E i \in 1..N : Scan(i)
    BY DEF GamesInv
  <2>2. ASSUME NEW i \in 1..N, Scan(i) PROVE Stays(i, 1)
    BY <1>1, <1>2, <2>2 DEF Stays, Scan, Steam
  <2> QED BY <1>3, <2>1, <2>2
<1>5. (scanning => ~reliable) /\ (reliable => sure)
  BY DEF GamesInv
<1>6. CASE Again(r.task)
  <2>1. SyncSteam(Left(1), TRUE, waits, <<>>)
    BY <1>1, <1>6 DEF SteamDone
  <2>2. <<>> \in Seq(Task) /\ Others(<<>>)
    BY DEF Others
  <2> QED BY <1>1, <1>2, <1>3, <1>4, <1>5, <2>1, <2>2, Synced
<1>7. CASE ~Again(r.task)
  <2> DEFINE more == <<>>
  <2>1. more \in Seq(Task) /\ \A k : ~Brings(k, more)
    <3>1. more \in Seq(Task) /\ Len(more) = 0
      OBVIOUS
    <3> HIDE DEF more
    <3> QED BY <3>1 DEF Brings
  <2>2. Queue(Left(1), {}, more) /\ busy' = FALSE /\ steamPending' = waits
    BY <1>1, <1>7 DEF SteamDone
  <2> HIDE DEF more
  <2>3. Submits(1, {}, more)
    BY <1>1, <2>1, <2>2, QueueSubmits DEF GamesInv
  <2>4. OneOfAKind(1, more)
    BY <2>1 DEF OneOfAKind
  <2>5. Flags(1, more)
    <3>1. \A k : ~Brings(k, more)
      BY <2>1
    <3> QED BY <1>2, <1>3, <1>4, <1>5, <2>2, <3>1 DEF Flags
  <2>6. Follows(1, {}, more)
    BY <2>1, <1>3 DEF Follows
  <2>7. SteamIsCurrent'
    <3>1. r.task.current
      BY <1>7 DEF Again
    <3>2. Submitted[1].games = Titles(installs, skip)
      BY <1>1, <1>2, <3>1 DEF GamesInv
    <3>3. r.ok /\ r.full => shortcuts = Submitted[1].games
      BY <1>1, <1>2 DEF GamesInv
    <3>4. r.ok \in BOOLEAN /\ r.full \in BOOLEAN
      BY <1>1 DEF Result
    <3> QED BY <1>2, <2>2, <3>2, <3>3, <3>4 DEF SteamIsCurrent, Titles
  <2> QED BY <1>2, <2>1, <2>3, <2>4, <2>5, <2>6, <2>7, Owner
<1> QED BY <1>6, <1>7

LEMMA SyncAsked ==
  ASSUME GamesInv, NEW d \in {0, 1}, Applies(d), NEW more \in Seq(Task), Others(more),
         d = 1 => Head(results).task.kind \notin {"scan", "steam"},
         Sync(Left(d), more), UNCHANGED scans, leftOut \subseteq leftOut', GamesTypeOK'
  PROVE  GamesInv'
<1>1. /\ \A i \in 1..N : Scan(i) \/ Steam(i) => Stays(i, d)
      /\ \A i : Stays(i, d) => i \in 1..N
  BY Remain DEF GamesInv
<1>2. /\ scanning' = scanning /\ reliable' = reliable /\ sure' = sure /\ installs' = installs
      /\ shortcuts' = shortcuts
  BY DEF scans, Sync
<1>3. SyncSteam(Left(d), ~busy, steamPending, more)
  BY DEF Sync
<1>4. scanning' <=> \E i : Stays(i, d) /\ Scan(i)
  <2>1. scanning <=> \E i \in 1..N : Scan(i)
    BY DEF GamesInv
  <2> QED BY <1>1, <1>2, <2>1
<1>5. ~busy <=> \A i : Stays(i, d) => ~Steam(i)
  <2>1. busy <=> \E i \in 1..N : Steam(i)
    BY DEF GamesInv
  <2> QED BY <1>1, <2>1
<1>6. (~busy) \in BOOLEAN
  OBVIOUS
<1>7. (scanning' => ~reliable') /\ (reliable' => sure')
  BY <1>2 DEF GamesInv
<1>8. ASSUME NEW i, Stays(i, d), Steam(i), i > Len(results)
      PROVE  sure' /\ Games \ Submitted[i].games \subseteq leftOut' \union (Games \ installs')
  BY <1>1, <1>2, <1>8 DEF GamesInv, Unfinished
<1> QED BY <1>2, <1>3, <1>4, <1>5, <1>6, <1>7, <1>8, Synced

LEMMA SyncTypes ==
  ASSUME GamesTypeOK, NEW rest, NEW idle, NEW waits, NEW more,
         SyncSteam(rest, idle, waits, more)
  PROVE  busy' \in BOOLEAN /\ steamPending' \in BOOLEAN
BY DEF SyncSteam

LEMMA ClientTypes ==
  ASSUME GamesTypeOK, NEW starts, StartClient(starts)
  PROVE  restart' \in BOOLEAN /\ steamUp' \in BOOLEAN
BY DEF StartClient, GamesTypeOK, client

LEMMA SavesLibrary ==
  ASSUME GamesInv, NEW d \in {0, 1}, Applies(d), NEW more \in Seq(Task), Others(more),
         d = 1 => Head(results).task.kind \notin {"scan", "steam"},
         SaveLibrary(Left(d), more), UNCHANGED ops
  PROVE  GamesInv'
<1>1. GamesTypeOK /\ UNCHANGED <<disk, scans, locks, completed, prefs>>
  BY DEF GamesInv, SaveLibrary
<1>2. CASE scanning
  <2>1. UNCHANGED <<sync, client, shortcuts, probed>> /\ Queue(Left(d), {}, more)
    BY <1>2 DEF SaveLibrary
  <2>2. GamesTypeOK'
    BY <1>1, <2>1 DEF GamesTypeOK, scans, locks, away, prefs, sync, client
  <2>3. UNCHANGED Kept
    BY <1>1, <2>1 DEF Kept
  <2> QED BY <2>1, <2>2, <2>3, OtherTasks
<1>3. CASE ~scanning
  <2>1. Sync(Left(d), more)
    BY <1>3 DEF SaveLibrary
  <2>2. busy' \in BOOLEAN /\ steamPending' \in BOOLEAN
    BY <1>1, <2>1, SyncTypes DEF Sync
  <2>3. restart' \in BOOLEAN /\ steamUp' \in BOOLEAN
    BY <1>1, <2>1, ClientTypes DEF Sync
  <2>4. UNCHANGED <<failed, shortcuts, probed>>
    BY <2>1 DEF Sync
  <2>5. GamesTypeOK'
    BY <1>1, <2>2, <2>3, <2>4 DEF GamesTypeOK, scans, locks, away, prefs
  <2>6. leftOut \subseteq leftOut'
    BY <1>1 DEF prefs
  <2> QED BY <1>1, <2>1, <2>5, <2>6, SyncAsked
<1> QED BY <1>1, <1>2, <1>3 DEF GamesTypeOK

\* A step that leaves the worker alone.
LEMMA Unaffected ==
  ASSUME GamesInv, UNCHANGED <<worker, Kept>>, GamesTypeOK'
  PROVE  GamesInv'
<1>1. UNCHANGED <<tasks, results>> /\ Submitted' = Submitted /\ N' = N
  BY DEF worker, Submitted, N
<1>2. UNCHANGED <<installs, scanning, reliable, sure, busy, enabled, skip, leftOut,
                  steamPending, failed, shortcuts>>
  BY DEF Kept, scans, prefs, sync
<1> QED BY <1>1, <1>2 DEF GamesInv, WorkerTypeOK, Scan, Steam, Unfinished, SteamIsCurrent,
                          Titles

LEMMA Finishes ==
  ASSUME GamesInv, tasks # <<>>, NEW r \in Result, r.task = Head(tasks), Finished(r),
         UNCHANGED <<scans, prefs, sync>>, GamesTypeOK',
         r.task.kind # "steam" => UNCHANGED shortcuts,
         r.ok /\ r.full /\ r.task.kind = "steam" => shortcuts' = r.task.games
  PROVE  GamesInv'
<1>1. /\ WorkerTypeOK' /\ N' = N /\ (\A i \in 1..N : Submitted'[i] = Submitted[i])
      /\ Len(results') = Len(results) + 1 /\ Len(results) \in Nat /\ N \in Nat
      /\ \A i \in 1..Len(results) : results'[i] = results[i]
      /\ results'[Len(results) + 1] = r
      /\ Len(results) + 1 \in 1..N /\ Submitted[Len(results) + 1] = r.task
  BY FinishedSubmits, SubmittedAt DEF GamesInv
<1>2. UNCHANGED <<installs, scanning, reliable, sure, busy, enabled, skip, leftOut,
                  steamPending, failed>>
  BY DEF scans, prefs, sync
<1>3. \A i \in 1..N : (Scan(i)' <=> Scan(i)) /\ (Steam(i)' <=> Steam(i))
  BY <1>1 DEF Scan, Steam
<1>4. r.task.kind = "steam" <=> Steam(Len(results) + 1)
  BY <1>1 DEF Steam
<1>5. ASSUME NEW i \in 1..N, Steam(i), i > Len(results') PROVE Unfinished(i)'
  <2>1. Unfinished(i)
    BY <1>1, <1>5 DEF GamesInv
  <2> QED BY <1>1, <1>2, <1>3, <2>1 DEF Unfinished
<1>6. ASSUME NEW i \in 1..Len(results'), Steam(i), results'[i].ok, results'[i].full
      PROVE  shortcuts' = Submitted'[i].games
  <2>1. CASE i = Len(results) + 1
    BY <1>1, <1>4, <1>6, <2>1
  <2>2. CASE i # Len(results) + 1
    <3>1. i \in 1..Len(results) /\ i \in 1..N
      BY <1>1, <2>2
    <3>2. ~Steam(Len(results) + 1)
      BY <1>1, <1>6, <2>2, <3>1 DEF GamesInv
    <3>3. shortcuts' = shortcuts
      BY <1>4, <3>2
    <3> QED BY <1>1, <1>6, <3>1, <3>3 DEF GamesInv
  <2> QED BY <2>1, <2>2
<1>7. SteamIsCurrent'
  <2>1. CASE Steam(Len(results) + 1)
    <3>1. busy
      BY <1>1, <2>1 DEF GamesInv
    <3> QED BY <1>2, <3>1 DEF SteamIsCurrent
  <2>2. CASE ~Steam(Len(results) + 1)
    BY <1>2, <1>4, <2>2 DEF GamesInv, SteamIsCurrent, Titles
  <2> QED BY <2>1, <2>2
<1>8. /\ \A i, j \in 1..N : Scan(i)' /\ Scan(j)' => i = j
      /\ \A i, j \in 1..N : Steam(i)' /\ Steam(j)' => i = j
      /\ scanning' <=> \E i \in 1..N : Scan(i)'
      /\ busy' <=> \E i \in 1..N : Steam(i)'
  BY <1>2, <1>3 DEF GamesInv
<1>9. \A i \in 1..N : Steam(i)' /\ Submitted'[i].current
        => ~scanning' /\ Submitted'[i].games = Titles(installs', skip')
  BY <1>1, <1>2, <1>3 DEF GamesInv
<1>10. (scanning' => ~reliable') /\ (reliable' => sure')
  BY <1>2 DEF GamesInv
<1>11. 1..Len(results') \subseteq 1..N
  BY <1>1
<1> QED BY <1>1, <1>3, <1>5, <1>6, <1>7, <1>8, <1>9, <1>10, <1>11 DEF GamesInv

-----------------------------------------------------------------------------
(* The acts of the user and of other processes on games, and tick().       *)

LEMMA ActsTypes ==
  ASSUME GamesTypeOK, Acts
  PROVE  ops' \in 0..MaxOps
BY GamesAssumption DEF Acts, GamesTypeOK

LEMMA SyncGames ==
  ASSUME GamesTypeOK, NEW rest, NEW more, Sync(rest, more)
  PROVE  /\ {busy', steamPending', restart', steamUp'} \subseteq BOOLEAN
         /\ UNCHANGED <<failed, shortcuts, probed>>
<1>1. busy' \in BOOLEAN /\ steamPending' \in BOOLEAN
  BY SyncTypes DEF Sync
<1>2. restart' \in BOOLEAN /\ steamUp' \in BOOLEAN
  BY ClientTypes DEF Sync
<1> QED BY <1>1, <1>2 DEF Sync

LEMMA RescanGames ==
  ASSUME GamesTypeOK, NEW rest, Rescan(rest)
  PROVE  /\ scanning' \in BOOLEAN /\ reliable' \in BOOLEAN
         /\ UNCHANGED <<installs, sure, busy, steamPending, failed, restart, steamUp,
                        shortcuts, probed>>
<1>1. scanning' \in BOOLEAN /\ reliable' \in BOOLEAN
  BY DEF Rescan, GamesTypeOK
<1> QED BY <1>1 DEF Rescan, sync, client

LEMMA NothingMore ==
  <<>> \in Seq(Task) /\ Others(<<>>)
BY DEF Others

LEMMA SyncNow ==
  ASSUME GamesInv, Sync(results, <<>>), UNCHANGED scans, leftOut \subseteq leftOut',
         GamesTypeOK'
  PROVE  GamesInv'
<1> DEFINE more == <<>>
           d == 0
<1>1. /\ more \in Seq(Task) /\ Others(more) /\ Sync(Left(d), more)
      /\ d \in {0, 1} /\ Applies(d) /\ d # 1
  BY NothingMore, NoneApplied
<1> HIDE DEF more, d
<1> QED BY <1>1, SyncAsked

LEMMA Launches ==
  ASSUME GamesInv, NEW g \in Games, Launch(g)
  PROVE  GamesInv'
<1>1. /\ GamesTypeOK /\ ops' \in 0..MaxOps /\ None # "window" /\ None # "other"
      /\ UNCHANGED <<disk, scans, away, completed, prefs>> /\ lock[g] = None
      /\ runs' = [runs EXCEPT ![g] = "alive"] /\ lock' = [lock EXCEPT ![g] = "window"]
  BY ActsTypes, WorkerAssumption DEF GamesInv, Launch, Words
<1>2. /\ runs' \in [Games -> {"no", "alive", "exited"}]
      /\ lock' \in [Games -> {None, "window", "other"}]
      /\ \A h \in Games : /\ lock'[h] = "window" <=> runs'[h] # "no"
                          /\ lock'[h] = "other" <=> others'[h] # "no"
  BY <1>1 DEF GamesTypeOK, away
<1>3. CASE UNCHANGED <<worker, sync, client, shortcuts, probed>>
  <2>1. GamesTypeOK'
    BY <1>1, <1>2, <1>3 DEF GamesTypeOK, away, scans, prefs, sync, client
  <2> QED BY <1>1, <1>3, <2>1, Unaffected DEF Kept
<1>4. CASE Sync(results, <<>>)
  <2>1. GamesTypeOK'
    BY <1>1, <1>2, <1>4, SyncGames DEF GamesTypeOK, away, scans, prefs
  <2> QED BY <1>1, <1>4, <2>1, SyncNow DEF prefs
<1> QED BY <1>3, <1>4 DEF Launch

LEMMA Uninstalls ==
  ASSUME GamesInv, NEW g \in Games, Uninstall(g)
  PROVE  GamesInv'
<1>1. /\ GamesTypeOK /\ ops' \in 0..MaxOps /\ disk' = disk \ {g} /\ Rescan(results)
      /\ UNCHANGED <<locks, completed, prefs>>
  BY ActsTypes DEF GamesInv, Uninstall
<1>2. GamesTypeOK'
  BY <1>1, RescanGames DEF GamesTypeOK, locks, away, prefs
<1> QED BY <1>1, <1>2, Rescanned DEF prefs

LEMMA Applied ==
  ASSUME GamesInv, ApplySettings
  PROVE  GamesInv'
<1>1. /\ GamesTypeOK /\ ops' \in 0..MaxOps /\ enabled' = ~enabled /\ Rescan(results)
      /\ UNCHANGED <<skip, leftOut, disk, locks, completed>>
  BY ActsTypes DEF GamesInv, ApplySettings
<1>2. enabled' \in BOOLEAN
  BY <1>1
<1>3. GamesTypeOK'
  BY <1>1, <1>2, RescanGames DEF GamesTypeOK, locks, away
<1> QED BY <1>1, <1>3, Rescanned

LEMMA SetsInSteam ==
  ASSUME GamesInv, NEW g \in Games, SetInSteam(g)
  PROVE  GamesInv'
<1>1. /\ GamesTypeOK /\ ops' \in 0..MaxOps /\ Sync(results, <<>>)
      /\ skip' = (skip \ {g}) \union ({g} \ skip) /\ leftOut' = leftOut \union {g}
      /\ UNCHANGED <<enabled, disk, scans, locks, completed>>
  BY ActsTypes DEF GamesInv, SetInSteam
<1>2. GamesTypeOK'
  BY <1>1, SyncGames DEF GamesTypeOK, locks, away, scans
<1> QED BY <1>1, <1>2, SyncNow

\* Nothing of what scans and syncs look at changes.
LEMMA OtherActs ==
  ASSUME GamesInv, NEW g \in Games, GameExits(g) \/ Download(g) \/ OtherUninstall(g)
  PROVE  GamesInv'
<1>1. GamesTypeOK /\ (Acts => ops' \in 0..MaxOps) /\ None # "window" /\ None # "other"
  BY ActsTypes, WorkerAssumption DEF GamesInv, Words
<1>2. UNCHANGED <<worker, Kept>>
  BY DEF GameExits, Download, OtherUninstall, Kept
<1>3. UNCHANGED <<installs, scanning, reliable, sure, enabled, skip, leftOut, busy,
                  steamPending, failed, shortcuts>>
  BY <1>2 DEF Kept, scans, prefs, sync
<1>4. ASSUME GameExits(g) PROVE GamesTypeOK'
  BY <1>1, <1>3, <1>4 DEF GameExits, GamesTypeOK, client, away
<1>5. ASSUME Download(g) PROVE GamesTypeOK'
  BY <1>1, <1>3, <1>5 DEF Download, GamesTypeOK, client, locks, away
<1>6. ASSUME OtherUninstall(g) PROVE GamesTypeOK'
  BY <1>1, <1>3, <1>6 DEF OtherUninstall, GamesTypeOK, client, locks, away
<1> QED BY <1>2, <1>4, <1>5, <1>6, Unaffected

LEMMA SteamActs ==
  ASSUME GamesInv, SteamChanges \/ RestartSteam
  PROVE  GamesInv'
<1>1. GamesTypeOK /\ (Acts => ops' \in 0..MaxOps)
  BY ActsTypes DEF GamesInv
<1>2. UNCHANGED <<worker, Kept>> /\ UNCHANGED <<disk, locks, completed, probed>>
  BY DEF SteamChanges, RestartSteam, Kept
<1>3. steamUp' \in BOOLEAN /\ restart' \in BOOLEAN /\ ops' \in 0..MaxOps
  BY <1>1 DEF SteamChanges, RestartSteam, GamesTypeOK
<1>4. GamesTypeOK'
  BY <1>1, <1>2, <1>3 DEF GamesTypeOK, Kept, scans, prefs, sync, locks, away
<1> QED BY <1>2, <1>4, Unaffected

\* A lock tells whose launcher the game has, if any.
LEMMA LocksTell ==
  ASSUME GamesTypeOK
  PROVE  /\ None # "window" /\ None # "other"
         /\ lock \in [Games -> {None, "window", "other"}]
         /\ runs \in [Games -> {"no", "alive", "exited"}]
         /\ others \in [Games -> {"no", "alive", "exited"}]
         /\ orphans \subseteq Games
         /\ \A g \in Games : /\ lock[g] = "window" <=> runs[g] # "no"
                             /\ lock[g] = "other" <=> others[g] # "no"
<1>1. None # "window" /\ None # "other"
  BY WorkerAssumption DEF Words
<1> QED BY <1>1 DEF GamesTypeOK

LEMMA Unlocked ==
  ASSUME GamesTypeOK, NEW g \in Games, lock[g] = None
  PROVE  runs[g] = "no" /\ others[g] = "no"
<1>1. lock[g] # "window" /\ lock[g] # "other"
  BY LocksTell
<1>2. runs[g] # "no" => lock[g] = "window"
  BY LocksTell, Zenon
<1>3. others[g] # "no" => lock[g] = "other"
  BY LocksTell, Zenon
<1> QED BY <1>1, <1>2, <1>3

\* Games that start and end outside, and this launcher's own end, change
\* locks and what runs only.
LEMMA OutsideKeeps ==
  ASSUME GamesInv, ops' \in 0..MaxOps,
         UNCHANGED <<disk, scans, completed, prefs, client, sync, shortcuts, probed, worker>>,
         lock' \in [Games -> {None, "window", "other"}],
         runs' \in [Games -> {"no", "alive", "exited"}],
         others' \in [Games -> {"no", "alive", "exited"}],
         \A h \in Games : /\ lock'[h] = "window" <=> runs'[h] # "no"
                          /\ lock'[h] = "other" <=> others'[h] # "no",
         orphans' \subseteq Games, open' \in BOOLEAN
  PROVE  GamesInv'
<1>1. GamesTypeOK
  BY DEF GamesInv
<1>2. GamesTypeOK'
  BY <1>1 DEF GamesTypeOK, scans, prefs, client, sync
<1>3. UNCHANGED <<worker, Kept>>
  BY DEF Kept
<1> QED BY <1>2, <1>3, Unaffected

LEMMA OutsideGames ==
  ASSUME GamesInv, NEW g \in Games,
         OtherLaunch(g) \/ OtherEnds(g) \/ OtherExit(g) \/ OrphanEnds(g)
  PROVE  GamesInv'
<1>1. /\ GamesTypeOK /\ (Acts => ops' \in 0..MaxOps) /\ ops \in 0..MaxOps
      /\ None # "window" /\ None # "other"
  BY ActsTypes, WorkerAssumption DEF GamesInv, GamesTypeOK, Words
<1>2. ops' \in 0..MaxOps /\ Outside
  BY <1>1 DEF OtherLaunch, OtherEnds, OtherExit, OrphanEnds
<1>3. runs' \in [Games -> {"no", "alive", "exited"}] /\ runs' = runs /\ open' \in BOOLEAN
  BY <1>1, <1>2 DEF Outside, GamesTypeOK
<1>4. /\ lock' \in [Games -> {None, "window", "other"}]
      /\ others' \in [Games -> {"no", "alive", "exited"}]
      /\ orphans' \subseteq Games
      /\ \A h \in Games : /\ lock'[h] = "window" <=> runs'[h] # "no"
                          /\ lock'[h] = "other" <=> others'[h] # "no"
  <2>1. CASE OtherLaunch(g)
    <3>1. /\ lock' = [lock EXCEPT ![g] = "other"] /\ others' = [others EXCEPT ![g] = "alive"]
          /\ orphans' = orphans /\ runs[g] = "no"
      BY <1>1, <2>1, Unlocked DEF OtherLaunch
    <3>2. ASSUME NEW h \in Games, h # g
          PROVE  /\ lock'[h] = "window" <=> runs'[h] # "no"
                 /\ lock'[h] = "other" <=> others'[h] # "no"
      BY <1>1, <1>3, <3>1, <3>2, LocksTell
    <3>3. lock'[g] = "other" /\ others'[g] = "alive" /\ runs'[g] = "no"
      BY <1>1, <1>3, <3>1, LocksTell
    <3> QED BY <1>1, <3>1, <3>2, <3>3, LocksTell
  <2>2. CASE OtherEnds(g)
    BY <1>1, <1>3, <2>2, LocksTell DEF OtherEnds
  <2>3. CASE OtherExit(g)
    BY <1>1, <1>3, <2>3, LocksTell DEF OtherExit
  <2>4. CASE OrphanEnds(g)
    BY <1>1, <1>3, <2>4, LocksTell DEF OrphanEnds
  <2> QED BY <2>1, <2>2, <2>3, <2>4
<1> QED BY <1>2, <1>3, <1>4, OutsideKeeps DEF Outside

LEMMA Quits ==
  ASSUME GamesInv, Quit
  PROVE  GamesInv'
<1>1. GamesTypeOK /\ ops' \in 0..MaxOps /\ None # "window" /\ None # "other"
  BY ActsTypes, WorkerAssumption DEF GamesInv, Quit, Words
<1>2. /\ runs' = [h \in Games |-> "no"] /\ others' = others /\ open' = FALSE
      /\ lock' = [h \in Games |-> IF lock[h] = "window" THEN None ELSE lock[h]]
      /\ orphans' \subseteq Games
  BY <1>1 DEF Quit, GamesTypeOK
<1>3. /\ lock' \in [Games -> {None, "window", "other"}]
      /\ runs' \in [Games -> {"no", "alive", "exited"}]
      /\ others' \in [Games -> {"no", "alive", "exited"}]
      /\ \A h \in Games : /\ lock'[h] = "window" <=> runs'[h] # "no"
                          /\ lock'[h] = "other" <=> others'[h] # "no"
  <2>1. ASSUME NEW h \in Games
        PROVE  /\ lock'[h] # "window" /\ runs'[h] = "no"
               /\ lock'[h] = "other" <=> others'[h] # "no"
    <3>1. CASE lock[h] = "window"
      <4>1. lock'[h] = None /\ lock[h] # "other"
        BY <1>2, <3>1
      <4>2. others[h] # "no" => lock[h] = "other"
        BY <1>1, LocksTell, Zenon
      <4> QED BY <1>1, <1>2, <4>1, <4>2
    <3>2. CASE lock[h] # "window"
      <4>1. lock'[h] = lock[h]
        BY <1>2, <3>2
      <4>2. lock[h] = "other" <=> others[h] # "no"
        BY <1>1, LocksTell, Zenon
      <4> QED BY <1>2, <3>2, <4>1, <4>2
    <3> QED BY <3>1, <3>2
  <2> QED BY <1>1, <1>2, <2>1, LocksTell
<1> QED BY <1>1, <1>2, <1>3, OutsideKeeps DEF Quit

LEMMA Polls ==
  ASSUME GamesInv, Poll \/ PollSteam
  PROVE  GamesInv'
<1>1. GamesTypeOK /\ None # "window" /\ None # "other"
  BY WorkerAssumption DEF GamesInv, Words
<1>2. CASE Poll
  <2>1. /\ runs' = [g \in Games |-> IF g \in Exited THEN "no" ELSE runs[g]]
        /\ lock' = [g \in Games |-> Released(g)] /\ completed' = FALSE
        /\ Rescan(results) /\ UNCHANGED <<disk, away, prefs, ops>>
    BY <1>2 DEF Poll
  <2>2. /\ runs' \in [Games -> {"no", "alive", "exited"}]
        /\ lock' \in [Games -> {None, "window", "other"}]
        /\ \A h \in Games : /\ lock'[h] = "window" <=> runs'[h] # "no"
                            /\ lock'[h] = "other" <=> others'[h] # "no"
    BY <1>1, <2>1 DEF GamesTypeOK, Exited, Released, away
  <2>3. GamesTypeOK'
    BY <1>1, <2>1, <2>2, RescanGames DEF GamesTypeOK, away, prefs
  <2> QED BY <2>1, <2>3, Rescanned DEF prefs
<1>3. CASE PollSteam
  <2>1. UNCHANGED <<disk, scans, locks, completed, prefs, ops>>
    BY <1>3 DEF PollSteam
  <2>2. CASE Sync(results, <<>>)
    <3>1. GamesTypeOK'
      BY <1>1, <2>1, <2>2, SyncGames DEF GamesTypeOK, scans, locks, away, prefs
    <3> QED BY <2>1, <2>2, <3>1, SyncNow DEF prefs
  <2>3. CASE StartClient(TRUE) /\ UNCHANGED <<sync, shortcuts, probed, worker>>
    <3>1. GamesTypeOK'
      BY <1>1, <2>1, <2>3, ClientTypes DEF GamesTypeOK, scans, locks, away, prefs, sync
    <3> QED BY <2>1, <2>3, <3>1, Unaffected DEF Kept
  <2> QED BY <1>3, <2>2, <2>3 DEF PollSteam
<1> QED BY <1>2, <1>3

LEMMA ActsOnGames ==
  ASSUME GamesInv, GameActs \/ OutsideActs
  PROVE  GamesInv'
<1>1. CASE \E g \in Games : Launch(g) \/ Uninstall(g) \/ SetInSteam(g)
  BY <1>1, Launches, Uninstalls, SetsInSteam
<1>2. CASE ApplySettings \/ Quit
  BY <1>2, Applied, Quits
<1>3. CASE \E g \in Games : GameExits(g) \/ Download(g) \/ OtherUninstall(g)
  BY <1>3, OtherActs
<1>4. CASE \E g \in Games : OtherLaunch(g) \/ OtherEnds(g) \/ OtherExit(g) \/ OrphanEnds(g)
  BY <1>4, OutsideGames
<1>5. CASE SteamChanges \/ RestartSteam
  BY <1>5, SteamActs
<1> QED BY <1>1, <1>2, <1>3, <1>4, <1>5 DEF GameActs, OutsideActs

-----------------------------------------------------------------------------
(* The worker's tasks of games, and their completions.                     *)

LEMMA Runs ==
  ASSUME GamesInv, RunScan \/ RunSteam
  PROVE  GamesInv' /\ UNCHANGED ops
<1>1. GamesTypeOK /\ WorkerTypeOK
  BY DEF GamesInv
<1>2. ASSUME tasks # <<>> PROVE Head(tasks) \in Task
  BY <1>1, <1>2, HeadTailProperties, EmptySeq DEF WorkerTypeOK
<1>3. CASE RunScan
  <2>1. UNCHANGED <<games, ops>> /\ tasks # <<>> /\ Head(tasks).kind = "scan"
    BY <1>3 DEF RunScan
  <2>2. GamesTypeOK' /\ UNCHANGED <<scans, prefs, sync>> /\ UNCHANGED shortcuts
    BY <1>1, <2>1 DEF games, GamesTypeOK, scans, locks, away, prefs, client, sync
  <2>3. ASSUME NEW r \in Result, r.task = Head(tasks), Finished(r) PROVE GamesInv'
    BY <2>1, <2>2, <2>3, Finishes
  <2>4. disk \subseteq Games
    BY <1>1 DEF GamesTypeOK
  <2>5. ASSUME NEW found \in SUBSET disk,
               Finished(Answer(Head(tasks), TRUE, found = disk, found))
        PROVE  GamesInv'
    <3> DEFINE r == Answer(Head(tasks), TRUE, found = disk, found)
    <3>1. r \in Result /\ r.task = Head(tasks)
      BY <1>2, <2>1, <2>4 DEF Answer, Result
    <3> QED BY <2>3, <2>5, <3>1
  <2>6. ASSUME Finished(Answer(Head(tasks), FALSE, FALSE, {})) PROVE GamesInv'
    <3> DEFINE r == Answer(Head(tasks), FALSE, FALSE, {})
    <3>1. r \in Result /\ r.task = Head(tasks)
      BY <1>2, <2>1 DEF Answer, Result
    <3> QED BY <2>3, <2>6, <3>1
  <2> QED BY <1>3, <2>1, <2>5, <2>6 DEF RunScan
<1>4. CASE RunSteam
  <2>1. /\ tasks # <<>> /\ Head(tasks).kind = "steam" /\ Head(tasks) \in Task
        /\ UNCHANGED <<disk, scans, locks, completed, prefs, client, sync, ops>>
    BY <1>2, <1>4 DEF RunSteam
  <2> DEFINE t == Head(tasks)
  <2>2. ASSUME shortcuts' \subseteq Games, probed' \in BOOLEAN PROVE GamesTypeOK'
    BY <1>1, <2>1, <2>2 DEF GamesTypeOK, scans, locks, away, prefs, client, sync
  <2>3. UNCHANGED <<scans, prefs, sync>>
    BY <2>1
  <2>4. t.games \subseteq Games /\ probed \in BOOLEAN /\ shortcuts \subseteq Games
    BY <1>1, <2>1 DEF Task, GamesTypeOK
  <2>5. ASSUME shortcuts' = t.games, probed' = FALSE, Finished(Answer(t, TRUE, TRUE, {}))
        PROVE  GamesInv'
    <3>1. Answer(t, TRUE, TRUE, {}) \in Result /\ Answer(t, TRUE, TRUE, {}).task = t
      BY <2>1 DEF Answer, Result
    <3>2. GamesTypeOK'
      BY <2>2, <2>4, <2>5
    <3> QED BY <2>1, <2>3, <2>5, <3>1, <3>2, Finishes
  <2>6. ASSUME probed' = TRUE, UNCHANGED <<shortcuts, worker>> PROVE GamesInv'
    BY <2>1, <2>2, <2>4, <2>6, Unaffected DEF Kept
  <2>7. ASSUME Finished(Answer(t, TRUE, shortcuts = t.games, {})), UNCHANGED <<shortcuts, probed>>
        PROVE  GamesInv'
    <3> DEFINE r == Answer(t, TRUE, shortcuts = t.games, {})
    <3>1. r \in Result /\ r.task = t /\ (r.full => shortcuts = t.games)
      BY <2>1 DEF Answer, Result
    <3>2. GamesTypeOK'
      BY <2>2, <2>4, <2>7
    <3>3. Finished(r)
      BY <2>7
    <3> HIDE DEF r
    <3> QED BY <2>1, <2>3, <2>7, <3>1, <3>2, <3>3, Finishes
  <2>8. ASSUME Finished(Answer(t, FALSE, FALSE, {})), probed' = FALSE, UNCHANGED shortcuts
        PROVE  GamesInv'
    <3> DEFINE r == Answer(t, FALSE, FALSE, {})
    <3>1. r \in Result /\ r.task = t /\ ~r.ok
      BY <2>1 DEF Answer, Result
    <3>2. GamesTypeOK'
      BY <2>2, <2>4, <2>8
    <3>3. Finished(r)
      BY <2>8
    <3> HIDE DEF r
    <3> QED BY <2>1, <2>3, <2>8, <3>1, <3>2, <3>3, Finishes
  <2> QED BY <1>4, <2>1, <2>5, <2>6, <2>7, <2>8 DEF RunSteam
<1> QED BY <1>3, <1>4

LEMMA GamesDone ==
  ASSUME GamesInv, results # <<>>, UNCHANGED ops,
         ScanDone(Head(results)) \/ SteamDone(Head(results))
  PROVE  GamesInv'
<1> DEFINE r == Head(results)
<1>1. GamesTypeOK /\ r \in Result
  BY FirstResult DEF GamesInv
<1>2. CASE ScanDone(r)
  <2>1. scanning' = FALSE /\ UNCHANGED <<disk, locks, completed, prefs, ops>>
    BY <1>2 DEF ScanDone
  <2>2. CASE r.ok
    <3>1. /\ installs' = r.games /\ reliable' = r.full /\ sure' = r.full
          /\ Sync(Tail(results), <<>>)
      BY <1>2, <2>2 DEF ScanDone, Authoritative
    <3>2. r.games \subseteq Games /\ r.full \in BOOLEAN
      BY <1>1 DEF Result
    <3> QED BY <1>1, <1>2, <2>1, <3>1, <3>2, SyncGames, Scanned DEF GamesTypeOK, locks, away, prefs
  <2>3. CASE ~r.ok
    <3>1. UNCHANGED <<installs, reliable, sure, sync, client, shortcuts, probed>>
      BY <1>2, <2>3 DEF ScanDone
    <3> QED BY <1>1, <1>2, <2>1, <3>1, Scanned DEF GamesTypeOK, locks, away, prefs, sync, client
  <2> QED BY <1>1, <2>2, <2>3 DEF Result
<1>3. CASE SteamDone(r)
  <2>1. failed' = ~r.ok /\ UNCHANGED <<disk, scans, locks, completed, prefs, shortcuts, probed, ops>>
    BY <1>3 DEF SteamDone
  <2>2. failed' \in BOOLEAN
    BY <2>1
  <2>3. restart' \in BOOLEAN /\ steamUp' \in BOOLEAN
    BY <1>1, <1>3, ClientTypes DEF SteamDone
  <2>4. busy' \in BOOLEAN /\ steamPending' \in BOOLEAN
    <3>1. CASE Again(r.task)
      BY <1>1, <1>3, <3>1, SyncTypes DEF SteamDone
    <3>2. CASE ~Again(r.task)
      BY <1>3, <3>2 DEF SteamDone
    <3> QED BY <3>1, <3>2
  <2>5. GamesTypeOK'
    BY <1>1, <2>1, <2>2, <2>3, <2>4 DEF GamesTypeOK, scans, locks, away, prefs
  <2> QED BY <1>3, <2>5, SteamSynced
<1> QED BY <1>2, <1>3

-----------------------------------------------------------------------------
(* Accounts and sign-in, which share the worker.                           *)

AccountsOK ==
  /\ vault \in [Accounts -> Accounts \union {"out", "absent"}]
  /\ {active, session, key, scope, dl, wanted} \subseteq Accounts \union {None}
  /\ view \subseteq Accounts /\ out \subseteq Accounts /\ libraryPending \subseteq Accounts
  /\ {signingIn, verifying, auth, manual, refreshing, adding} \subseteq BOOLEAN
  /\ helper \in {"none", "open", "ending"}
  /\ events \in Seq(Accounts \union {"error", "closed"})

Inv == AccountsOK /\ GamesInv

Installed == <<disk, shortcuts>>

LEMMA GamesStill ==
  ASSUME GamesTypeOK, UNCHANGED games, ops' \in 0..MaxOps
  PROVE  GamesTypeOK' /\ UNCHANGED Kept /\ UNCHANGED Installed
BY DEF GamesTypeOK, Kept, Installed, games, scans, locks, away, prefs, client, sync

LEMMA Alone ==
  ASSUME GamesInv, UNCHANGED <<games, worker>>, ops' \in 0..MaxOps
  PROVE  GamesInv'
BY GamesStill, Unaffected DEF GamesInv

LEMMA Asks ==
  ASSUME GamesInv, UNCHANGED games, ops' \in 0..MaxOps, NEW kinds, "steam" \notin kinds,
         NEW more \in Seq(Task), Others(more), Queue(results, kinds, more)
  PROVE  GamesInv'
<1> DEFINE d == 0
<1>1. d \in {0, 1} /\ Applies(d) /\ d # 1 /\ Queue(Left(d), kinds, more)
  BY NoneApplied
<1> HIDE DEF d
<1>2. GamesTypeOK' /\ UNCHANGED Kept
  BY GamesStill DEF GamesInv
<1> QED BY <1>1, <1>2, OtherTasks

LEMMA Absorbs ==
  ASSUME GamesInv, UNCHANGED games, UNCHANGED ops, results # <<>>,
         Head(results).task.kind \notin {"scan", "steam"},
         NEW more \in Seq(Task), Others(more), Queue(Tail(results), {}, more)
  PROVE  GamesInv'
<1> DEFINE d == 1
           kinds == {}
<1>1. /\ d \in {0, 1} /\ Applies(d) /\ Queue(Left(d), kinds, more) /\ "steam" \notin kinds
  BY FirstResult DEF GamesInv
<1> HIDE DEF d, kinds
<1>2. GamesTypeOK' /\ UNCHANGED Kept
  BY GamesStill DEF GamesInv, GamesTypeOK
<1> QED BY <1>1, <1>2, OtherTasks

LEMMA Saves ==
  ASSUME GamesInv, UNCHANGED ops, results # <<>>,
         Head(results).task.kind \notin {"scan", "steam"},
         NEW more \in Seq(Task), Others(more), SaveLibrary(Tail(results), more)
  PROVE  GamesInv' /\ UNCHANGED Installed
<1> DEFINE d == 1
<1>1. /\ d \in {0, 1} /\ Applies(d) /\ SaveLibrary(Left(d), more)
  BY FirstResult DEF GamesInv
<1> HIDE DEF d
<1>2. GamesInv'
  BY <1>1, SavesLibrary
<1>3. UNCHANGED Installed
  BY DEF SaveLibrary, Sync, Installed, locks, away
<1> QED BY <1>2, <1>3

LEMMA OneTask ==
  ASSUME NEW kind \in {"begin", "complete", "refresh", "add", "account"},
         NEW by \in Accounts \union {None}
  PROVE  <<Make(kind, by, {})>> \in Seq(Task) /\ Others(<<Make(kind, by, {})>>)
<1> DEFINE t == Make(kind, by, {})
<1>1. t \in Task /\ t.kind = kind
  BY DEF Make, Task, TaskKinds
<1> HIDE DEF t
<1>2. <<t>> \in Seq(Task) /\ Others(<<t>>)
  BY <1>1 DEF Others
<1> QED BY <1>2 DEF t

LEMMA TasksOfAccounts ==
  ASSUME NEW asked, asked \subseteq Accounts, NEW order \in Orders(asked)
  PROVE  AccountTasks(order) \in Seq(Task) /\ Others(AccountTasks(order))
<1>1. Cardinality(asked) \in Nat
  BY AccountsAssumption, FS_Subset, FS_CardinalityType
<1> DEFINE n == Cardinality(asked)
           f == AccountTasks(order)
<1>2. order \in [1..n -> asked]
  BY DEF Orders, Bijection, Injection, Surjection
<1>3. \A i \in 1..n : /\ Make("account", order[i], {}) \in Task
                      /\ Make("account", order[i], {}).kind = "account"
  BY <1>2 DEF Make, Task, TaskKinds
<1>4. f \in [1..n -> Task] /\ \A i \in 1..n : f[i].kind = "account"
  BY <1>2, <1>3 DEF AccountTasks
<1> HIDE DEF n, f
<1>5. n \in Nat
  BY <1>1 DEF n
<1>6. f \in Seq(Task) /\ Len(f) = n
  BY <1>4, <1>5, ASequence
<1>7. f \in Seq(Task) /\ Others(f)
  BY <1>4, <1>6 DEF Others
<1> QED BY <1>7 DEF f

Quiet == UNCHANGED games /\ ops' \in 0..MaxOps

LEMMA EpochsOnly ==
  "steam" \notin Epochs /\ "steam" \notin {}
BY DEF Epochs

LEMMA ActsQuietly ==
  ASSUME Inv, Acts
  PROVE  ops' \in 0..MaxOps
BY ActsTypes DEF Inv, GamesInv

LEMMA Closes ==
  ASSUME AccountsOK, CloseBrowser
  PROVE  /\ helper' \in {"none", "open", "ending"}
         /\ events' \in Seq(Accounts \union {"error", "closed"})
<1>1. events \in Seq(Accounts \union {"error", "closed"}) /\ "closed" \in Accounts \union {"error", "closed"}
  BY DEF AccountsOK
<1>2. Append(events, "closed") \in Seq(Accounts \union {"error", "closed"})
  BY <1>1, AppendProperties
<1> QED BY <1>1, <1>2 DEF CloseBrowser

LEMMA Switches ==
  ASSUME Inv, NEW a \in Accounts, SwitchAccount(a)
  PROVE  Inv' /\ UNCHANGED games
<1> USE DEF SwitchAccount
<1>1. AccountsOK /\ GamesInv /\ UNCHANGED games /\ ops' \in 0..MaxOps
  BY ActsQuietly DEF Inv
<1>2. vault[a] \in Accounts /\ session' = vault[a]
  BY DEF In
<1>3. Queue(results, Epochs, <<RefreshTask>>) /\ CloseBrowser
  BY DEF Abandon
<1>4. AccountsOK'
  BY <1>1, <1>2, <1>3, Closes DEF AccountsOK, In, Abandon
<1>5. <<RefreshTask>> \in Seq(Task) /\ Others(<<RefreshTask>>)
  BY <1>2, OneTask DEF RefreshTask
<1>6. GamesInv'
  BY <1>1, <1>3, <1>5, EpochsOnly, Asks
<1> QED BY <1>1, <1>4, <1>6 DEF Inv

LEMMA Leaves ==
  ASSUME Inv, ops' \in 0..MaxOps, NEW a \in Accounts, NEW gone \in {"out", "absent"}, Leave(a, gone)
  PROVE  Inv' /\ UNCHANGED games
<1> USE DEF Leave
<1>1. AccountsOK /\ GamesInv /\ UNCHANGED games
  BY DEF Inv
<1>2. /\ vault' \in [Accounts -> Accounts \union {"out", "absent"}]
      /\ active' \in Accounts \union {None} /\ view' \subseteq Accounts /\ out' \subseteq Accounts
      /\ UNCHANGED <<adding, libraryPending>>
  BY <1>1 DEF AccountsOK, In
<1>3. CASE key = a
  <2>1. /\ Queue(results, Epochs, <<>>) /\ CloseBrowser /\ UNCHANGED manual
        /\ signingIn' = FALSE /\ verifying' = FALSE /\ auth' = FALSE /\ wanted' = None
        /\ session' = None /\ key' = None /\ scope' = None /\ dl' = None /\ refreshing' = FALSE
    BY <1>3 DEF SignOutAbandon, Abandon
  <2>2. AccountsOK'
    BY <1>1, <1>2, <2>1, Closes DEF AccountsOK
  <2>3. GamesInv'
    BY <1>1, <2>1, EpochsOnly, NothingMore, Asks
  <2> QED BY <1>1, <2>2, <2>3 DEF Inv
<1>4. CASE key # a
  <2>1. UNCHANGED <<window, refreshing, browser, signIn, worker>>
    BY <1>4
  <2>2. AccountsOK'
    BY <1>1, <1>2, <2>1 DEF AccountsOK, window, browser, signIn
  <2> QED BY <1>1, <2>1, <2>2, Alone DEF Inv
<1> QED BY <1>3, <1>4

LEMMA SignsOut ==
  ASSUME Inv, NEW a \in Accounts, SignOut(a) \/ RemoveAccount(a)
  PROVE  Inv' /\ UNCHANGED games
BY ActsQuietly, Leaves DEF SignOut, RemoveAccount

LEMMA ChangesElsewhere ==
  ASSUME Inv, NEW a \in Accounts, Elsewhere(a)
  PROVE  Inv' /\ UNCHANGED games
<1>1. /\ UNCHANGED <<view, window, browser, signIn, fetches, out, games, worker>>
      /\ AccountsOK /\ GamesInv /\ ops' \in 0..MaxOps
  BY ActsQuietly DEF Elsewhere, Inv
<1>2. /\ vault' \in [Accounts -> Accounts \union {"out", "absent"}]
      /\ active' \in Accounts \union {None}
  BY <1>1 DEF Elsewhere, AccountsOK
<1>3. AccountsOK'
  BY <1>1, <1>2 DEF AccountsOK, window, browser, signIn, fetches
<1> QED BY <1>1, <1>3, Alone DEF Inv

LEMMA Refreshes ==
  ASSUME Inv, Refresh \/ AddOwned \/ SignIn \/ CancelSignIn
  PROVE  Inv' /\ UNCHANGED games
<1>1. AccountsOK /\ GamesInv /\ UNCHANGED games /\ ops' \in 0..MaxOps /\ session \in Accounts \union {None}
  BY ActsQuietly DEF Inv, Refresh, AddOwned, SignIn, CancelSignIn, AccountsOK
<1>2. CASE Refresh \/ AddOwned
  <2>1. AccountsOK'
    BY <1>1, <1>2 DEF Refresh, AddOwned, AccountsOK, slots, window, browser, signIn
  <2>2. PICK kind \in {"refresh", "add"} : Queue(results, {}, <<Make(kind, session, {})>>)
    BY <1>2 DEF Refresh, AddOwned
  <2>3. GamesInv'
    BY <1>1, <2>2, OneTask, EpochsOnly, Asks
  <2> QED BY <1>1, <2>1, <2>3 DEF Inv
<1>3. CASE SignIn
  <2>1. AccountsOK'
    BY <1>1, <1>3 DEF SignIn, Verifies, AccountsOK, slots, window, browser
  <2>2. Queue(results, Epochs, <<Make("begin", None, {})>>)
    BY <1>3 DEF SignIn
  <2>3. GamesInv'
    BY <1>1, <2>2, OneTask, EpochsOnly, Asks
  <2> QED BY <1>1, <2>1, <2>3 DEF Inv
<1>4. CASE CancelSignIn
  <2>1. Queue(results, Epochs, <<>>) /\ CloseBrowser
    BY <1>4 DEF CancelSignIn, Abandon
  <2>2. AccountsOK'
    BY <1>1, <1>4, <2>1, Closes DEF CancelSignIn, Abandon, AccountsOK, slots, window, fetches
  <2>3. GamesInv'
    BY <1>1, <2>1, NothingMore, EpochsOnly, Asks
  <2> QED BY <1>1, <2>2, <2>3 DEF Inv
<1> QED BY <1>2, <1>3, <1>4

LEMMA Completes ==
  ASSUME Inv, UNCHANGED <<slots, view, window, fetches, games>>, ops' \in 0..MaxOps,
         helper' \in {"none", "open", "ending"},
         events' \in Seq(Accounts \union {"error", "closed"}),
         NEW a \in Accounts, CompleteSignIn(a)
  PROVE  Inv'
<1>1. AccountsOK /\ GamesInv
  BY DEF Inv
<1>2. AccountsOK'
  BY <1>1 DEF AccountsOK, slots, window, fetches, CompleteSignIn
<1>3. Queue(results, {}, <<Make("complete", a, {})>>)
  BY DEF CompleteSignIn
<1>4. GamesInv'
  BY <1>1, <1>3, OneTask, EpochsOnly, Asks
<1> QED BY <1>2, <1>4 DEF Inv

LEMMA Pastes ==
  ASSUME Inv, NEW a \in Accounts, PasteSignIn(a)
  PROVE  Inv' /\ UNCHANGED games
<1>1. /\ UNCHANGED <<slots, view, window, browser, fetches, games>> /\ ops' \in 0..MaxOps
      /\ CompleteSignIn(a) /\ AccountsOK
  BY ActsQuietly DEF PasteSignIn, Inv
<1>2. /\ helper' \in {"none", "open", "ending"}
      /\ events' \in Seq(Accounts \union {"error", "closed"})
  BY <1>1 DEF AccountsOK, browser
<1> QED BY <1>1, <1>2, Completes

LEMMA Windows ==
  ASSUME Inv, WindowActs
  PROVE  Inv' /\ UNCHANGED games
<1>1. AccountsOK /\ GamesInv /\ ops \in 0..MaxOps
  BY DEF Inv, GamesInv, GamesTypeOK
<1>2. PICK e \in Accounts \union {"error", "closed"} :
        WindowReports(e) /\ helper' \in {"none", "open", "ending"}
  BY DEF WindowActs, HelperReports, HelperCloses
<1>3. /\ events' = Append(events, e)
      /\ UNCHANGED <<slots, view, window, signIn, fetches, out, games, worker, ops>>
  BY <1>2 DEF WindowReports
<1>4. events' \in Seq(Accounts \union {"error", "closed"})
  <2>1. events \in Seq(Accounts \union {"error", "closed"})
    BY <1>1 DEF AccountsOK
  <2> QED BY <1>3, <2>1, AppendProperties
<1>5. AccountsOK'
  BY <1>1, <1>2, <1>3, <1>4 DEF AccountsOK, slots, window, signIn, fetches
<1>6. GamesInv'
  BY <1>1, <1>3, Alone
<1> QED BY <1>3, <1>5, <1>6 DEF Inv

LEMMA PollsBrowser ==
  ASSUME Inv, PollBrowser
  PROVE  Inv' /\ UNCHANGED games
<1>1. /\ UNCHANGED <<helper, slots, view, window, fetches, games, ops>> /\ events # <<>>
      /\ events' = Tail(events) /\ AccountsOK /\ GamesInv /\ ops' \in 0..MaxOps
  BY DEF PollBrowser, Inv, GamesInv, GamesTypeOK
<1>2. /\ helper' \in {"none", "open", "ending"}
      /\ events' \in Seq(Accounts \union {"error", "closed"})
  <2>1. events \in Seq(Accounts \union {"error", "closed"}) /\ helper \in {"none", "open", "ending"}
    BY <1>1 DEF AccountsOK
  <2> QED BY <1>1, <2>1, EmptySeq, HeadTailProperties
<1>3. CASE Head(events) \in Accounts /\ CompleteSignIn(Head(events))
  BY <1>1, <1>2, <1>3, Completes
<1>4. CASE UNCHANGED <<signIn, out, worker>>
  <2>1. AccountsOK'
    BY <1>1, <1>2, <1>4 DEF AccountsOK, slots, window, signIn, fetches
  <2> QED BY <1>1, <1>4, <2>1, Alone DEF Inv
<1>5. CASE /\ signingIn' \in BOOLEAN /\ manual' \in BOOLEAN /\ UNCHANGED <<verifying, auth, wanted, out, worker>>
  <2>1. AccountsOK'
    BY <1>1, <1>2, <1>5 DEF AccountsOK, slots, window, fetches
  <2> QED BY <1>1, <1>5, <2>1, Alone DEF Inv
<1>6. CASE /\ signingIn' = FALSE /\ auth' = FALSE /\ Queue(results, Epochs, <<>>)
           /\ UNCHANGED <<verifying, manual, wanted, out>>
  <2>1. AccountsOK'
    BY <1>1, <1>2, <1>6 DEF AccountsOK, slots, window, fetches
  <2>2. GamesInv'
    BY <1>1, <1>6, NothingMore, EpochsOnly, Asks
  <2> QED BY <1>1, <2>1, <2>2 DEF Inv
<1> QED
  <2>1. CASE Head(events) = "error"
    <3>1. signingIn \in BOOLEAN /\ manual \in BOOLEAN
      BY <1>1 DEF AccountsOK
    <3>2. "error" \notin Accounts
      BY WorkerAssumption DEF Words
    <3> QED BY <2>1, <3>1, <3>2, <1>5 DEF PollBrowser
  <2>2. CASE Head(events) = "closed"
    <3>1. "closed" \notin Accounts
      BY WorkerAssumption DEF Words
    <3> QED BY <2>2, <3>1, <1>4, <1>6 DEF PollBrowser, signIn
  <2>3. CASE Head(events) \in Accounts /\ Head(events) # "error" /\ Head(events) # "closed"
    BY <2>3, <1>3, <1>4 DEF PollBrowser
  <2> QED BY <2>1, <2>2, <2>3 DEF PollBrowser

LEMMA FirstTask ==
  ASSUME Inv, results # <<>>
  PROVE  /\ Head(results) \in Result /\ Head(results).task \in Task
         /\ Head(results).task.by \in Accounts \union {None}
         /\ AccountsOK /\ GamesInv
BY FirstResult DEF Inv, GamesInv, Task

\* Only the caller's flag and what a completion changes besides the vault.
LEMMA QuietlyDone ==
  ASSUME Inv, results # <<>>, Head(results).task.kind \notin {"scan", "steam"},
         UNCHANGED ops, UNCHANGED games, Queue(Tail(results), {}, <<>>), AccountsOK'
  PROVE  Inv' /\ UNCHANGED Installed
<1>1. GamesInv'
  BY NothingMore, Absorbs DEF Inv
<1> QED BY <1>1 DEF Inv, games, locks, away, Installed

LEMMA Saved ==
  ASSUME Inv, results # <<>>, Head(results).task.kind \notin {"scan", "steam"},
         UNCHANGED ops, AccountsOK', NEW more \in Seq(Task), Others(more),
         SaveLibrary(Tail(results), more)
  PROVE  Inv' /\ UNCHANGED Installed
BY Saves DEF Inv

LEMMA RefreshesDone ==
  ASSUME Inv, results # <<>>, UNCHANGED ops, RefreshDone(Head(results))
  PROVE  Inv' /\ UNCHANGED Installed
<1> DEFINE r == Head(results)
<1>1. /\ AccountsOK /\ r.task.by \in Accounts \union {None}
      /\ r.task.kind = "refresh" /\ UNCHANGED <<adding, browser, signIn, out>>
      /\ refreshing' = (refreshing /\ ~Current(r.task))
  BY FirstTask DEF RefreshDone
<1>2. refreshing' \in BOOLEAN
  BY <1>1
<1>3. CASE Ignored
  <2>1. AccountsOK'
    BY <1>1, <1>2, <1>3 DEF Ignored, AccountsOK, slots, window, browser, signIn
  <2> QED BY <1>1, <1>3, <2>1, QuietlyDone DEF Ignored
<1>4. CASE ~(~Current(r.task) \/ Unusable(r))
  <2>1. scope' = (IF r.full THEN r.task.by ELSE scope) /\ UNCHANGED session
    BY <1>4 DEF RefreshDone
  <2>2. scope' \in Accounts \union {None}
    BY <1>1, <2>1 DEF AccountsOK
  <2>3. ASSUME IF session = None
               THEN UNCHANGED <<slots, view, key, dl>>
               ELSE /\ Upsert(scope', session) /\ Reload
                    /\ key' = IF key = None THEN active' ELSE key
                    /\ dl' = key',
               libraryPending' = libraryPending \union Stale,
               NEW order \in Orders(Stale), SaveLibrary(Tail(results), AccountTasks(order))
        PROVE  Inv' /\ UNCHANGED Installed
    <3>1. /\ vault' \in [Accounts -> Accounts \union {"out", "absent"}]
          /\ {active', key', dl'} \subseteq Accounts \union {None} /\ view' \subseteq Accounts
      <4>1. CASE session = None
        BY <1>1, <2>3, <4>1 DEF AccountsOK, slots
      <4>2. CASE session # None
        <5>1. session \in Accounts
          BY <1>1, <4>2 DEF AccountsOK
        <5>2. vault' = [vault EXCEPT ![scope'] = session] /\ active' = scope'
          BY <2>3, <4>2 DEF Upsert
        <5>3. vault' \in [Accounts -> Accounts \union {"out", "absent"}]
          BY <1>1, <5>1, <5>2 DEF AccountsOK
        <5> QED BY <1>1, <2>2, <2>3, <4>2, <5>2, <5>3 DEF AccountsOK, Reload, In
      <4> QED BY <4>1, <4>2
    <3>2. Stale \subseteq Accounts
      BY <3>1 DEF Stale
    <3>3. AccountsOK'
      BY <1>1, <1>2, <2>1, <2>2, <2>3, <3>1, <3>2 DEF AccountsOK, browser, signIn
    <3> QED BY <1>1, <2>3, <3>2, <3>3, TasksOfAccounts, Saved
  <2>4. ASSUME UNCHANGED <<slots, view, key, dl, libraryPending, games>>,
               Queue(Tail(results), {}, <<>>)
        PROVE  Inv' /\ UNCHANGED Installed
    <3>1. AccountsOK'
      BY <1>1, <1>2, <2>1, <2>2, <2>4 DEF AccountsOK, slots, browser, signIn
    <3> QED BY <1>1, <2>4, <3>1, QuietlyDone
  <2> QED BY <1>4, <2>3, <2>4 DEF RefreshDone
<1> QED BY <1>3, <1>4 DEF RefreshDone

\* A profile is saved with the session its slot holds.
LEMMA SavesAsHeld ==
  ASSUME AccountsOK, NEW a
  PROVE  ProfileSaved(a) = vault
<1>1. a \in In(vault) => a \in Accounts
  BY DEF In
<1> QED BY <1>1 DEF ProfileSaved, AccountsOK

LEMMA AccountsDone ==
  ASSUME Inv, results # <<>>, UNCHANGED ops,
         AccountDone(Head(results)) \/ AddDone(Head(results))
  PROVE  Inv' /\ UNCHANGED Installed
<1> DEFINE r == Head(results)
<1>1. AccountsOK
  BY DEF Inv
<1>2. CASE AccountDone(r)
  <2>1. /\ r.task.kind = "account" /\ libraryPending' \subseteq Accounts
        /\ UNCHANGED <<active, window, browser, signIn, refreshing, adding, out>>
    BY <1>1, <1>2 DEF AccountDone, AccountsOK
  <2>2. CASE vault' = ProfileSaved(r.task.by) /\ Reload /\ SaveLibrary(Tail(results), <<>>)
    <3>1. vault' = vault
      BY <1>1, <2>2, SavesAsHeld
    <3>2. AccountsOK'
      BY <1>1, <2>1, <2>2, <3>1 DEF AccountsOK, window, browser, signIn, Reload, In
    <3> QED BY <2>1, <2>2, <3>2, NothingMore, Saved
  <2>3. CASE UNCHANGED <<vault, view, games>> /\ Queue(Tail(results), {}, <<>>)
    <3>1. AccountsOK'
      BY <1>1, <2>1, <2>3 DEF AccountsOK, window, browser, signIn
    <3> QED BY <2>1, <2>3, <3>1, QuietlyDone
  <2> QED BY <1>2, <2>2, <2>3 DEF AccountDone
<1>3. CASE AddDone(r)
  <2>1. /\ r.task.kind = "add" /\ adding' = (adding /\ ~Current(r.task))
        /\ UNCHANGED <<refreshing, browser, signIn, out>>
    BY <1>3 DEF AddDone
  <2>2. adding' \in BOOLEAN
    BY <2>1
  <2>3. CASE Ignored
    <3>1. AccountsOK'
      BY <1>1, <2>1, <2>2, <2>3 DEF Ignored, AccountsOK, slots, window, browser, signIn
    <3> QED BY <2>1, <2>3, <3>1, QuietlyDone DEF Ignored
  <2>4. CASE UNCHANGED <<slots, view, window, libraryPending>> /\ SaveLibrary(Tail(results), <<>>)
    <3>1. AccountsOK'
      BY <1>1, <2>1, <2>2, <2>4 DEF AccountsOK, slots, window, browser, signIn
    <3> QED BY <2>1, <2>4, <3>1, NothingMore, Saved
  <2> QED BY <1>3, <2>3, <2>4 DEF AddDone
<1> QED BY <1>2, <1>3

LEMMA SignInsDone ==
  ASSUME Inv, results # <<>>, UNCHANGED ops,
         BeginDone(Head(results)) \/ CompleteDone(Head(results))
  PROVE  Inv' /\ UNCHANGED Installed
<1> DEFINE r == Head(results)
<1>1. AccountsOK /\ r.task.by \in Accounts \union {None}
  BY FirstTask
<1>2. CASE BeginDone(r)
  <2>1. /\ r.task.kind = "begin" /\ Queue(Tail(results), {}, <<>>)
        /\ UNCHANGED <<slots, view, window, fetches, verifying, wanted, out, games>>
    BY <1>2 DEF BeginDone
  <2>2. /\ {signingIn', auth', manual'} \subseteq BOOLEAN
        /\ helper' \in {"none", "open", "ending"}
        /\ events' \in Seq(Accounts \union {"error", "closed"})
    <3>1. UNCHANGED browser \/ (helper' \in {"open", "none"} /\ events' = <<>>)
      BY <1>2 DEF BeginDone
    <3>2. events' \in Seq(Accounts \union {"error", "closed"})
      <4>1. CASE UNCHANGED browser
        BY <1>1, <4>1 DEF AccountsOK, browser
      <4>2. CASE events' = <<>>
        BY <4>2
      <4> QED BY <3>1, <4>1, <4>2
    <3>3. {signingIn', auth', manual'} \subseteq BOOLEAN
      BY <1>1, <1>2 DEF BeginDone, AccountsOK
    <3> QED BY <1>1, <3>1, <3>2, <3>3 DEF AccountsOK, browser
  <2>3. AccountsOK'
    BY <1>1, <2>1, <2>2 DEF AccountsOK, slots, window, fetches
  <2> QED BY <2>1, <2>3, QuietlyDone
<1>3. CASE CompleteDone(r)
  <2>1. r.task.kind = "complete" /\ UNCHANGED <<browser, manual, fetches, out>>
    BY <1>3 DEF CompleteDone
  <2>2. CASE ~Current(r.task)
    <3>1. UNCHANGED <<slots, view, window, signIn, games>> /\ Queue(Tail(results), {}, <<>>)
      BY <1>3, <2>2 DEF CompleteDone
    <3>2. AccountsOK'
      BY <1>1, <2>1, <3>1 DEF AccountsOK, slots, window, signIn, browser, fetches
    <3> QED BY <2>1, <3>1, <3>2, QuietlyDone
  <2>3. CASE Current(r.task)
    <3> DEFINE a == r.task.by
    <3>1. signingIn' = FALSE /\ verifying' = FALSE /\ auth' = FALSE /\ wanted' = None
      BY <1>3, <2>3 DEF CompleteDone
    <3>2. CASE /\ Upsert(a, a) /\ Reload
               /\ session' = a /\ key' = a /\ scope' = a /\ dl' = a
               /\ SaveLibrary(Tail(results), <<>>)
      <4>1. vault' = [vault EXCEPT ![a] = a] /\ active' = a
        BY <3>2 DEF Upsert
      <4>2. vault' \in [Accounts -> Accounts \union {"out", "absent"}]
        BY <1>1, <4>1 DEF AccountsOK
      <4>3. AccountsOK'
        BY <1>1, <2>1, <3>1, <3>2, <4>1, <4>2 DEF AccountsOK, browser, fetches, Reload, In
      <4> QED BY <2>1, <3>2, <4>3, NothingMore, Saved
    <3>3. CASE UNCHANGED <<slots, view, window, games>> /\ Queue(Tail(results), {}, <<>>)
      <4>1. AccountsOK'
        BY <1>1, <2>1, <3>1, <3>3 DEF AccountsOK, slots, window, browser, fetches
      <4> QED BY <2>1, <3>3, <4>1, QuietlyDone
    <3> QED BY <1>3, <2>3, <3>2, <3>3 DEF CompleteDone
  <2> QED BY <2>2, <2>3
<1> QED BY <1>2, <1>3

LEMMA Fetched ==
  ASSUME Inv, RunFetch
  PROVE  Inv' /\ UNCHANGED Installed
<1>1. /\ tasks # <<>> /\ Head(tasks).kind \notin {"scan", "steam"}
      /\ UNCHANGED <<accountVars, games, ops>> /\ AccountsOK /\ GamesInv
      /\ GamesTypeOK /\ WorkerTypeOK
  BY DEF RunFetch, Inv, GamesInv
<1>2. Head(tasks) \in Task
  BY <1>1, HeadTailProperties, EmptySeq DEF WorkerTypeOK
<1>3. PICK ok \in BOOLEAN, full \in BOOLEAN : Finished(Answer(Head(tasks), ok, full, {}))
  BY DEF RunFetch
<1> DEFINE r == Answer(Head(tasks), ok, full, {})
<1>4. r \in Result /\ r.task = Head(tasks) /\ Finished(r)
  BY <1>2, <1>3 DEF Answer, Result
<1> HIDE DEF r
<1>5. /\ GamesTypeOK' /\ UNCHANGED Installed /\ UNCHANGED <<scans, prefs, sync>>
      /\ UNCHANGED shortcuts
  <2>1. ops' \in 0..MaxOps
    BY <1>1 DEF GamesTypeOK
  <2> QED BY <1>1, <2>1, GamesStill DEF games
<1>6. GamesInv'
  BY <1>1, <1>4, <1>5, Finishes
<1>7. AccountsOK'
  BY <1>1 DEF AccountsOK, accountVars, slots, window, browser, signIn, fetches
<1> QED BY <1>5, <1>6, <1>7 DEF Inv

-----------------------------------------------------------------------------
(* The theorems.                                                           *)

LEMMA Initially ==
  ASSUME Init
  PROVE  Inv
<1>1. AccountsOK
  <2>1. /\ view = In(vault) /\ signingIn = FALSE /\ verifying = FALSE /\ auth = FALSE
        /\ manual = FALSE /\ adding = FALSE /\ helper = "none" /\ events = <<>>
        /\ libraryPending = {} /\ wanted = None /\ out = {}
    BY DEF Init
  <2>2. PICK a \in Accounts \union {None}, k \in Accounts \union {None} :
          Start(a, k) /\ active \in Accounts \union {None} /\ scope \in {a, k, None}
    BY DEF Init
  <2>3. vault \in [Accounts -> Accounts \union {"out", "absent"}]
    BY DEF Init
  <2>4. {active, session, key, scope, dl, wanted} \subseteq Accounts \union {None}
    BY <2>1, <2>2 DEF Start
  <2>5. refreshing \in BOOLEAN
    BY <2>2 DEF Start
  <2>6. events \in Seq(Accounts \union {"error", "closed"})
    BY <2>1
  <2>7. view \subseteq Accounts /\ out \subseteq Accounts /\ libraryPending \subseteq Accounts
    BY <2>1 DEF In
  <2> QED BY <2>1, <2>3, <2>4, <2>5, <2>6, <2>7 DEF AccountsOK
<1>2. GamesTypeOK
  <2>1. GamesInit
    BY DEF Init
  <2>2. /\ lock \in [Games -> {None, "window", "other"}]
        /\ runs \in [Games -> {"no", "alive", "exited"}]
        /\ others \in [Games -> {"no", "alive", "exited"}]
        /\ \A g \in Games : /\ lock[g] = "window" <=> runs[g] # "no"
                            /\ lock[g] = "other" <=> others[g] # "no"
    BY <2>1, WorkerAssumption DEF GamesInit, Words
  <2>3. ops \in 0..MaxOps
    BY <2>1, GamesAssumption DEF GamesInit
  <2> QED BY <2>1, <2>2, <2>3 DEF GamesInit, GamesTypeOK
<1>3. PICK a \in Accounts \union {None} :
        tasks = <<Make("scan", None, {})>>
                \o (IF a = None THEN <<>> ELSE <<Make("refresh", a, {})>>)
  BY DEF Init, Start
<1> DEFINE first == <<Make("scan", None, {})>>
           rest == IF a = None THEN <<>> ELSE <<Make("refresh", a, {})>>
<1>4. /\ first \in Seq(Task) /\ Len(first) = 1 /\ first[1].kind = "scan"
  <2>1. Make("scan", None, {}) \in Task /\ Make("scan", None, {}).kind = "scan"
    BY DEF Make, Task, TaskKinds
  <2> QED BY <2>1
<1>5. rest \in Seq(Task) /\ Others(rest)
  BY NothingMore, OneTask
<1>6. tasks = first \o rest
  BY <1>3
<1> HIDE DEF first, rest
<1>7. /\ tasks \in Seq(Task) /\ Len(tasks) = 1 + Len(rest) /\ Len(rest) \in Nat
      /\ \A i \in 1..1 + Len(rest) : tasks[i] = IF i <= 1 THEN first[i] ELSE rest[i - 1]
  <2>1. Len(rest) \in Nat
    BY <1>5, LenProperties
  <2>2. /\ tasks \in Seq(Task) /\ Len(tasks) = 1 + Len(rest)
        /\ \A i \in 1..1 + Len(rest) : tasks[i] = IF i <= 1 THEN first[i] ELSE rest[i - 1]
    BY <1>4, <1>5, <1>6, OneBefore
  <2> QED BY <2>1, <2>2
<1>8. results = <<>> /\ Len(results) = 0 /\ WorkerTypeOK
  BY <1>7 DEF Init, WorkerTypeOK
<1>9. N = 1 + Len(rest) /\ \A i \in 1..N : Submitted[i] = tasks[i]
  <2>1. N = Len(results) + Len(tasks) /\ \A i \in Len(results) + 1..N : Submitted[i] = tasks[i - Len(results)]
    BY <1>8, SubmittedAt
  <2> QED BY <1>7, <1>8, <2>1
<1>10. 1 \in 1..N /\ Scan(1) /\ \A i \in 1..N : ~Steam(i) /\ (Scan(i) => i = 1)
  <2>1. 1 \in 1..N /\ Scan(1) /\ ~Steam(1)
    BY <1>4, <1>7, <1>9 DEF Scan, Steam
  <2>2. ASSUME NEW i \in 1..N, i # 1 PROVE ~Scan(i) /\ ~Steam(i)
    <3>1. i - 1 \in 1..Len(rest) /\ ~(i <= 1)
      BY <1>7, <1>9, <2>2
    <3>2. Submitted[i] = rest[i - 1]
      BY <1>7, <1>9, <3>1
    <3> QED BY <1>5, <3>1, <3>2 DEF Others, Scan, Steam
  <2> QED BY <2>1, <2>2
<1>11. scanning /\ ~reliable /\ ~busy
  BY DEF Init, GamesInit
<1>12. GamesInv
  BY <1>2, <1>8, <1>10, <1>11 DEF GamesInv, SteamIsCurrent
<1> QED BY <1>1, <1>12 DEF Inv

LEMMA AccountsKept ==
  ASSUME Inv, UNCHANGED accountVars, GamesInv'
  PROVE  Inv'
BY DEF Inv, AccountsOK, accountVars, slots, window, browser, signIn, fetches

\* What a step may do to the games on disk and to Steam's entries.
Careful ==
  /\ shortcuts' # shortcuts => RunSteam
  /\ \A g \in Games : g \in disk /\ g \notin disk' => Uninstall(g) \/ OtherUninstall(g)

LEMMA StillInstalled ==
  ASSUME UNCHANGED games \/ UNCHANGED Installed
  PROVE  Careful
BY DEF Careful, games, Installed

LEMMA GamesStep ==
  ASSUME Inv, GameActs \/ OutsideActs \/ Poll \/ PollSteam
  PROVE  GamesInv' /\ Careful
<1>1. GamesInv'
  BY ActsOnGames, Polls DEF Inv
<1>2. shortcuts' = shortcuts
  BY DEF GameActs, OutsideActs, Launch, GameExits, Uninstall, Download, OtherLaunch,
         OtherEnds, OtherExit, OrphanEnds, Outside, OtherUninstall, SetInSteam, ApplySettings,
         SteamChanges, RestartSteam, Quit, Poll, PollSteam, Sync, Rescan
<1>3. ASSUME NEW g \in Games, g \in disk, g \notin disk'
      PROVE  Uninstall(g) \/ OtherUninstall(g)
  BY <1>3 DEF GameActs, OutsideActs, Launch, GameExits, Uninstall, Download, OtherLaunch,
         OtherEnds, OtherExit, OrphanEnds, Outside, OtherUninstall, SetInSteam, ApplySettings,
         SteamChanges, RestartSteam, Quit, Poll, PollSteam
<1> QED BY <1>1, <1>2, <1>3 DEF Careful

LEMMA Steps ==
  ASSUME Inv, [Next]_vars
  PROVE  Inv' /\ Careful
<1>1. CASE Run
  <2>1. CASE RunFetch
    BY <2>1, Fetched, StillInstalled
  <2>2. CASE (RunScan \/ RunSteam) /\ UNCHANGED accountVars
    <3>1. Inv'
      BY <2>2, Runs, AccountsKept DEF Inv
    <3>2. UNCHANGED disk /\ (RunScan => UNCHANGED shortcuts)
      BY <2>2 DEF RunScan, RunSteam, games
    <3> QED BY <2>2, <3>1, <3>2 DEF Careful
  <2> QED BY <1>1, <2>1, <2>2 DEF Run
<1>2. CASE Apply
  <2>1. results # <<>> /\ UNCHANGED ops
    BY <1>2 DEF Apply
  <2>2. CASE (ScanDone(Head(results)) \/ SteamDone(Head(results))) /\ UNCHANGED accountVars
    <3>1. Inv'
      BY <2>1, <2>2, GamesDone, AccountsKept DEF Inv
    <3>2. UNCHANGED <<disk, shortcuts>>
      BY <2>2 DEF ScanDone, SteamDone, Sync
    <3> QED BY <3>1, <3>2 DEF Careful
  <2>3. CASE RefreshDone(Head(results))
    BY <2>1, <2>3, RefreshesDone, StillInstalled DEF Installed
  <2>4. CASE AccountDone(Head(results)) \/ AddDone(Head(results))
    BY <2>1, <2>4, AccountsDone, StillInstalled
  <2>5. CASE BeginDone(Head(results)) \/ CompleteDone(Head(results))
    BY <2>1, <2>5, SignInsDone, StillInstalled
  <2> QED BY <1>2, <2>2, <2>3, <2>4, <2>5 DEF Apply
<1>3. CASE Tick
  <2>1. CASE PollBrowser
    BY <2>1, PollsBrowser, StillInstalled
  <2>2. CASE (Poll \/ PollSteam) /\ UNCHANGED accountVars
    BY <2>2, GamesStep, AccountsKept
  <2> QED BY <1>3, <2>1, <2>2 DEF Tick
<1>4. CASE UserActs
  <2>1. ASSUME NEW a \in Accounts,
               SwitchAccount(a) \/ SignOut(a) \/ RemoveAccount(a) \/ PasteSignIn(a)
        PROVE  Inv' /\ Careful
    BY <2>1, Switches, SignsOut, Pastes, StillInstalled
  <2>2. CASE Refresh \/ AddOwned \/ SignIn \/ CancelSignIn
    BY <2>2, Refreshes, StillInstalled
  <2>3. CASE GameActs /\ UNCHANGED accountVars
    BY <2>3, GamesStep, AccountsKept
  <2> QED BY <1>4, <2>1, <2>2, <2>3 DEF UserActs
<1>5. CASE WindowActs
  BY <1>5, Windows, StillInstalled
<1>6. CASE UNCHANGED vars
  <2>1. UNCHANGED <<games, worker, accountVars, ops>>
    BY <1>6 DEF vars
  <2>2. GamesInv'
    BY <2>1, Alone DEF Inv, GamesInv, GamesTypeOK
  <2> QED BY <2>1, <2>2, AccountsKept, StillInstalled
<1>7. CASE OutsideActs /\ UNCHANGED accountVars
  BY <1>7, GamesStep, AccountsKept
<1>8. ASSUME NEW a \in Accounts, Elsewhere(a)
      PROVE  Inv' /\ Careful
  BY <1>8, ChangesElsewhere, StillInstalled
<1> QED BY <1>1, <1>2, <1>3, <1>4, <1>5, <1>6, <1>7, <1>8 DEF Next

LEMMA Always ==
  Spec => []Inv
<1>1. Init => Inv
  BY Initially
<1>2. Inv /\ [Next]_vars => Inv'
  BY Steps
<1> QED BY <1>1, <1>2, PTL DEF Spec

\* Every variable of the launcher keeps to its type, whatever comes when.
THEOREM LauncherTyped == Spec => []LauncherTypeOK
<1>1. Inv => LauncherTypeOK
  BY DEF Inv, GamesInv, AccountsOK, LauncherTypeOK
<1> QED BY <1>1, Always, PTL

\* However scans, settings, Steam and syncs interleave, no change of what
\* Steam should list is lost by a sync that was under way.
THEOREM SteamCurrent == Spec => []SteamIsCurrent
<1>1. Inv => SteamIsCurrent
  BY DEF Inv, GamesInv
<1> QED BY <1>1, Always, PTL

\* No process uninstalls a running game whose launcher is there: it holds the
\* lock from before the start until it has noticed the end.
THEOREM StaysInstalled == Spec => RunningStaysInstalled
<1>1. Inv /\ [Next]_vars =>
        [\A g \in (Watched \union orphans) \intersect disk :
           g \notin disk' => g \in orphans \ Watched]_<<disk, runs, others, orphans>>
  <2> SUFFICES ASSUME Inv, [Next]_vars, NEW g \in (Watched \union orphans) \intersect disk,
                      g \notin disk'
               PROVE  g \in orphans \ Watched
    OBVIOUS
  <2>1. g \in Games /\ GamesTypeOK
    BY DEF Inv, GamesInv, GamesTypeOK
  <2>2. Uninstall(g) \/ OtherUninstall(g)
    BY <2>1, Steps DEF Careful
  <2>3. lock[g] = None
    BY <2>2 DEF Uninstall, OtherUninstall, Free
  <2>4. runs[g] = "no" /\ others[g] = "no"
    BY <2>1, <2>3, Unlocked
  <2> QED BY <2>4 DEF Watched
<1> QED BY <1>1, Always, PTL DEF Spec, RunningStaysInstalled

\* A sync takes a game out of Steam only if the user ever left it out or an
\* authoritative scan did not find it.
THEOREM SureRemovals == Spec => RemovalsAreSure
<1>1. Inv /\ [Next]_vars =>
        [\A g \in shortcuts \ shortcuts' : g \in leftOut \/ (sure /\ g \notin installs)]_shortcuts
  <2> SUFFICES ASSUME Inv, [Next]_vars, shortcuts' # shortcuts, NEW g \in shortcuts \ shortcuts'
               PROVE  g \in leftOut \/ (sure /\ g \notin installs)
    OBVIOUS
  <2>1. RunSteam
    BY Steps DEF Careful
  <2>2. tasks # <<>> /\ Head(tasks).kind = "steam" /\ shortcuts' = Head(tasks).games
    BY <2>1 DEF RunSteam
  <2>3. /\ Submitted[Len(results) + 1] = Head(tasks) /\ Len(results) + 1 \in 1..N
        /\ Len(results) \in Nat /\ shortcuts \subseteq Games
    <3>1. /\ N = Len(results) + Len(tasks) /\ Len(results) \in Nat
          /\ \A i \in Len(results) + 1..N : Submitted[i] = tasks[i - Len(results)]
      BY SubmittedAt DEF Inv, GamesInv
    <3>2. Len(tasks) \in Nat /\ Len(tasks) >= 1 /\ Head(tasks) = tasks[1]
      BY <2>2, EmptySeq, HeadTailProperties, LenProperties DEF Inv, GamesInv, WorkerTypeOK
    <3>3. Len(results) + 1 \in Len(results) + 1..N /\ Len(results) + 1 - Len(results) = 1
      BY <3>1, <3>2
    <3> QED BY <3>1, <3>2, <3>3 DEF Inv, GamesInv, GamesTypeOK
  <2>4. Unfinished(Len(results) + 1)
    BY <2>2, <2>3 DEF Inv, GamesInv, Steam
  <2> QED BY <2>2, <2>3, <2>4 DEF Unfinished
<1> QED BY <1>1, Always, PTL DEF Spec, RemovalsAreSure
=============================================================================
