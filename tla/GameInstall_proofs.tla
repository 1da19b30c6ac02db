------------------------- MODULE GameInstall_proofs -------------------------
(***************************************************************************)
(* Theorems about GameInstall: what the folders of games hold, for every   *)
(* set of workers, files, builds and requests, and every bound.            *)
(*                                                                         *)
(* The invariant that carries them is about two threads in one folder.  As *)
(* long as none have met there (crossed), one worker at most is inside,    *)
(* and then nobody discards; what a worker has not left to assemble is     *)
(* right; the manifest is there before the record; and what is being       *)
(* discarded has no manifest.  Of the .part files it says that one which   *)
(* no two workers had at a time is right when its stream is closed.        *)
(***************************************************************************)
EXTENDS GameInstall, DownloadQueueList_proofs

\* A thread that discards files holds the entry it looked at.
Discards(t) == IF t = UI THEN ui # None ELSE pc[t] = "discard"

\* A worker's plan is of a build its folder is offered.
Plans ==
  /\ build \in [Workers -> Versions \union {None}]
  /\ \A a \in Apps : newest[a] \in BuildsOf[a]
  /\ \A w \in Workers : step[w] # "idle" => build[w] \in Offered(Dir(w))
  /\ \A t \in Threads : look[t] # "no" => Discards(t)

\* As long as threads have not met in a folder, one worker at most is inside,
\* and no discard goes on next to it.
Alone ==
  \A d \in Folders : ~crossed[d] =>
    /\ \A w, v \in Inside(d) : w = v
    /\ Inside(d) = {} \/ Erasers(d) = {}

\* What is being discarded had no manifest when it was looked at, and gets none.
ErasedIsUnfinished ==
  \A d \in Folders : ~crossed[d] /\ Erasers(d) # {} => manifest[d] = None

\* Every file not left to assemble is right.
RestIsRight ==
  \A d \in Folders : \A w \in Inside(d) :
    step[w] \in {"fetch", "assemble", "write", "place"} /\ ~crossed[d] =>
      \A f \in Files \ todo[w] : disk[d][f] = Content[build[w]][f]

\* The manifest is there before the record is written.
ManifestFirst ==
  \A d \in Folders : \A w \in Inside(d) :
    step[w] \in {"unmark", "record"} /\ ~crossed[d] => manifest[d] # None

Typing == InstallTypeOK /\ Plans
Disk == /\ Alone /\ ErasedIsUnfinished /\ RestIsRight /\ ManifestFirst
        /\ InstalledIsComplete /\ RecordedIsInstalled

\* A worker assembles its file alone: its stream is open on the .part file, or a
\* discard took that file and nobody made another; and once the stream is closed
\* the .part file is the file of the build, or gone.
Own(d, w) ==
  /\ \A v \in Inside(d) : file[v] = file[w] => v = w
  /\ step[w] = "write" => stream[w] = "alone" \/ (stream[w] = "lost" /\ part[d][file[w]] = None)
  /\ step[w] = "place" => part[d][file[w]] \in {None, Content[build[w]][file[w]]}

SharedOrOwn ==
  \A d \in Folders : \A w \in Inside(d) : file[w] # None => file[w] \in shared[d] \/ Own(d, w)

\* Workers that have one file at one time met in its folder.
SharedIsCrossed == \A d \in Folders : shared[d] # {} => crossed[d]

Parts == SharedOrOwn /\ SharedIsCrossed /\ OnlyOfferedFiles

-----------------------------------------------------------------------------
(* What the queue's steps leave to the threads at work in folders.         *)

Busy == {"install", "folder", "discard"}

\* The worker is where it was, with the entry it had, in the same folder.
Untouched(w) ==
  /\ pc'[w] = pc[w] /\ mine'[w] = mine[w]
  /\ FolderOf(job'[mine[w]]) = FolderOf(job[mine[w]])

\* A job somebody holds keeps its app and its version.
LEMMA FolderStays ==
  ASSUME TypeOK, NEW e \in Held \ {None},
         UserStep \/ RemoveDiscards \/ \E w \in Workers : WorkerStep(w)
  PROVE  FolderOf(job'[e]) = FolderOf(job[e])
<1>1. e \in Entries /\ job[e] \in Job /\ job \in [Entries -> Job \union {None}]
  BY DEF TypeOK, Types, ListSound, Held
<1>2. CASE job' = job
  BY <1>2
<1>3. ASSUME NEW r \in Requests, EnqueueNew(r) PROVE FolderOf(job'[e]) = FolderOf(job[e])
  <2>1. PICK x \in Entries \ (Listed \union Held) : job' = [job EXCEPT ![x] = r]
    BY <1>3 DEF EnqueueNew
  <2> QED
    BY <1>1, <2>1
<1>4. ASSUME NEW a \in Accounts, AdoptLegacy(a) PROVE FolderOf(job'[e]) = FolderOf(job[e])
  BY <1>1, <1>4 DEF AdoptLegacy, FolderOf, Job
<1>5. ASSUME NEW w \in Workers, Plan(w) PROVE FolderOf(job'[e]) = FolderOf(job[e])
  BY <1>1, <1>5 DEF Plan, FolderOf, Job
<1>6. ASSUME UserStep PROVE FolderOf(job'[e]) = FolderOf(job[e])
  BY <1>2, <1>3, <1>4, <1>6
     DEF UserStep, EnqueueAgain, Cancel, CancelAccount, SetAccount, CancelAll, Remove, Move, SetParallel,
         Close, Halt, listVars
<1>7. ASSUME NEW w \in Workers, WorkerStep(w) PROVE FolderOf(job'[e]) = FolderOf(job[e])
  BY <1>2, <1>5, <1>7
     DEF WorkerStep, Take, Wait, OpenFolder, Fetch, Finish, Notify, Release, Discard, Exit, listVars
<1>8. ASSUME RemoveDiscards PROVE FolderOf(job'[e]) = FolderOf(job[e])
  BY <1>2, <1>8 DEF RemoveDiscards, listVars
<1> QED
  BY <1>6, <1>7, <1>8

\* The user's calls do not touch the workers in folders.
LEMMA UserTouches ==
  ASSUME TypeOK, UserStep \/ RemoveDiscards, NEW w \in Workers, pc[w] \in Busy
  PROVE  Untouched(w)
<1>1. mine[w] \in Held \ {None}
  BY DEF TypeOK, WorkersHold, Busy, Held
<1>2. mine' = mine
  BY DEF UserStep, RemoveDiscards, EnqueueAgain, EnqueueNew, Cancel, CancelAccount, AdoptLegacy, SetAccount,
         CancelAll, Remove, Move, SetParallel, Close, Halt, workerVars
<1>3. pc' = pc \/ pc' = Woken
  BY DEF UserStep, RemoveDiscards, EnqueueAgain, EnqueueNew, Cancel, CancelAccount, AdoptLegacy, SetAccount,
         CancelAll, Remove, Move, SetParallel, Close, Halt, workerVars
<1>4. pc'[w] = pc[w]
  BY <1>3 DEF Woken, Busy
<1> QED
  BY <1>1, <1>2, <1>4, FolderStays DEF Untouched

\* Nor does a worker touch another one, or what the user's thread discards.
LEMMA WorkerTouches ==
  ASSUME TypeOK, NEW w \in Workers, WorkerStep(w)
  PROVE  /\ \A v \in Workers \ {w} : pc[v] \in Busy => Untouched(v)
         /\ ui' = ui /\ (ui # None => FolderOf(job'[ui]) = FolderOf(job[ui]))
<1>1. \A v \in Workers \ {w} : mine'[v] = mine[v]
  BY DEF TypeOK, Types, WorkerStep, Take, Wait, Plan, OpenFolder, Fetch, Finish, Notify, Release, Discard, Exit,
         listVars, workerVars
<1>2. \A v \in Workers \ {w} : pc[v] \in Busy => pc'[v] = pc[v]
  BY DEF TypeOK, Types, WorkerStep, Take, Wait, Plan, OpenFolder, Fetch, Finish, Notify, Release, Discard, Exit,
         listVars, workerVars, Woken, Busy
<1>3. \A v \in Workers : pc[v] \in Busy => mine[v] \in Held \ {None}
  BY DEF TypeOK, WorkersHold, Busy, Held
<1>4. ui' = ui /\ (ui # None => ui \in Held)
  BY DEF WorkerStep, Take, Wait, Plan, OpenFolder, Fetch, Finish, Notify, Release, Discard, Exit, Held
<1> QED
  BY <1>1, <1>2, <1>3, <1>4, FolderStays DEF Untouched

-----------------------------------------------------------------------------
(* The queue's own invariants, along the steps of GameInstall.             *)

\* Another build is published, or a segment rots: the queue does not see it.
Unseen ==
  /\ UNCHANGED <<listVars, active, parallel, workerVars, ui, fileVars, process, signedOut>>
  /\ ops' = ops + 1

LEMMA QueueSteps ==
  ASSUME [InstallNext]_allVars
  PROVE  [Next]_vars \/ Unseen
<1>1. CASE QueueOnly
  BY <1>1 DEF QueueOnly, Next, WorkerStep
<1>2. ASSUME NEW w \in Workers, InstallStep(w) PROVE [Next]_vars
  <2>1. CASE GetPlan(w) \/ Open(w) \/ Scan(w) \/ WorkerLeaves(w)
    BY <2>1 DEF GetPlan, Open, Scan, WorkerLeaves, Next, WorkerStep
  <2>2. CASE \E s \in {"paused", "failed"} : Reject(w, s)
    BY <2>2 DEF Reject, Next, WorkerStep
  <2>3. CASE \E s \in {"complete", "paused", "failed"} : End(w, s)
    BY <2>3 DEF End, Next, WorkerStep
  <2>4. CASE \/ \E s \in Segments : Download(w, s)
             \/ Join(w)
             \/ \E f \in Files : Create(w, f)
             \/ Scribble(w) \/ Write(w) \/ Place(w) \/ WriteManifest(w) \/ Unmark(w) \/ Record(w) \/ Clean(w)
             \/ WorkerLooks(w) \/ WorkerErases(w)
    BY <2>4 DEF Download, Join, Create, Scribble, Write, Place, WriteManifest, Unmark, Record, Clean, WorkerLooks, WorkerErases,
                LookAt, Erase
  <2> QED
    BY <1>2, <2>1, <2>2, <2>3, <2>4 DEF InstallStep
<1>3. CASE UserLooks \/ UserErases \/ UserLeaves
  BY <1>3 DEF UserLooks, UserErases, UserLeaves, LookAt, Erase, Next
<1>4. ASSUME NEW a \in Apps, NEW b \in Versions, Publish(a, b) PROVE Unseen
  BY <1>4 DEF Publish, Unseen
<1>5. ASSUME NEW s \in Segments, Rot(s) PROVE Unseen
  BY <1>5 DEF Rot, Unseen
<1>6. CASE Ends
  BY <1>6 DEF Ends, Next
<1>7. CASE UNCHANGED allVars
  BY <1>7 DEF allVars
<1> QED
  BY <1>1, <1>2, <1>3, <1>4, <1>5, <1>6, <1>7 DEF InstallNext

\* The queue keeps its types and its invariants when it is joined to the disk.
LEMMA QueueKeeps ==
  ASSUME TypeOK, Work, [InstallNext]_allVars
  PROVE  TypeOK' /\ Work'
<1>1. CASE [Next]_vars
  BY <1>1, TypeStep, WorkStep
<1>2. CASE Unseen
  <2>1. Types'
    BY <1>2 DEF Unseen, listVars, workerVars, fileVars, TypeOK, Types
  <2>2. ListSound' /\ WorkersHold' /\ DownIsEmpty'
    BY <1>2 DEF Unseen, listVars, workerVars, TypeOK, ListSound, WorkersHold, DownIsEmpty
  <2>3. Work'
    BY <1>2, ListedSame, WorkFrame DEF Unseen, Installing, Leaving, listVars, workerVars, Work, RemovedStops
  <2> QED
    BY <2>1, <2>2, <2>3 DEF TypeOK
<1> QED
  BY <1>1, <1>2, QueueSteps

-----------------------------------------------------------------------------
(* The workers' steps and plans.                                           *)

\* The places of the threads, and what they hold of their plans.
LEMMA PlanHeld ==
  ASSUME TypeOK, Typing, NEW w \in Workers, step[w] # "idle"
  PROVE  /\ Installing(w) /\ pc[w] \in Busy
         /\ mine[w] \in Entries /\ job[mine[w]] \in Job
         /\ build[w] \in Versions /\ build[w] \in Offered(Dir(w))
<1>1. Installing(w) /\ build[w] # None /\ build[w] \in Versions /\ build[w] \in Offered(Dir(w))
  BY DEF Typing, Plans, InstallTypeOK
<1>2. mine[w] # None
  BY <1>1 DEF TypeOK, WorkersHold, Installing
<1> QED
  BY <1>1, <1>2 DEF TypeOK, Types, ListSound, Installing, Busy

FilesTyped ==
  /\ disk \in [Folders -> [Files -> Segments \union {None, Garbage}]]
  /\ part \in [Folders -> [Files -> Segments \union {None, Garbage}]]
  /\ marker \in [Folders -> BOOLEAN]
  /\ manifest \in [Folders -> Versions \union {None}]
  /\ record \in [Folders -> Versions \union {None}]
  /\ cache \in [Segments -> {"none", "good", "bad"}]
  /\ crossed \in [Folders -> BOOLEAN] /\ mixed \in [Folders -> BOOLEAN]
  /\ shared \in [Folders -> SUBSET Files]

\* Every step but that which makes a plan, or publishes a build.
LEMMA TypingFrame ==
  ASSUME TypeOK, Typing,
         FilesTyped', AssemblyTypes', newest' = newest,
         step' \in [Workers -> Steps], build' \in [Workers -> Versions \union {None}],
         todo' \in [Workers -> SUBSET Files], fetch' \in [Workers -> SUBSET Segments],
         uses' \in [Workers -> SUBSET Segments],
         look' \in [Threads -> {"no", "keep", "delete"}],
         \A w \in Workers : step'[w] # "idle" =>
            /\ step[w] # "idle" /\ build'[w] = build[w]
            /\ step'[w] = "plan" => step[w] = "plan"
            /\ Untouched(w),
         \A w \in Workers : step'[w] = "idle" => build'[w] = None,
         \A t \in Threads : look'[t] # "no" => Discards(t)'
  PROVE  Typing'
<1>1. \A w \in Workers : /\ step'[w] # "idle" => Installing(w)'
                         /\ step'[w] = "plan" => pc'[w] = "install"
  BY DEF Typing, InstallTypeOK, Installing, Untouched
<1>2. \A w \in Workers : build'[w] = None <=> step'[w] = "idle"
  BY DEF Typing, InstallTypeOK
<1>3. InstallTypeOK'
  BY <1>1, <1>2 DEF Typing, InstallTypeOK, FilesTyped
<1>4. \A w \in Workers : step'[w] # "idle" => build'[w] \in Offered(Dir(w))'
  <2> SUFFICES ASSUME NEW w \in Workers, step'[w] # "idle" PROVE build'[w] \in Offered(Dir(w))'
    OBVIOUS
  <2>1. Dir(w)' = Dir(w)
    BY DEF Untouched, Dir
  <2> QED
    BY <2>1 DEF Typing, Plans, Offered
<1> QED
  BY <1>3, <1>4 DEF Typing, Plans

\* Streams and files stay with the workers that go on where they were.
LEMMA AssemblyFrame ==
  ASSUME AssemblyTypes, UNCHANGED partVars,
         \A w \in Workers : {step[w], step'[w]} \intersect {"write", "place"} # {}
                             => step'[w] = step[w] /\ todo'[w] = todo[w]
  PROVE  AssemblyTypes'
BY DEF AssemblyTypes, partVars

\* The steps of install() that the queue does not see move one worker on.
LEMMA TypingInside ==
  ASSUME TypeOK, Typing, UNCHANGED vars, FilesTyped', AssemblyTypes', NEW w \in Workers, step[w] # "idle",
         step' \in [Workers -> Steps], step'[w] \notin {"idle", "plan"},
         \A v \in Workers \ {w} : step'[v] = step[v],
         todo' \in [Workers -> SUBSET Files], fetch' \in [Workers -> SUBSET Segments],
         UNCHANGED <<newest, build, uses, look>>
  PROVE  Typing'
<1>1. \A v \in Workers : Untouched(v)
  BY DEF vars, listVars, workerVars, Untouched
<1>2. \A t \in Threads : Discards(t)' <=> Discards(t)
  BY DEF vars, workerVars, Discards
<1> QED
  BY <1>1, <1>2, TypingFrame DEF Typing, InstallTypeOK, Plans

\* The steps that no worker inside install() takes part in.
LEMMA TypingOutside ==
  ASSUME TypeOK, Typing, FilesTyped', UNCHANGED <<newest, localVars>>,
         look' \in [Threads -> {"no", "keep", "delete"}],
         \A w \in Workers : step[w] # "idle" => Untouched(w),
         \A t \in Threads : look'[t] # "no" => Discards(t)'
  PROVE  Typing'
<1>1. AssemblyTypes'
  BY AssemblyFrame DEF Typing, InstallTypeOK, localVars, planVars, partVars
<1> QED
  BY <1>1, TypingFrame DEF Typing, InstallTypeOK, Plans, localVars, planVars

LEMMA TypingNow == TypeOK /\ Typing => FilesTyped /\ AssemblyTypes
BY DEF Typing, InstallTypeOK, FilesTyped

\* A stream that others move to another file stays open.
LEMMA StreamsMove ==
  ASSUME AssemblyTypes, NEW d, NEW f, NEW S \in {Joined(d, f), Renamed(d, f), PartGone(d, f), FileGone(d, f)}
  PROVE  S \in [Workers -> Streams] /\ \A w \in Workers : S[w] = "none" <=> stream[w] = "none"
BY DEF AssemblyTypes, Joined, Renamed, PartGone, FileGone, Writing, Assembling, Streams, OnPart

LEMMA EraseTyped ==
  ASSUME FilesTyped, AssemblyTypes, NEW t \in Threads, Erase(t)
  PROVE  FilesTyped' /\ AssemblyTypes'
<1> DEFINE d == FolderOf(job[Discarded(t)])
<1>1. UNCHANGED <<record, cache, crossed, mixed, shared, step, todo, file>>
  BY DEF Erase, history, planVars
<1>2. ASSUME NEW f \in Files, disk' = [disk EXCEPT ![d][f] = None], UNCHANGED <<part, marker, manifest>>
      PROVE  FilesTyped'
  BY <1>1, <1>2 DEF FilesTyped
<1>3. ASSUME NEW f \in Files, part' = [part EXCEPT ![d][f] = None], UNCHANGED <<disk, marker, manifest>>
      PROVE  FilesTyped'
  BY <1>1, <1>3 DEF FilesTyped
<1>4. ASSUME marker' = [marker EXCEPT ![d] = FALSE], UNCHANGED <<disk, part, manifest>>
      PROVE  FilesTyped'
  BY <1>1, <1>4 DEF FilesTyped
<1>5. ASSUME manifest' = [manifest EXCEPT ![d] = None], UNCHANGED <<disk, part, marker>>
      PROVE  FilesTyped'
  BY <1>1, <1>5 DEF FilesTyped
<1>6. FilesTyped'
  BY <1>2, <1>3, <1>4, <1>5 DEF Erase
<1>7. stream' = stream \/ \E f \in Files : stream' \in {FileGone(d, f), PartGone(d, f)}
  BY DEF Erase
<1>8. stream' \in [Workers -> Streams] /\ \A w \in Workers : stream'[w] = "none" <=> stream[w] = "none"
  BY <1>7, StreamsMove DEF AssemblyTypes
<1> QED
  BY <1>1, <1>6, <1>8 DEF AssemblyTypes

\* A step of install() that begins, continues or ends the assembly of a file.
LEMMA TypingAssembly ==
  ASSUME TypeOK, Typing, NEW w \in Workers,
         (\E f \in Files : Create(w, f)) \/ Scribble(w) \/ Write(w) \/ Place(w)
  PROVE  FilesTyped' /\ AssemblyTypes'
<1>0. FilesTyped /\ AssemblyTypes /\ step \in [Workers -> Steps] /\ todo \in [Workers -> SUBSET Files]
  BY TypingNow DEF Typing, InstallTypeOK
<1> DEFINE d == Dir(w)
<1>1. ASSUME NEW f \in Files, Create(w, f) PROVE FilesTyped' /\ AssemblyTypes'
  <2>1. /\ step[w] = "assemble" /\ step' = [step EXCEPT ![w] = "write"] /\ f \in todo[w]
        /\ file' = [file EXCEPT ![w] = f] /\ part' = [part EXCEPT ![d][f] = Garbage]
        /\ UNCHANGED <<disk, marker, manifest, record, cache, crossed, mixed, todo>>
    BY <1>1 DEF Create, At, Goto, planVars
  <2>2. shared' = shared \/ shared' = [shared EXCEPT ![d] = @ \union {f}]
    BY <1>0, <1>1 DEF Create, FilesTyped
  <2>3. \E x \in OnPart : stream' = [Joined(d, f) EXCEPT ![w] = x]
    BY <1>1 DEF Create, OnPart
  <2>4. Joined(d, f) \in [Workers -> Streams] /\ \A v \in Workers : Joined(d, f)[v] = "none" <=> stream[v] = "none"
    BY <1>0, StreamsMove
  <2> HIDE DEF d
  <2>7. part' \in [Folders -> [Files -> Segments \union {None, Garbage}]]
    BY <1>0, <2>1 DEF FilesTyped
  <2>8. shared' \in [Folders -> SUBSET Files]
    <3> DEFINE x == shared[d] \union {f}
    <3>1. shared \in [Folders -> SUBSET Files] /\ (shared' = shared \/ shared' = [shared EXCEPT ![d] = x])
      BY <1>0, <2>2 DEF FilesTyped
    <3>2. d \in Folders => x \in SUBSET Files
      BY <3>1
    <3> HIDE DEF x
    <3> QED
      BY <3>1, <3>2
  <2>5. FilesTyped'
    BY <1>0, <2>1, <2>7, <2>8 DEF FilesTyped
  <2>6. stream' \in [Workers -> Streams] /\ stream'[w] # "none"
        /\ \A v \in Workers \ {w} : stream'[v] = "none" <=> stream[v] = "none"
    BY <2>3, <2>4 DEF OnPart, Streams
  <2> QED
    BY <1>0, <2>1, <2>5, <2>6 DEF AssemblyTypes
<1>2. ASSUME NEW C \in SUBSET (Segments \union {None, Garbage}), Puts(w, C), file[w] \in Files,
             UNCHANGED <<marker, manifest, record, cache, crossed, mixed, shared>>
      PROVE  FilesTyped'
  <2> DEFINE f == file[w]
  <2>1. PICK c \in C : /\ part' = IF stream[w] \in OnPart THEN [part EXCEPT ![d][f] = c] ELSE part
                       /\ disk' = IF stream[w] = "file" THEN [disk EXCEPT ![d][f] = c] ELSE disk
    BY <1>2 DEF Puts
  <2> HIDE DEF d, f
  <2> QED
    BY <1>0, <1>2, <2>1 DEF FilesTyped
<1>3. CASE Scribble(w)
  <2>1. step[w] = "write" /\ Puts(w, {Garbage})
        /\ UNCHANGED <<marker, manifest, record, cache, crossed, mixed, shared, step, todo, file, stream>>
    BY <1>3 DEF Scribble, At, localVars, planVars, partVars, history
  <2> QED
    BY <1>0, <1>2, <2>1 DEF AssemblyTypes
<1>4. CASE Write(w)
  <2>1. /\ step[w] = "write" /\ step' = [step EXCEPT ![w] = "place"]
        /\ stream' = [stream EXCEPT ![w] = "none"]
        /\ UNCHANGED <<marker, manifest, record, cache, crossed, mixed, shared, todo, file>>
    BY <1>4 DEF Write, At, Goto, planVars, history
  <2>2. build[w] \in Versions /\ file[w] \in Files
    BY <1>0, <2>1, PlanHeld DEF AssemblyTypes
  <2>3. Content[build[w]][file[w]] \in Segments
    BY <2>2, InstallAssumption
  <2>4. FilesTyped'
    BY <1>2, <1>4, <2>1, <2>2, <2>3 DEF Write
  <2>5. AssemblyTypes'
    BY <1>0, <2>1 DEF AssemblyTypes, Streams
  <2> QED
    BY <2>4, <2>5
<1>5. CASE Place(w)
  <2> DEFINE f == file[w]
  <2>1. /\ step[w] = "place" /\ step' = [step EXCEPT ![w] = "assemble"]
        /\ disk' = [disk EXCEPT ![d][f] = part[d][f]] /\ part' = [part EXCEPT ![d][f] = None]
        /\ file' = [file EXCEPT ![w] = None] /\ stream' = Renamed(d, f)
        /\ todo' = [todo EXCEPT ![w] = @ \ {f}]
        /\ mixed' = [mixed EXCEPT ![d] = @ \/ manifest[d] \notin {None, build[w]}]
        /\ UNCHANGED <<marker, manifest, record, cache, crossed, shared>>
    BY <1>5 DEF Place, At, Goto
  <2>2. f \in Files
    BY <1>0, <2>1 DEF AssemblyTypes
  <2>3. d \in Folders => part[d][f] \in Segments \union {None, Garbage}
    BY <1>0, <2>2 DEF FilesTyped
  <2>4. stream' \in [Workers -> Streams] /\ \A v \in Workers : stream'[v] = "none" <=> stream[v] = "none"
    BY <1>0, <2>1, StreamsMove
  <2> HIDE DEF d
  <2>5. disk' \in [Folders -> [Files -> Segments \union {None, Garbage}]]
        /\ part' \in [Folders -> [Files -> Segments \union {None, Garbage}]]
    BY <1>0, <2>1, <2>2, <2>3 DEF FilesTyped
  <2>6. FilesTyped'
    BY <1>0, <2>1, <2>5 DEF FilesTyped
  <2> HIDE DEF f
  <2>7. AssemblyTypes'
    BY <1>0, <2>1, <2>4 DEF AssemblyTypes
  <2> QED
    BY <2>6, <2>7
<1> QED
  BY <1>1, <1>3, <1>4, <1>5

LEMMA TypingErase ==
  ASSUME TypeOK, Typing, NEW t \in Threads, Erase(t)
  PROVE  Typing'
<1>1. UNCHANGED <<vars, newest, step, build, todo, fetch, uses, look>>
  BY DEF Erase, planVars
<1>2. FilesTyped' /\ AssemblyTypes'
  BY TypingNow, EraseTyped
<1>3. \A v \in Workers : Untouched(v)
  BY <1>1 DEF vars, listVars, workerVars, Untouched
<1>4. \A x \in Threads : Discards(x)' <=> Discards(x)
  BY <1>1 DEF vars, workerVars, Discards
<1> QED
  BY <1>1, <1>2, <1>3, <1>4, TypingFrame DEF Typing, Plans, InstallTypeOK

LEMMA TypingInstall ==
  ASSUME TypeOK, Typing, NEW w \in Workers, InstallStep(w)
  PROVE  Typing'
<1> USE DEF At, Goto, planVars, partVars, history
<1>0. FilesTyped /\ AssemblyTypes
  BY TypingNow
<1>f. step \in [Workers -> Steps] /\ todo \in [Workers -> SUBSET Files]
  BY DEF Typing, InstallTypeOK
<1>t. \A v \in Workers : step[v] # "idle" => pc[v] \in Busy
  BY PlanHeld
<1>m. ASSUME UNCHANGED partVars, \A v \in Workers \ {w} : step'[v] = step[v] /\ todo'[v] = todo[v],
             step[w] \notin {"write", "place"}, step'[w] \notin {"write", "place"}
      PROVE  AssemblyTypes'
  BY <1>0, <1>m, AssemblyFrame
<1>1. ASSUME NEW s \in Segments, Download(w, s) PROVE Typing'
  <2>1. FilesTyped'
    BY <1>0, <1>1 DEF Download, FilesTyped, diskVars
  <2>2. fetch' \in [Workers -> SUBSET Segments]
    BY <1>1 DEF Download, Typing, InstallTypeOK
  <2>3. AssemblyTypes'
    BY <1>m, <1>f, <1>1 DEF Download
  <2> QED
    BY <1>1, <2>1, <2>2, <2>3, TypingInside DEF Download, Typing, InstallTypeOK
<1>2. CASE Join(w)
  <2>1. FilesTyped'
    BY <1>0, <1>2 DEF Join, FilesTyped, diskVars
  <2>3. AssemblyTypes'
    BY <1>m, <1>f, <1>2 DEF Join
  <2> QED
    BY <1>2, <2>1, <2>3, TypingInside DEF Join, Typing, InstallTypeOK, Steps
<1>3. ASSUME NEW f \in Files, Create(w, f) PROVE Typing'
  <2>1. FilesTyped' /\ AssemblyTypes'
    BY <1>3, TypingAssembly
  <2> QED
    BY <1>3, <2>1, TypingInside DEF Create, planVars, Typing, InstallTypeOK, Steps
<1>17. CASE Scribble(w)
  <2>1. FilesTyped' /\ AssemblyTypes'
    BY <1>17, TypingAssembly
  <2> QED
    BY <1>17, <2>1, TypingInside DEF Scribble, localVars, planVars, Typing, InstallTypeOK
<1>18. CASE Write(w)
  <2>1. FilesTyped' /\ AssemblyTypes'
    BY <1>18, TypingAssembly
  <2> QED
    BY <1>18, <2>1, TypingInside DEF Write, planVars, Typing, InstallTypeOK, Steps
<1>19. CASE Place(w)
  <2>1. FilesTyped' /\ AssemblyTypes'
    BY <1>19, TypingAssembly
  <2>2. todo' \in [Workers -> SUBSET Files]
    BY <1>19 DEF Place, Typing, InstallTypeOK
  <2> QED
    BY <1>19, <2>1, <2>2, TypingInside DEF Place, Typing, InstallTypeOK, Steps
<1>4. CASE WriteManifest(w)
  <2>1. build[w] \in Versions
    BY <1>4, PlanHeld DEF WriteManifest
  <2>2. FilesTyped'
    BY <1>0, <1>4, <2>1 DEF WriteManifest, FilesTyped
  <2>3. AssemblyTypes'
    BY <1>m, <1>f, <1>4 DEF WriteManifest
  <2> QED
    BY <1>4, <2>2, <2>3, TypingInside DEF WriteManifest, Typing, InstallTypeOK, Steps
<1>5. CASE Unmark(w)
  <2>1. FilesTyped'
    BY <1>0, <1>5 DEF Unmark, FilesTyped
  <2>3. AssemblyTypes'
    BY <1>m, <1>f, <1>5 DEF Unmark
  <2> QED
    BY <1>5, <2>1, <2>3, TypingInside DEF Unmark, Typing, InstallTypeOK, Steps
<1>6. CASE Record(w)
  <2>1. build[w] \in Versions
    BY <1>6, PlanHeld DEF Record
  <2>2. FilesTyped'
    BY <1>0, <1>6, <2>1 DEF Record, FilesTyped
  <2>3. AssemblyTypes'
    BY <1>m, <1>f, <1>6 DEF Record
  <2> QED
    BY <1>6, <2>2, <2>3, TypingInside DEF Record, Typing, InstallTypeOK, Steps
<1>7. CASE Clean(w)
  <2>1. FilesTyped'
    BY <1>0, <1>7 DEF Clean, FilesTyped, diskVars
  <2>3. AssemblyTypes'
    BY <1>m, <1>f, <1>7 DEF Clean
  <2> QED
    BY <1>7, <2>1, <2>3, TypingInside DEF Clean, Typing, InstallTypeOK, Steps
<1>8. CASE GetPlan(w)
  <2>1. Plan(w) /\ WorkerStep(w) /\ pc' = pc /\ mine' = mine /\ pc[w] = "install"
    BY <1>8 DEF GetPlan, Plan, WorkerStep, workerVars
  <2>2. mine[w] \in Held \ {None} /\ job[mine[w]] \in Job
    BY <2>1 DEF TypeOK, ListSound, WorkersHold, Held
  <2>3. \A v \in Workers : v = w \/ step[v] # "idle" => Untouched(v)
    BY <1>t, <2>1, <2>2, WorkerTouches, FolderStays DEF Untouched
  <2> DEFINE j == job[mine[w]]
             b == IF j.version = Newest THEN newest[j.app] ELSE j.version
  <2>4. b \in Versions /\ b \in Offered(FolderOf(j))
    BY <2>2, QueueAssumption DEF Job, FolderOf, Offered, Typing, Plans, InstallTypeOK
  <2>5. build' = [build EXCEPT ![w] = b] /\ step' = [step EXCEPT ![w] = "plan"]
    BY <1>8 DEF GetPlan
  <2>6. \A v \in Workers : Dir(v)' = FolderOf(job'[mine'[v]])
    BY DEF Dir
  <2> HIDE DEF b
  <2>7. \A v \in Workers : step'[v] # "idle" => build'[v] \in Offered(Dir(v))'
    BY <2>3, <2>4, <2>5, <2>6 DEF Untouched, Dir, Typing, Plans, InstallTypeOK, Offered
  <2>8. \A t \in Threads : look'[t] # "no" => Discards(t)'
    BY <1>8, <2>1, WorkerTouches DEF GetPlan, Discards, Typing, Plans
  <2>9. build' \in [Workers -> Versions \union {None}] /\ step' \in [Workers -> Steps]
        /\ \A v \in Workers : build'[v] = None <=> step'[v] = "idle"
    BY <2>4, <2>5, InstallAssumption DEF Typing, Plans, InstallTypeOK, Steps
  <2>10. \A v \in Workers : (step'[v] # "idle" => Installing(v)') /\ (step'[v] = "plan" => pc'[v] = "install")
    BY <2>1, <2>5 DEF Installing, Typing, InstallTypeOK
  <2>13. AssemblyTypes'
    BY <1>m, <1>f, <1>8, <2>5 DEF GetPlan
  <2>11. InstallTypeOK'
    BY <1>8, <2>9, <2>10, <2>13 DEF GetPlan, diskVars, Typing, InstallTypeOK
  <2>12. Plans'
    BY <1>8, <2>7, <2>8, <2>9 DEF GetPlan, Typing, Plans
  <2> QED
    BY <2>11, <2>12 DEF Typing
<1>9. CASE Open(w)
  <2>1. OpenFolder(w) /\ WorkerStep(w) /\ pc' = [pc EXCEPT ![w] = "folder"] /\ job' = job /\ mine' = mine
    BY <1>9 DEF Open, OpenFolder, WorkerStep, listVars
  <2>2. FilesTyped'
    BY <1>0, <1>9 DEF Open, FilesTyped
  <2>3. \A v \in Workers : step[v] # "idle" => Dir(v)' = Dir(v) /\ Installing(v)'
    BY <1>9, <2>1, PlanHeld DEF Open, Dir, Installing, TypeOK, Types
  <2>4. \A v \in Workers : step'[v] # "idle" => build'[v] \in Offered(Dir(v))'
    BY <1>9, <2>3 DEF Open, Offered, Typing, Plans, InstallTypeOK
  <2>5. \A t \in Threads : look'[t] # "no" => Discards(t)'
    BY <1>9, <2>1, WorkerTouches DEF Open, Discards, Installing, Typing, Plans, TypeOK, Types
  <2>6. step' = [step EXCEPT ![w] = "open"]
    BY <1>9 DEF Open
  <2>7. \A v \in Workers : (step'[v] # "idle" => Installing(v)') /\ (step'[v] = "plan" => pc'[v] = "install")
    BY <1>9, <2>1, <2>3, <2>6 DEF Open, Typing, InstallTypeOK, TypeOK, Types
  <2>10. AssemblyTypes'
    BY <1>m, <1>f, <1>9, <2>6 DEF Open
  <2>8. InstallTypeOK'
    BY <1>9, <2>2, <2>6, <2>7, <2>10 DEF Open, FilesTyped, Typing, InstallTypeOK, Steps
  <2>9. Plans'
    BY <1>9, <2>4, <2>5 DEF Open, Typing, Plans
  <2> QED
    BY <2>8, <2>9 DEF Typing
<1>10. CASE Scan(w)
  <2>1. Fetch(w) /\ WorkerStep(w) /\ pc' = pc /\ mine' = mine /\ job' = job /\ ui' = ui
    BY <1>10 DEF Scan, Fetch, WorkerStep, workerVars
  <2>2. FilesTyped'
    BY <1>0, <1>10 DEF Scan, FilesTyped, diskVars
  <2>3. \A v \in Workers : Untouched(v)
    BY <2>1 DEF Untouched
  <2>4. \A t \in Threads : Discards(t)' <=> Discards(t)
    BY <2>1 DEF Discards
  <2>5. build[w] \in Versions
    BY <1>10, PlanHeld DEF Scan
  <2>6. Wanting(Dir(w), build[w]) \subseteq Files
    BY DEF Wanting
  <2>7. {Content[build[w]][f] : f \in Wanting(Dir(w), build[w])} \subseteq Segments
    BY <2>5, <2>6, InstallAssumption
  <2>8. /\ todo' \in [Workers -> SUBSET Files] /\ fetch' \in [Workers -> SUBSET Segments]
        /\ uses' \in [Workers -> SUBSET Segments]
    BY <1>10, <2>6, <2>7 DEF Scan, Typing, InstallTypeOK
  <2>9. step' = [step EXCEPT ![w] = "fetch"] /\ step[w] = "open" /\ UNCHANGED <<newest, build, look>>
    BY <1>10 DEF Scan
  <2>10. AssemblyTypes'
    BY <1>m, <1>f, <1>10, <2>9 DEF Scan
  <2> QED
    BY <2>10, <2>2, <2>3, <2>4, <2>8, <2>9, TypingFrame DEF Typing, InstallTypeOK, Plans, Steps
<1>11. ASSUME NEW s, s \in {"complete", "paused", "failed"}, Finish(w, s), Leave(w),
              UNCHANGED <<newest, look>>, FilesTyped', stream' \in [Workers -> Streams], stream'[w] = "none",
              \A v \in Workers \ {w} : stream'[v] = "none" <=> stream[v] = "none"
       PROVE  Typing'
  <2>1. WorkerStep(w) /\ pc' = [pc EXCEPT ![w] = "notify"] /\ Installing(w)
    BY <1>11 DEF Finish, WorkerStep
  <2>2. \A v \in Workers \ {w} : step[v] # "idle" => Untouched(v)
    BY <1>t, <2>1, WorkerTouches
  <2>3. \A t \in Threads : look'[t] # "no" => Discards(t)'
    BY <1>11, <2>1, WorkerTouches DEF Discards, Installing, Typing, Plans, TypeOK, Types
  <2>4. AssemblyTypes'
    BY <1>0, <1>f, <1>11 DEF Leave, AssemblyTypes
  <2> QED
    BY <1>11, <2>2, <2>3, <2>4, TypingFrame DEF Leave, Typing, InstallTypeOK, Plans, Steps
<1>12. ASSUME NEW s \in {"paused", "failed"}, Reject(w, s) PROVE Typing'
  <2> DEFINE d == Dir(w)
             f == file[w]
  <2>1. /\ step[w] = "write" /\ Finish(w, s) /\ Leave(w)
        /\ UNCHANGED <<marker, manifest, record, newest, look, crossed, mixed, shared>>
        /\ disk' = disk \/ disk' = [disk EXCEPT ![d][f] = Garbage]
        /\ part' = [part EXCEPT ![d][f] = None]
        /\ stream' = [PartGone(d, f) EXCEPT ![w] = "none"]
    BY <1>12 DEF Reject
  <2>2. cache' \in [Segments -> {"none", "good", "bad"}]
    BY <1>12 DEF Reject, Typing, InstallTypeOK
  <2>3. f \in Files
    BY <1>0, <1>f, <2>1 DEF AssemblyTypes
  <2>4. PartGone(d, f) \in [Workers -> Streams]
        /\ \A v \in Workers : PartGone(d, f)[v] = "none" <=> stream[v] = "none"
    BY <1>0, StreamsMove
  <2> HIDE DEF d, f
  <2>7. disk' \in [Folders -> [Files -> Segments \union {None, Garbage}]]
    <3>1. disk \in [Folders -> [Files -> Segments \union {None, Garbage}]]
      BY <1>0 DEF FilesTyped
    <3>2. disk' = disk \/ disk' = [disk EXCEPT ![d][f] = Garbage]
      BY <2>1
    <3> QED
      BY <3>1, <3>2
  <2>8. part' \in [Folders -> [Files -> Segments \union {None, Garbage}]]
    BY <1>0, <2>1, <2>3 DEF FilesTyped
  <2>5. FilesTyped'
    BY <1>0, <2>1, <2>2, <2>7, <2>8 DEF FilesTyped
  <2>6. stream' \in [Workers -> Streams] /\ stream'[w] = "none"
        /\ \A v \in Workers \ {w} : stream'[v] = "none" <=> stream[v] = "none"
    BY <2>1, <2>4 DEF Streams
  <2> QED
    BY <1>11, <2>1, <2>5, <2>6
<1>13. ASSUME NEW s \in {"complete", "paused", "failed"}, End(w, s) PROVE Typing'
  <2>1. Finish(w, s) /\ Leave(w) /\ UNCHANGED <<diskVars, cache, newest, look, crossed, mixed, shared>>
        /\ stream' = [stream EXCEPT ![w] = "none"]
    BY <1>13 DEF End
  <2>2. FilesTyped'
    BY <1>0, <2>1 DEF FilesTyped, diskVars
  <2>3. stream' \in [Workers -> Streams] /\ stream'[w] = "none"
        /\ \A v \in Workers \ {w} : stream'[v] = "none" <=> stream[v] = "none"
    BY <1>0, <2>1 DEF AssemblyTypes, Streams
  <2> QED
    BY <1>11, <2>1, <2>2, <2>3
<1>14. CASE WorkerLooks(w)
  <2>1. FilesTyped'
    BY <1>0, <1>14 DEF WorkerLooks, LookAt, FilesTyped, diskVars
  <2>2. \A v \in Workers : Untouched(v)
    BY <1>14 DEF WorkerLooks, LookAt, vars, listVars, workerVars, Untouched
  <2>3. look' \in [Threads -> {"no", "keep", "delete"}]
    BY <1>14 DEF WorkerLooks, LookAt, Typing, InstallTypeOK
  <2>4. \A t \in Threads : look'[t] # "no" => Discards(t)'
    BY <1>14, InstallAssumption DEF WorkerLooks, LookAt, Typing, Plans, Discards, vars, workerVars, InstallTypeOK, Threads
  <2> QED
    BY <1>14, <2>1, <2>2, <2>3, <2>4, TypingOutside DEF WorkerLooks, LookAt
<1>15. CASE WorkerErases(w)
  BY <1>15, TypingErase DEF WorkerErases, Threads
<1>16. CASE WorkerLeaves(w)
  <2>1. WorkerStep(w) /\ pc[w] = "discard" /\ pc' = [pc EXCEPT ![w] = "check"]
    BY <1>16 DEF WorkerLeaves, Discard, WorkerStep
  <2>2. FilesTyped'
    BY <1>0, <1>16 DEF WorkerLeaves, Leaves, FilesTyped, diskVars
  <2>3. \A v \in Workers : step[v] # "idle" => Untouched(v)
    BY <1>t, <2>1, WorkerTouches, PlanHeld DEF Installing
  <2>4. \A t \in Threads : look'[t] # "no" => Discards(t)'
    BY <1>16, <2>1, WorkerTouches, InstallAssumption
       DEF WorkerLeaves, Leaves, Discards, Typing, Plans, InstallTypeOK, TypeOK, Types, Threads
  <2> QED
    BY <1>16, <2>2, <2>3, <2>4, TypingOutside DEF WorkerLeaves, Leaves, Typing, InstallTypeOK
<1> QED
  BY <1>1, <1>2, <1>3, <1>4, <1>5, <1>6, <1>7, <1>8, <1>9, <1>10, <1>12, <1>13, <1>14, <1>15, <1>16,
     <1>17, <1>18, <1>19
     DEF InstallStep

LEMMA TypingStep ==
  ASSUME TypeOK, Typing, [InstallNext]_allVars
  PROVE  Typing'
<1> USE DEF planVars, partVars, localVars, history
<1>0. FilesTyped /\ AssemblyTypes
  BY TypingNow
<1>t. \A w \in Workers : step[w] # "idle" => pc[w] \in Busy /\ Installing(w)
  BY PlanHeld
<1>d. \A w \in Workers : look[w] # "no" => pc[w] = "discard"
  BY InstallAssumption DEF Typing, Plans, Discards, Threads
<1>u. look[UI] # "no" => ui # None
  BY DEF Typing, Plans, Discards, Threads
<1>1. CASE QueueOnly
  <2>1. FilesTyped' /\ UNCHANGED <<newest, localVars, look>>
    BY <1>0, <1>1 DEF QueueOnly, installVars, FilesTyped, diskVars
  <2>2. CASE UserStep
    <3>1. \A w \in Workers : pc[w] \in Busy => Untouched(w)
      BY <2>2, UserTouches
    <3>2. ui = None
      BY <2>2 DEF UserStep, EnqueueAgain, EnqueueNew, Cancel, CancelAccount, AdoptLegacy, SetAccount, CancelAll,
                  Remove, Move, SetParallel, Close, Call
    <3>3. \A t \in Threads : look'[t] # "no" => Discards(t)'
      BY <1>d, <1>u, <2>1, <3>1, <3>2 DEF Discards, Untouched, Busy, Threads
    <3> QED
      BY <1>t, <2>1, <3>1, <3>3, TypingOutside DEF Typing, InstallTypeOK
  <2>3. CASE Restart
    <3>1. ui' = None /\ ui = None /\ \A w \in Workers : pc[w] = "exit"
      BY <2>3 DEF Restart, TypeOK, DownIsEmpty
    <3>2. \A w \in Workers : step[w] = "idle"
      BY <1>t, <3>1 DEF Busy
    <3>3. \A t \in Threads : look'[t] = "no"
      BY <1>d, <1>u, <2>1, <3>1 DEF Threads
    <3> QED
      BY <2>1, <3>2, <3>3, TypingOutside DEF Typing, InstallTypeOK
  <2>4. ASSUME NEW w \in Workers, Take(w) \/ Wait(w) \/ Notify(w) \/ Release(w) \/ Exit(w)
        PROVE  Typing'
    <3>1. WorkerStep(w) /\ pc[w] \notin Busy
      BY <2>4 DEF WorkerStep, Take, Wait, Notify, Release, Exit, Busy
    <3>2. /\ \A v \in Workers : pc[v] \in Busy => Untouched(v)
          /\ ui' = ui
      BY <3>1, WorkerTouches
    <3>3. \A t \in Threads : look'[t] # "no" => Discards(t)'
      BY <1>d, <1>u, <2>1, <3>2 DEF Discards, Untouched, Busy, Threads
    <3> QED
      BY <1>t, <2>1, <3>2, <3>3, TypingOutside DEF Typing, InstallTypeOK
  <2> QED
    BY <1>1, <2>2, <2>3, <2>4 DEF QueueOnly
<1>2. ASSUME NEW w \in Workers, InstallStep(w) PROVE Typing'
  BY <1>2, TypingInstall
<1>3. CASE UserLooks
  <2>1. FilesTyped' /\ UNCHANGED <<vars, newest, localVars>>
    BY <1>0, <1>3 DEF UserLooks, LookAt, FilesTyped, diskVars
  <2>2. \A v \in Workers : Untouched(v)
    BY <2>1 DEF vars, listVars, workerVars, Untouched
  <2>3. look' \in [Threads -> {"no", "keep", "delete"}]
    BY <1>3 DEF UserLooks, LookAt, Typing, InstallTypeOK
  <2>4. \A t \in Threads : look'[t] # "no" => Discards(t)'
    BY <1>3, <2>1 DEF UserLooks, LookAt, Typing, Plans, Discards, vars, workerVars, InstallTypeOK, Threads
  <2> QED
    BY <2>1, <2>2, <2>3, <2>4, TypingOutside
<1>4. CASE UserErases
  BY <1>4, TypingErase DEF UserErases, Threads
<1>5. CASE UserLeaves
  <2>1. RemoveDiscards /\ pc' = pc
    BY <1>5 DEF UserLeaves, RemoveDiscards, workerVars
  <2>2. FilesTyped'
    BY <1>0, <1>5 DEF UserLeaves, Leaves, FilesTyped, diskVars
  <2>3. \A v \in Workers : step[v] # "idle" => Untouched(v)
    BY <1>t, <2>1, UserTouches
  <2>4. \A t \in Threads : look'[t] # "no" => Discards(t)'
    BY <1>5, <1>d, <2>1 DEF UserLeaves, Leaves, Discards, Typing, InstallTypeOK, Threads
  <2> QED
    BY <1>5, <2>2, <2>3, <2>4, TypingOutside DEF UserLeaves, Leaves, Typing, InstallTypeOK
<1>6. ASSUME NEW a \in Apps, NEW b \in Versions, Publish(a, b) PROVE Typing'
  <2>1. UNCHANGED <<job, pc, mine, ui>>
    BY <1>6 DEF Publish, listVars, workerVars
  <2>2. newest' \in [Apps -> Versions] /\ \A x \in Apps : newest'[x] \in BuildsOf[x]
    BY <1>6 DEF Publish, Typing, Plans, InstallTypeOK
  <2>5. AssemblyTypes'
    BY <1>0, <1>6 DEF Publish, AssemblyTypes
  <2>3. InstallTypeOK'
    BY <1>6, <2>1, <2>2, <2>5 DEF Publish, diskVars, localVars, Typing, InstallTypeOK, Installing
  <2>4. Plans'
    BY <1>6, <2>1, <2>2 DEF Publish, localVars, Typing, Plans, Discards, Dir, Offered
  <2> QED
    BY <2>3, <2>4 DEF Typing
<1>7. ASSUME NEW s \in Segments, Rot(s) PROVE Typing'
  <2>1. UNCHANGED <<job, pc, mine, ui>>
    BY <1>7 DEF Rot, listVars, workerVars
  <2>2. FilesTyped'
    BY <1>0, <1>7 DEF Rot, FilesTyped, diskVars
  <2>3. (\A v \in Workers : Untouched(v)) /\ \A t \in Threads : Discards(t)' <=> Discards(t)
    BY <2>1 DEF Untouched, Discards
  <2> QED
    BY <1>7, <2>2, <2>3, TypingOutside DEF Rot, Typing, Plans, InstallTypeOK
<1>8. CASE Ends
  <2>1. FilesTyped'
    BY <1>0, <1>8 DEF Ends, FilesTyped, diskVars
  <2>2. AssemblyTypes'
    BY <1>8 DEF Ends, AssemblyTypes, Streams
  <2> QED
    BY <1>8, <2>1, <2>2, TypingFrame DEF Ends, Typing, InstallTypeOK, Plans, Steps
<1>9. CASE UNCHANGED allVars
  <2>1. UNCHANGED <<job, pc, mine, ui, installVars>>
    BY <1>9 DEF allVars, vars, listVars, workerVars
  <2>2. FilesTyped'
    BY <1>0, <2>1 DEF installVars, FilesTyped, diskVars
  <2>3. (\A v \in Workers : Untouched(v)) /\ \A t \in Threads : Discards(t)' <=> Discards(t)
    BY <2>1 DEF Untouched, Discards
  <2> QED
    BY <2>1, <2>2, <2>3, TypingOutside DEF installVars, Typing, Plans, InstallTypeOK
<1> QED
  BY <1>1, <1>2, <1>3, <1>4, <1>5, <1>6, <1>7, <1>8, <1>9 DEF InstallNext

-----------------------------------------------------------------------------
(* The folders.                                                            *)

Fetched == {"fetch", "assemble", "write", "place"}

\* The worker is no further than it was, for what RestIsRight says of it and
\* what ManifestFirst does.
NoFurther(w) ==
  /\ build'[w] = build[w]
  /\ step'[w] \in Fetched => step[w] \in Fetched /\ todo'[w] = todo[w]
  /\ step'[w] \in {"unmark", "record"} => step[w] \in {"unmark", "record"}

\* The steps that let nobody into a folder, and change files only where threads met.
LEMMA DiskFrame ==
  ASSUME Disk, UNCHANGED <<manifest, record, mixed>>,
         \A d \in Folders : crossed[d] => crossed'[d],
         \A d \in Folders : ~crossed'[d] => disk'[d] = disk[d],
         \A d \in Folders : Inside(d)' \subseteq Inside(d) /\ Erasers(d)' \subseteq Erasers(d),
         \A d \in Folders : \A w \in Inside(d)' : NoFurther(w)
  PROVE  Disk'
<1>1. Alone'
  BY DEF Disk, Alone
<1>2. ErasedIsUnfinished'
  BY DEF Disk, ErasedIsUnfinished
<1>3. RestIsRight'
  BY DEF Disk, RestIsRight, NoFurther, Fetched
<1>4. ManifestFirst'
  BY DEF Disk, ManifestFirst, NoFurther
<1>5. InstalledIsComplete' /\ RecordedIsInstalled'
  BY DEF Disk, InstalledIsComplete, RecordedIsInstalled
<1> QED
  BY <1>1, <1>2, <1>3, <1>4, <1>5 DEF Disk

\* Threads that stay with their entries stay in their folders.
LEMMA SamePlaces ==
  ASSUME TypeOK, Typing, NEW d \in Folders,
         \A w \in Workers : step'[w] \notin {"idle", "plan"} =>
            step[w] \notin {"idle", "plan"} /\ Untouched(w),
         \A t \in Threads : look'[t] = "delete" =>
            /\ look[t] = "delete"
            /\ Discarded(t)' = Discarded(t)
            /\ FolderOf(job'[Discarded(t)]) = FolderOf(job[Discarded(t)])
  PROVE  Inside(d)' \subseteq Inside(d) /\ Erasers(d)' \subseteq Erasers(d)
<1>1. ASSUME NEW w \in Inside(d)' PROVE w \in Inside(d)
  <2>1. w \in Workers /\ step'[w] \notin {"idle", "plan"} /\ Dir(w)' = d
    BY DEF Inside
  <2>2. step[w] \notin {"idle", "plan"} /\ Dir(w)' = Dir(w)
    BY <2>1 DEF Untouched, Dir
  <2> QED
    BY <2>1, <2>2 DEF Inside
<1>2. ASSUME NEW t \in Erasers(d)' PROVE t \in Erasers(d)
  <2>1. t \in Threads /\ look'[t] = "delete" /\ FolderOf(job'[Discarded(t)']) = d
    BY DEF Erasers
  <2> QED
    BY <2>1 DEF Erasers
<1> QED
  BY <1>1, <1>2

\* The queue's steps do not move what a thread discards.
LEMMA QueueErasers ==
  ASSUME TypeOK, Typing,
         \/ UserStep /\ look' = look
         \/ RemoveDiscards /\ look' = [look EXCEPT ![UI] = "no"]
         \/ \E w \in Workers : /\ WorkerStep(w)
                               /\ \/ look' = look /\ pc[w] # "discard"
                                  \/ look' = [look EXCEPT ![w] = "no"]
  PROVE  \A t \in Threads : look'[t] = "delete" =>
            /\ look[t] = "delete"
            /\ Discarded(t)' = Discarded(t)
            /\ FolderOf(job'[Discarded(t)]) = FolderOf(job[Discarded(t)])
<1> SUFFICES ASSUME NEW t \in Threads, look'[t] = "delete"
             PROVE  /\ look[t] = "delete"
                    /\ Discarded(t)' = Discarded(t)
                    /\ FolderOf(job'[Discarded(t)]) = FolderOf(job[Discarded(t)])
  OBVIOUS
<1>1. look \in [Threads -> {"no", "keep", "delete"}] /\ UI \in Threads /\ Workers \subseteq Threads
  BY DEF Typing, InstallTypeOK, Threads
<1>2. look[t] = "delete" /\ Discards(t)
  BY <1>1 DEF Typing, Plans
<1>3. CASE t = UI
  <2>1. ui # None /\ ~UserStep
    BY <1>2, <1>3 DEF Discards, UserStep, EnqueueAgain, EnqueueNew, Cancel, CancelAccount, AdoptLegacy, SetAccount,
                      CancelAll, Remove, Move, SetParallel, Close, Call
  <2>2. ~(look' = [look EXCEPT ![UI] = "no"])
    BY <1>1, <1>3
  <2> QED
    BY <1>2, <1>3, <2>1, <2>2, WorkerTouches DEF Discarded
<1>4. CASE t # UI
  <2>1. t \in Workers /\ pc[t] = "discard"
    BY <1>2, <1>4 DEF Discards, Threads
  <2>2. ASSUME NEW w \in Workers, WorkerStep(w),
               (look' = look /\ pc[w] # "discard") \/ look' = [look EXCEPT ![w] = "no"]
        PROVE  Untouched(t)
    <3>1. t # w
      BY <1>1, <2>1, <2>2
    <3> QED
      BY <2>1, <2>2, <3>1, WorkerTouches DEF Busy
  <2>3. ASSUME UserStep \/ RemoveDiscards PROVE Untouched(t)
    BY <2>1, <2>3, UserTouches DEF Busy
  <2>4. Untouched(t)
    BY <2>2, <2>3
  <2> QED
    BY <1>2, <1>4, <2>4 DEF Discarded, Untouched
<1> QED
  BY <1>3, <1>4

\* Steps that the queue does not see leave the threads in their folders.
LEMMA StillPlaces ==
  ASSUME UNCHANGED <<job, mine, ui>>
  PROVE  /\ \A w \in Workers : Dir(w)' = Dir(w)
         /\ \A t \in Threads : Discarded(t)' = Discarded(t)
                               /\ FolderOf(job'[Discarded(t)']) = FolderOf(job[Discarded(t)])
BY DEF Dir, Discarded

\* Where the threads are after a step of install() that the queue does not see.
LEMMA InsideStays ==
  ASSUME TypeOK, Typing, UNCHANGED <<job, mine, ui, look>>, NEW w \in Workers,
         step[w] \notin {"idle", "plan"}, step'[w] \notin {"idle", "plan"},
         \A v \in Workers \ {w} : step'[v] = step[v]
  PROVE  \A d \in Folders : Inside(d)' = Inside(d) /\ Erasers(d)' = Erasers(d)
<1> SUFFICES ASSUME NEW d \in Folders PROVE Inside(d)' = Inside(d) /\ Erasers(d)' = Erasers(d)
  OBVIOUS
<1>1. \A v \in Workers : v \in Inside(d)' <=> v \in Inside(d)
  BY StillPlaces DEF Inside
<1>2. \A t \in Threads : t \in Erasers(d)' <=> t \in Erasers(d)
  BY StillPlaces DEF Erasers
<1>3. /\ Inside(d) \subseteq Workers /\ Inside(d)' \subseteq Workers
      /\ Erasers(d) \subseteq Threads /\ Erasers(d)' \subseteq Threads
  BY DEF Inside, Erasers
<1> QED
  BY <1>1, <1>2, <1>3

LEMMA DiskOpen ==
  ASSUME TypeOK, Typing, Disk, NEW w \in Workers, Open(w)
  PROVE  Disk'
<1>1. /\ step[w] = "plan" /\ step' = [step EXCEPT ![w] = "open"]
      /\ UNCHANGED <<job, mine, ui, look, disk, manifest, record, mixed, build, todo>>
  BY DEF Open, At, Goto, OpenFolder, listVars, planVars
<1>2. step \in [Workers -> Steps] /\ crossed \in [Folders -> BOOLEAN]
  BY DEF Typing, InstallTypeOK
<1>3. \A d \in Folders : /\ Inside(d)' \subseteq Inside(d) \union {w}
                         /\ w \in Inside(d)' => d = Dir(w)
  <2> SUFFICES ASSUME NEW d \in Folders, NEW v \in Inside(d)'
               PROVE  (v \in Inside(d) \/ v = w) /\ (v = w => d = Dir(w))
    OBVIOUS
  <2>1. v \in Workers /\ step'[v] \notin {"idle", "plan"} /\ Dir(v)' = d
    BY DEF Inside
  <2>2. Dir(v) = d
    BY <1>1, <2>1, StillPlaces
  <2> QED
    BY <1>1, <1>2, <2>1, <2>2 DEF Inside
<1>4. \A d \in Folders : Erasers(d)' = Erasers(d)
  <2> SUFFICES ASSUME NEW d \in Folders PROVE Erasers(d)' = Erasers(d)
    OBVIOUS
  <2>1. \A t \in Threads : t \in Erasers(d)' <=> t \in Erasers(d)
    BY <1>1, StillPlaces DEF Erasers
  <2> QED
    BY <2>1 DEF Erasers
<1>5. \A d \in Folders : ~crossed'[d] =>
        ~crossed[d] /\ (d = Dir(w) => Inside(d) = {} /\ Erasers(d) = {})
  BY <1>2 DEF Open
<1>6. Alone'
  <2> SUFFICES ASSUME NEW d \in Folders, ~crossed'[d]
               PROVE  /\ \A u, v \in Inside(d)' : u = v
                      /\ Inside(d)' = {} \/ Erasers(d)' = {}
    BY DEF Alone
  <2>1. CASE d = Dir(w)
    BY <1>3, <1>4, <1>5, <2>1
  <2>2. CASE d # Dir(w)
    <3>1. Inside(d)' \subseteq Inside(d)
      BY <1>3, <2>2
    <3> QED
      BY <1>4, <1>5, <3>1 DEF Disk, Alone
  <2> QED
    BY <2>1, <2>2
<1>7. ErasedIsUnfinished'
  BY <1>1, <1>4, <1>5 DEF Disk, ErasedIsUnfinished
<1>8. \A d \in Folders : \A v \in Inside(d)' : step'[v] # "open" => v \in Inside(d) /\ step'[v] = step[v]
  BY <1>1, <1>2, <1>3 DEF Inside
<1>9. RestIsRight'
  BY <1>1, <1>5, <1>8 DEF Disk, RestIsRight
<1>10. ManifestFirst'
  BY <1>1, <1>5, <1>8 DEF Disk, ManifestFirst
<1>11. InstalledIsComplete' /\ RecordedIsInstalled'
  BY <1>1, <1>5 DEF Disk, InstalledIsComplete, RecordedIsInstalled
<1> QED
  BY <1>6, <1>7, <1>9, <1>10, <1>11 DEF Disk

LEMMA DiskScan ==
  ASSUME TypeOK, Typing, Disk, NEW w \in Workers, Scan(w)
  PROVE  Disk'
<1>1. /\ step[w] = "open" /\ step' = [step EXCEPT ![w] = "fetch"]
      /\ UNCHANGED <<job, mine, ui, look, disk, manifest, record, mixed, crossed, build>>
      /\ todo' = [todo EXCEPT ![w] = Wanting(Dir(w), build[w])]
  BY DEF Scan, At, Goto, Fetch, diskVars, workerVars, history
<1>2. step \in [Workers -> Steps] /\ todo \in [Workers -> SUBSET Files]
  BY DEF Typing, InstallTypeOK
<1>3. \A d \in Folders : Inside(d)' = Inside(d) /\ Erasers(d)' = Erasers(d)
  BY <1>1, <1>2, InsideStays
<1>4. Alone' /\ ErasedIsUnfinished'
  BY <1>1, <1>3 DEF Disk, Alone, ErasedIsUnfinished
<1>5. RestIsRight'
  <2> SUFFICES ASSUME NEW d \in Folders, NEW v \in Inside(d), step'[v] \in {"fetch", "assemble", "write", "place"}, ~crossed[d],
                      NEW f \in Files \ todo'[v]
               PROVE  disk[d][f] = Content[build[v]][f]
    BY <1>1, <1>3 DEF RestIsRight
  <2>1. CASE v = w
    <3>1. Dir(w) = d /\ todo'[w] = Wanting(d, build[w])
      BY <1>1, <1>2, <2>1 DEF Inside
    <3> QED
      BY <2>1, <3>1 DEF Wanting
  <2>2. CASE v # w
    BY <1>1, <1>2, <2>2 DEF Disk, RestIsRight
  <2> QED
    BY <2>1, <2>2
<1>6. ManifestFirst'
  BY <1>1, <1>2, <1>3 DEF Disk, ManifestFirst, Inside
<1>7. InstalledIsComplete' /\ RecordedIsInstalled'
  BY <1>1 DEF Disk, InstalledIsComplete, RecordedIsInstalled
<1> QED
  BY <1>4, <1>5, <1>6, <1>7 DEF Disk

\* A worker that assembles a file in a folder where no threads met has it alone.
LEMMA OwnWhereAlone ==
  ASSUME TypeOK, Typing, Parts, NEW w \in Workers, step[w] \in {"write", "place"},
         Dir(w) \in Folders, ~crossed[Dir(w)]
  PROVE  Own(Dir(w), w)
<1>1. file[w] # None
  BY InstallAssumption DEF Typing, InstallTypeOK, AssemblyTypes
<1>2. w \in Inside(Dir(w))
  BY DEF Inside
<1> QED
  BY <1>1, <1>2 DEF Parts, SharedOrOwn, SharedIsCrossed

\* So what it writes goes to no file but the .part file.
LEMMA PutsAside ==
  ASSUME TypeOK, Typing, Parts, NEW w \in Workers, step[w] = "write",
         disk' = disk \/ (stream[w] = "file" /\ \E c : disk' = [disk EXCEPT ![Dir(w)][file[w]] = c])
  PROVE  \A d \in Folders : ~crossed[d] => disk'[d] = disk[d]
<1> SUFFICES ASSUME NEW d \in Folders, ~crossed[d], disk' # disk PROVE disk'[d] = disk[d]
  OBVIOUS
<1>1. d # Dir(w)
  BY OwnWhereAlone DEF Own
<1>2. disk \in [Folders -> [Files -> Segments \union {None, Garbage}]]
  BY DEF Typing, InstallTypeOK
<1> DEFINE x == Dir(w)
           f == file[w]
<1>3. \E c : disk' = [disk EXCEPT ![x][f] = c]
  OBVIOUS
<1> HIDE DEF x, f
<1> QED
  BY <1>1, <1>2, <1>3 DEF x

LEMMA DiskPlace ==
  ASSUME TypeOK, Typing, Disk, Parts, NEW w \in Workers, Place(w)
  PROVE  Disk'
<1> DEFINE d == Dir(w)
           f == file[w]
           s == part[d][f]
<1>1. /\ step[w] = "place" /\ step' = [step EXCEPT ![w] = "assemble"] /\ s # None
      /\ UNCHANGED <<job, mine, ui, look, manifest, record, crossed, build>>
      /\ disk' = [disk EXCEPT ![d][f] = s]
      /\ todo' = [todo EXCEPT ![w] = @ \ {f}]
      /\ mixed' = [mixed EXCEPT ![d] = @ \/ manifest[d] \notin {None, build[w]}]
  BY DEF Place, At, Goto, vars, listVars, workerVars
<1>2. /\ disk \in [Folders -> [Files -> Segments \union {None, Garbage}]]
      /\ todo \in [Workers -> SUBSET Files] /\ mixed \in [Folders -> BOOLEAN]
      /\ step \in [Workers -> Steps] /\ f \in todo[w] /\ f \in Files
  BY <1>1 DEF Typing, InstallTypeOK, AssemblyTypes
<1>3. d \in Folders /\ ~crossed[d] => s = Content[build[w]][f]
  BY <1>1, OwnWhereAlone DEF Own
<1> HIDE DEF s, f
<1>4. \A x \in Folders : Inside(x)' = Inside(x) /\ Erasers(x)' = Erasers(x)
  BY <1>1, <1>2, InsideStays
<1>5. Alone' /\ ErasedIsUnfinished' /\ ManifestFirst' /\ RecordedIsInstalled'
  BY <1>1, <1>2, <1>4 DEF Disk, Alone, ErasedIsUnfinished, ManifestFirst, RecordedIsInstalled, Inside
<1>6. \A x \in Folders, g \in Files : disk'[x][g] = IF x = d /\ g = f THEN s ELSE disk[x][g]
  BY <1>1, <1>2
<1>7. d \in Folders => w \in Inside(d)
  BY <1>1 DEF Inside
<1> HIDE DEF d
<1>8. RestIsRight'
  <2> SUFFICES ASSUME NEW x \in Folders, NEW v \in Inside(x), step'[v] \in Fetched, ~crossed[x],
                      NEW g \in Files \ todo'[v]
               PROVE  disk'[x][g] = Content[build[v]][g]
    BY <1>1, <1>4 DEF RestIsRight, Fetched
  <2>1. CASE x # d
    <3>1. v # w /\ v \in Workers
      BY <2>1 DEF Inside, d
    <3> QED
      BY <1>1, <1>2, <1>6, <2>1, <3>1 DEF Disk, RestIsRight, Fetched
  <2>2. CASE x = d
    <3>2. v = w
      BY <1>7, <2>2 DEF Disk, Alone
    <3>3. CASE g = f
      BY <1>3, <1>6, <2>2, <3>2, <3>3
    <3>4. CASE g # f
      <4>1. g \in Files \ todo[w]
        BY <1>1, <1>2, <3>2, <3>4
      <4> QED
        BY <1>1, <1>6, <3>2, <3>4, <4>1 DEF Disk, RestIsRight
    <3> QED
      BY <3>3, <3>4
  <2> QED
    BY <2>1, <2>2
<1>9. InstalledIsComplete'
  <2> SUFFICES ASSUME NEW x \in Folders, manifest[x] # None, ~crossed[x], ~mixed'[x]
               PROVE  disk'[x] = Content[manifest[x]]
    BY <1>1 DEF InstalledIsComplete
  <2>1. ~mixed[x] /\ (x = d => manifest[x] = build[w])
    BY <1>1, <1>2
  <2>2. disk[x] = Content[manifest[x]]
    BY <2>1 DEF Disk, InstalledIsComplete
  <2>3. CASE x # d
    BY <1>1, <1>2, <2>2, <2>3
  <2>4. CASE x = d
    <3>1. \A g \in Files : disk'[x][g] = disk[x][g]
      BY <1>3, <1>6, <2>1, <2>2, <2>4
    <3>2. disk'[x] = disk[x]
      BY <1>1, <1>2, <3>1
    <3> QED
      BY <2>2, <3>2
  <2> QED
    BY <2>3, <2>4
<1> QED
  BY <1>5, <1>8, <1>9 DEF Disk

LEMMA DiskWriteManifest ==
  ASSUME TypeOK, Typing, Disk, NEW w \in Workers, WriteManifest(w)
  PROVE  Disk'
<1> DEFINE d == Dir(w)
<1>1. /\ step[w] = "assemble" /\ todo[w] = {} /\ step' = [step EXCEPT ![w] = "unmark"]
      /\ UNCHANGED <<job, mine, ui, look, disk, record, crossed, build, todo>>
      /\ manifest' = [manifest EXCEPT ![d] = build[w]]
      /\ mixed' = [mixed EXCEPT ![d] = FALSE]
  BY DEF WriteManifest, ReadyForManifest, At, Goto, vars, listVars, workerVars, planVars
<1>2. /\ disk \in [Folders -> [Files -> Segments \union {None, Garbage}]]
      /\ manifest \in [Folders -> Versions \union {None}]
      /\ step \in [Workers -> Steps] /\ mixed \in [Folders -> BOOLEAN]
  BY DEF Typing, InstallTypeOK
<1>3. build[w] \in Versions /\ build[w] # None
  BY <1>1, PlanHeld, InstallAssumption
<1>4. \A x \in Folders : Inside(x)' = Inside(x) /\ Erasers(x)' = Erasers(x)
  BY <1>1, <1>2, InsideStays
<1>5. d \in Folders => w \in Inside(d)
  BY <1>1 DEF Inside
<1> HIDE DEF d
<1>6. Alone'
  BY <1>1, <1>4 DEF Disk, Alone
<1>7. ErasedIsUnfinished'
  BY <1>1, <1>2, <1>4, <1>5 DEF Disk, Alone, ErasedIsUnfinished
<1>8. RestIsRight'
  BY <1>1, <1>2, <1>4 DEF Disk, RestIsRight
<1>9. ManifestFirst'
  <2> SUFFICES ASSUME NEW x \in Folders, NEW v \in Inside(x), step'[v] \in {"unmark", "record"}, ~crossed[x]
               PROVE  manifest'[x] # None
    BY <1>1, <1>4 DEF ManifestFirst
  <2>1. CASE x = d
    BY <1>1, <1>2, <1>3, <2>1
  <2>2. CASE x # d
    <3>1. v # w
      BY <2>2 DEF Inside, d
    <3> QED
      BY <1>1, <1>2, <2>2, <3>1 DEF Disk, ManifestFirst
  <2> QED
    BY <2>1, <2>2
<1>10. InstalledIsComplete'
  <2> SUFFICES ASSUME NEW x \in Folders, manifest'[x] # None, ~crossed[x], ~mixed'[x]
               PROVE  disk[x] = Content[manifest'[x]]
    BY <1>1 DEF InstalledIsComplete
  <2>1. CASE x = d
    <3>1. manifest'[x] = build[w]
      BY <1>1, <1>2, <2>1
    <3>2. \A f \in Files : disk[x][f] = Content[build[w]][f]
      BY <1>1, <1>5, <2>1 DEF Disk, RestIsRight
    <3>3. Content[build[w]] \in [Files -> Segments]
      BY <1>3, InstallAssumption
    <3> QED
      BY <1>2, <3>1, <3>2, <3>3
  <2>2. CASE x # d
    BY <1>1, <1>2, <2>2 DEF Disk, InstalledIsComplete
  <2> QED
    BY <2>1, <2>2
<1>11. RecordedIsInstalled'
  BY <1>1, <1>2, <1>3 DEF Disk, RecordedIsInstalled
<1> QED
  BY <1>6, <1>7, <1>8, <1>9, <1>10, <1>11 DEF Disk

LEMMA DiskRecord ==
  ASSUME TypeOK, Typing, Disk, NEW w \in Workers, Record(w)
  PROVE  Disk'
<1>1. /\ step[w] = "record" /\ step' = [step EXCEPT ![w] = "clean"]
      /\ UNCHANGED <<job, mine, ui, look, disk, manifest, crossed, mixed, build, todo>>
      /\ record' = [record EXCEPT ![Dir(w)] = build[w]]
  BY DEF Record, At, Goto, vars, listVars, workerVars, planVars, history
<1>2. step \in [Workers -> Steps] /\ record \in [Folders -> Versions \union {None}]
  BY DEF Typing, InstallTypeOK
<1>3. \A d \in Folders : Inside(d)' = Inside(d) /\ Erasers(d)' = Erasers(d)
  BY <1>1, <1>2, InsideStays
<1>4. Dir(w) \in Folders => w \in Inside(Dir(w))
  BY <1>1 DEF Inside
<1>5. Alone' /\ ErasedIsUnfinished'
  BY <1>1, <1>3 DEF Disk, Alone, ErasedIsUnfinished
<1>6. RestIsRight' /\ ManifestFirst'
  BY <1>1, <1>2, <1>3 DEF Disk, RestIsRight, ManifestFirst, Inside
<1>7. RecordedIsInstalled'
  <2> SUFFICES ASSUME NEW d \in Folders, record'[d] # None, ~crossed[d] PROVE manifest[d] # None
    BY <1>1 DEF RecordedIsInstalled
  <2>1. CASE d = Dir(w)
    BY <1>1, <1>4, <2>1 DEF Disk, ManifestFirst
  <2>2. CASE d # Dir(w)
    BY <1>1, <1>2, <2>2 DEF Disk, RecordedIsInstalled
  <2> QED
    BY <2>1, <2>2
<1>8. InstalledIsComplete'
  BY <1>1 DEF Disk, InstalledIsComplete
<1> QED
  BY <1>5, <1>6, <1>7, <1>8 DEF Disk

LEMMA DiskLook ==
  ASSUME TypeOK, Typing, Disk, NEW t \in Threads, LookAt(t)
  PROVE  Disk'
<1> DEFINE d == FolderOf(job[Discarded(t)])
<1>1. /\ look[t] = "no"
      /\ UNCHANGED <<job, mine, ui, disk, manifest, record, mixed, step, build, todo>>
      /\ look'[t] = "delete" => Discardable(d)
      /\ \A x \in Threads \ {t} : look'[x] = look[x]
      /\ crossed' = [crossed EXCEPT ![d] = @ \/ (look'[t] = "delete" /\ Inside(d) # {})]
  BY DEF LookAt, vars, diskVars, localVars, planVars, listVars, workerVars, Typing, InstallTypeOK
<1>2. crossed \in [Folders -> BOOLEAN]
  BY DEF Typing, InstallTypeOK
<1>3. \A x \in Folders : Inside(x)' = Inside(x)
  BY <1>1, StillPlaces DEF Inside
<1>4. \A x \in Folders : \A v \in Erasers(x)' \ Erasers(x) : v = t /\ look'[t] = "delete" /\ x = d
  <2> SUFFICES ASSUME NEW x \in Folders, NEW v \in Erasers(x)', v \notin Erasers(x)
               PROVE  v = t /\ look'[t] = "delete" /\ x = d
    OBVIOUS
  <2>1. v \in Threads /\ look'[v] = "delete" /\ FolderOf(job'[Discarded(v)']) = x
    BY DEF Erasers
  <2>2. FolderOf(job[Discarded(v)]) = x
    BY <1>1, <2>1, StillPlaces
  <2> QED
    BY <1>1, <2>1, <2>2 DEF Erasers
<1> HIDE DEF d
<1>5. \A x \in Folders : ~crossed'[x] => ~crossed[x]
  BY <1>1, <1>2
<1>6. \A x \in Folders : ~(x = d /\ look'[t] = "delete") => Erasers(x)' \subseteq Erasers(x)
  BY <1>4
<1>7. Alone'
  <2> SUFFICES ASSUME NEW x \in Folders, ~crossed'[x]
               PROVE  /\ \A u, v \in Inside(x) : u = v
                      /\ Inside(x) = {} \/ Erasers(x)' = {}
    BY <1>3 DEF Alone
  <2>1. CASE x = d /\ look'[t] = "delete"
    <3>1. Inside(x) = {}
      BY <1>1, <1>2, <2>1
    <3> QED
      BY <3>1
  <2>2. CASE ~(x = d /\ look'[t] = "delete")
    BY <1>5, <1>6, <2>2 DEF Disk, Alone
  <2> QED
    BY <2>1, <2>2
<1>8. ErasedIsUnfinished'
  <2> SUFFICES ASSUME NEW x \in Folders, ~crossed'[x], Erasers(x)' # {} PROVE manifest[x] = None
    BY <1>1 DEF ErasedIsUnfinished
  <2>1. CASE x = d /\ look'[t] = "delete"
    BY <1>1, <2>1 DEF Discardable
  <2>2. CASE ~(x = d /\ look'[t] = "delete")
    BY <1>5, <1>6, <2>2 DEF Disk, ErasedIsUnfinished
  <2> QED
    BY <2>1, <2>2
<1>9. RestIsRight' /\ ManifestFirst'
  BY <1>1, <1>3, <1>5 DEF Disk, RestIsRight, ManifestFirst
<1>10. InstalledIsComplete' /\ RecordedIsInstalled'
  BY <1>1, <1>5 DEF Disk, InstalledIsComplete, RecordedIsInstalled
<1> QED
  BY <1>7, <1>8, <1>9, <1>10 DEF Disk

\* A discard takes files of folders nobody is in, where there is no manifest.
LEMMA ErasesUnfinished ==
  ASSUME Typing, Disk, NEW t \in Threads, Erase(t), NEW d \in Folders, ~crossed[d],
         \/ disk'[d] # disk[d] \/ manifest'[d] # manifest[d]
  PROVE  d = FolderOf(job[Discarded(t)]) /\ manifest[d] = None /\ Inside(d) = {}
<1> DEFINE x == FolderOf(job[Discarded(t)])
<1>1. /\ look[t] = "delete"
      /\ disk' = disk \/ \E f \in Files : disk' = [disk EXCEPT ![x][f] = None]
      /\ manifest' = manifest \/ manifest' = [manifest EXCEPT ![x] = None]
  BY DEF Erase
<1>2. d = x
  <2>1. disk \in [Folders -> [Files -> Segments \union {None, Garbage}]] /\ manifest \in [Folders -> Versions \union {None}]
    BY DEF Typing, InstallTypeOK
  <2> HIDE DEF x
  <2> QED
    BY <1>1, <2>1
<1>3. t \in Erasers(d)
  BY <1>1, <1>2 DEF Erasers
<1> QED
  BY <1>2, <1>3 DEF Disk, Alone, ErasedIsUnfinished

LEMMA DiskErase ==
  ASSUME TypeOK, Typing, Disk, NEW t \in Threads, Erase(t)
  PROVE  Disk'
<1> DEFINE x == FolderOf(job[Discarded(t)])
<1>1. UNCHANGED <<job, mine, ui, record, mixed, crossed, step, build, todo, look>>
  BY DEF Erase, vars, planVars, history, listVars, workerVars
<1>2. \A d \in Folders : Inside(d)' = Inside(d) /\ Erasers(d)' = Erasers(d)
  BY <1>1, StillPlaces DEF Inside, Erasers
<1>3. \A d \in Folders : ~crossed[d] /\ (disk'[d] # disk[d] \/ manifest'[d] # manifest[d])
                         => manifest[d] = None /\ Inside(d) = {}
  BY ErasesUnfinished
<1>t. disk \in [Folders -> [Files -> Segments \union {None, Garbage}]] /\ manifest \in [Folders -> Versions \union {None}]
  BY DEF Typing, InstallTypeOK
<1>c. /\ disk' = disk \/ \E f \in Files : disk' = [disk EXCEPT ![x][f] = None]
      /\ manifest' = manifest \/ manifest' = [manifest EXCEPT ![x] = None]
  BY DEF Erase
<1> HIDE DEF x
<1>4. \A d \in Folders : manifest'[d] = manifest[d] \/ manifest'[d] = None
  BY <1>t, <1>c
<1>5. Alone' /\ ErasedIsUnfinished'
  BY <1>1, <1>2, <1>4 DEF Disk, Alone, ErasedIsUnfinished
<1>6. RestIsRight' /\ ManifestFirst'
  BY <1>1, <1>2, <1>3 DEF Disk, RestIsRight, ManifestFirst
<1>7. InstalledIsComplete' /\ RecordedIsInstalled'
  BY <1>1, <1>3, <1>4 DEF Disk, InstalledIsComplete, RecordedIsInstalled
<1> QED
  BY <1>5, <1>6, <1>7 DEF Disk

\* A step of install() that changes no manifest or record, nor a file where no
\* threads met.
LEMMA DiskInside ==
  ASSUME TypeOK, Typing, Disk, NEW w \in Workers,
         UNCHANGED <<job, mine, ui, look, manifest, record, mixed, crossed, build, todo>>,
         \A d \in Folders : ~crossed[d] => disk'[d] = disk[d],
         step[w] \notin {"idle", "plan"}, step'[w] \notin {"idle", "plan"}, NoFurther(w),
         \A v \in Workers \ {w} : step'[v] = step[v]
  PROVE  Disk'
<1>1. \A d \in Folders : Inside(d)' = Inside(d) /\ Erasers(d)' = Erasers(d)
  BY InsideStays
<1>2. \A v \in Workers : NoFurther(v)
  BY DEF NoFurther
<1>3. \A d \in Folders : Inside(d)' \subseteq Workers
  BY DEF Inside
<1> QED
  BY <1>1, <1>2, <1>3, DiskFrame

\* A step of the queue that leaves the disk alone, where no threads met.
LEMMA DiskQueue ==
  ASSUME TypeOK, Typing, Disk, UNCHANGED <<manifest, record, mixed, crossed>>,
         \A d \in Folders : ~crossed[d] => disk'[d] = disk[d],
         \A w \in Workers : step'[w] \notin {"idle", "plan"} =>
            /\ step[w] = step'[w] /\ Untouched(w)
            /\ build'[w] = build[w] /\ todo'[w] = todo[w],
         \A t \in Threads : look'[t] = "delete" =>
            /\ look[t] = "delete"
            /\ Discarded(t)' = Discarded(t)
            /\ FolderOf(job'[Discarded(t)]) = FolderOf(job[Discarded(t)])
  PROVE  Disk'
<1>1. \A d \in Folders : Inside(d)' \subseteq Inside(d) /\ Erasers(d)' \subseteq Erasers(d)
  BY SamePlaces
<1>2. \A d \in Folders : \A w \in Inside(d)' : NoFurther(w)
  BY DEF Inside, NoFurther
<1> QED
  BY <1>1, <1>2, DiskFrame

LEMMA DiskInstall ==
  ASSUME TypeOK, Typing, Disk, Parts, NEW w \in Workers, InstallStep(w)
  PROVE  Disk'
<1> USE DEF planVars, partVars, history, Fetched
<1>0. step \in [Workers -> Steps] /\ todo \in [Workers -> SUBSET Files] /\ build \in [Workers -> Versions \union {None}]
      /\ look \in [Threads -> {"no", "keep", "delete"}] /\ w \in Threads
  BY DEF Typing, Plans, InstallTypeOK, Threads
<1>t. \A v \in Workers : step[v] # "idle" => pc[v] \in Busy /\ pc[v] # "discard" /\ Installing(v)
  BY PlanHeld DEF Installing
<1>1. CASE GetPlan(w)
  <2>1. /\ WorkerStep(w) /\ look' = look /\ pc[w] # "discard"
        /\ UNCHANGED <<disk, manifest, record, mixed, crossed, todo>>
        /\ step' = [step EXCEPT ![w] = "plan"] /\ step[w] = "idle"
        /\ \A v \in Workers \ {w} : build'[v] = build[v]
    BY <1>0, <1>1 DEF GetPlan, Plan, At, Goto, WorkerStep, diskVars
  <2>2. \A v \in Workers : step'[v] \notin {"idle", "plan"} => v # w /\ step'[v] = step[v]
    BY <1>0, <2>1
  <2>3. \A v \in Workers : step'[v] \notin {"idle", "plan"} => Untouched(v)
    BY <1>t, <2>1, <2>2, WorkerTouches
  <2> QED
    BY <2>1, <2>2, <2>3, QueueErasers, DiskQueue
<1>2. CASE Open(w)
  BY <1>2, DiskOpen
<1>3. CASE Scan(w)
  BY <1>3, DiskScan
<1>4. ASSUME NEW s \in Segments, Download(w, s) PROVE Disk'
  BY <1>4, DiskInside DEF Download, At, vars, listVars, workerVars, diskVars, NoFurther
<1>5. CASE Join(w)
  <2>1. step[w] = "fetch" /\ step' = [step EXCEPT ![w] = "assemble"]
        /\ UNCHANGED <<job, mine, ui, look, disk, manifest, record, mixed, crossed, build, todo>>
    BY <1>5 DEF Join, At, Goto, vars, listVars, workerVars, diskVars
  <2> QED
    BY <1>0, <2>1, DiskInside DEF NoFurther
<1>6. ASSUME NEW f \in Files, Create(w, f) PROVE Disk'
  <2>1. step[w] = "assemble" /\ step' = [step EXCEPT ![w] = "write"]
        /\ UNCHANGED <<job, mine, ui, look, disk, manifest, record, mixed, crossed, build, todo>>
    BY <1>6 DEF Create, At, Goto, vars, listVars, workerVars
  <2> QED
    BY <1>0, <2>1, DiskInside DEF NoFurther
<1>17. CASE Scribble(w)
  <2>1. step[w] = "write" /\ UNCHANGED <<job, mine, ui, look, manifest, record, mixed, crossed, build, todo, step>>
    BY <1>17 DEF Scribble, At, vars, listVars, workerVars, localVars
  <2>2. disk' = disk \/ (stream[w] = "file" /\ \E c : disk' = [disk EXCEPT ![Dir(w)][file[w]] = c])
    BY <1>17 DEF Scribble, Puts
  <2> QED
    BY <2>1, <2>2, PutsAside, DiskInside DEF NoFurther
<1>18. CASE Write(w)
  <2>1. step[w] = "write" /\ step' = [step EXCEPT ![w] = "place"]
        /\ UNCHANGED <<job, mine, ui, look, manifest, record, mixed, crossed, build, todo>>
    BY <1>18 DEF Write, At, Goto, vars, listVars, workerVars
  <2>2. disk' = disk \/ (stream[w] = "file" /\ \E c : disk' = [disk EXCEPT ![Dir(w)][file[w]] = c])
    BY <1>18 DEF Write, Puts
  <2> QED
    BY <1>0, <2>1, <2>2, PutsAside, DiskInside DEF NoFurther
<1>19. CASE Place(w)
  BY <1>19, DiskPlace
<1>7. CASE WriteManifest(w)
  BY <1>7, DiskWriteManifest
<1>8. CASE Unmark(w)
  <2>1. step[w] = "unmark" /\ step' = [step EXCEPT ![w] = "record"]
        /\ UNCHANGED <<job, mine, ui, look, disk, manifest, record, mixed, crossed, build, todo>>
    BY <1>8 DEF Unmark, At, Goto, vars, listVars, workerVars
  <2> QED
    BY <1>0, <2>1, DiskInside DEF NoFurther
<1>9. CASE Record(w)
  BY <1>9, DiskRecord
<1>10. CASE Clean(w)
  <2>1. step[w] = "clean" /\ step' = [step EXCEPT ![w] = "done"]
        /\ UNCHANGED <<job, mine, ui, look, disk, manifest, record, mixed, crossed, build, todo>>
    BY <1>10 DEF Clean, At, Goto, vars, listVars, workerVars, diskVars
  <2> QED
    BY <1>0, <2>1, DiskInside DEF NoFurther
<1>11. ASSUME NEW s \in {"complete", "paused", "failed"}, Finish(w, s), Leave(w), look' = look,
              UNCHANGED <<manifest, record, mixed, crossed>>,
              \A d \in Folders : ~crossed[d] => disk'[d] = disk[d]
       PROVE  Disk'
  <2>1. WorkerStep(w) /\ pc[w] # "discard"
    BY <1>11 DEF Finish, Installing, WorkerStep
  <2>2. \A v \in Workers : step'[v] \notin {"idle", "plan"} =>
          v # w /\ step'[v] = step[v] /\ build'[v] = build[v] /\ todo'[v] = todo[v]
    BY <1>0, <1>11 DEF Leave
  <2>3. \A v \in Workers : step'[v] \notin {"idle", "plan"} => Untouched(v)
    BY <1>t, <2>1, <2>2, WorkerTouches
  <2> QED
    BY <1>11, <2>1, <2>2, <2>3, QueueErasers, DiskQueue
<1>12. ASSUME NEW s \in {"paused", "failed"}, Reject(w, s) PROVE Disk'
  <2>1. step[w] = "write" /\ Finish(w, s) /\ Leave(w) /\ UNCHANGED <<look, manifest, record, mixed, crossed>>
    BY <1>12 DEF Reject, At
  <2>2. disk' = disk \/ (stream[w] = "file" /\ \E c : disk' = [disk EXCEPT ![Dir(w)][file[w]] = c])
    BY <1>12 DEF Reject
  <2> QED
    BY <1>11, <2>1, <2>2, PutsAside
<1>13. ASSUME NEW s \in {"complete", "paused", "failed"}, End(w, s) PROVE Disk'
  BY <1>11, <1>13 DEF End, diskVars
<1>14. CASE WorkerLooks(w)
  BY <1>0, <1>14, DiskLook DEF WorkerLooks
<1>15. CASE WorkerErases(w)
  BY <1>0, <1>15, DiskErase DEF WorkerErases
<1>16. CASE WorkerLeaves(w)
  <2>1. WorkerStep(w) /\ pc[w] = "discard" /\ look' = [look EXCEPT ![w] = "no"]
        /\ UNCHANGED <<disk, manifest, record, mixed, crossed, step, build, todo>>
    BY <1>16 DEF WorkerLeaves, Leaves, Discard, WorkerStep, diskVars, localVars
  <2>2. \A v \in Workers : step'[v] \notin {"idle", "plan"} => Untouched(v)
    BY <1>t, <2>1, WorkerTouches
  <2> QED
    BY <2>1, <2>2, QueueErasers, DiskQueue
<1> QED
  BY <1>1, <1>2, <1>3, <1>4, <1>5, <1>6, <1>7, <1>8, <1>9, <1>10, <1>12, <1>13, <1>14, <1>15, <1>16,
     <1>17, <1>18, <1>19
     DEF InstallStep

LEMMA DiskStep ==
  ASSUME TypeOK, Typing, Disk, Parts, [InstallNext]_allVars
  PROVE  Disk'
<1> USE DEF planVars, partVars, history
<1>t. \A w \in Workers : step[w] # "idle" => pc[w] \in Busy
  BY PlanHeld
<1>u. UI \in Threads
  BY DEF Threads
<1>1. CASE QueueOnly
  <2>1. UNCHANGED <<disk, manifest, record, mixed, crossed, step, build, todo, look>>
    BY <1>1 DEF QueueOnly, installVars, diskVars, localVars
  <2>2. CASE UserStep
    <3>1. \A w \in Workers : pc[w] \in Busy => Untouched(w)
      BY <2>2, UserTouches
    <3> QED
      BY <1>t, <2>1, <2>2, <3>1, QueueErasers, DiskQueue
  <2>3. CASE Restart
    <3>1. ui = None /\ \A w \in Workers : pc[w] = "exit"
      BY <2>3 DEF Restart, TypeOK, DownIsEmpty
    <3>2. \A w \in Workers : step[w] = "idle"
      BY <1>t, <3>1 DEF Busy
    <3>3. \A t \in Threads : look[t] = "no"
      BY <3>1 DEF Typing, Plans, Discards, Threads
    <3> QED
      BY <2>1, <3>2, <3>3, DiskQueue
  <2>4. ASSUME NEW w \in Workers, Take(w) \/ Wait(w) \/ Notify(w) \/ Release(w) \/ Exit(w)
        PROVE  Disk'
    <3>1. WorkerStep(w) /\ pc[w] \notin Busy /\ pc[w] # "discard"
      BY <2>4 DEF WorkerStep, Take, Wait, Notify, Release, Exit, Busy
    <3>2. \A v \in Workers : pc[v] \in Busy => Untouched(v)
      BY <3>1, WorkerTouches
    <3> QED
      BY <1>t, <2>1, <3>1, <3>2, QueueErasers, DiskQueue
  <2> QED
    BY <1>1, <2>2, <2>3, <2>4 DEF QueueOnly
<1>2. ASSUME NEW w \in Workers, InstallStep(w) PROVE Disk'
  BY <1>2, DiskInstall
<1>3. CASE UserLooks
  BY <1>3, <1>u, DiskLook DEF UserLooks
<1>4. CASE UserErases
  BY <1>4, <1>u, DiskErase DEF UserErases
<1>5. CASE UserLeaves
  <2>1. RemoveDiscards /\ look' = [look EXCEPT ![UI] = "no"]
        /\ UNCHANGED <<disk, manifest, record, mixed, crossed, step, build, todo>>
    BY <1>5 DEF UserLeaves, Leaves, diskVars, localVars
  <2>2. \A v \in Workers : step[v] # "idle" => Untouched(v)
    BY <1>t, <2>1, UserTouches
  <2> QED
    BY <2>1, <2>2, QueueErasers, DiskQueue
<1>6. ASSUME UNCHANGED <<job, pc, mine, ui, disk, manifest, record, mixed, crossed, step, build, todo, look>>
      PROVE  Disk'
  BY <1>6, DiskQueue DEF Untouched, Discarded
<1>7. ASSUME NEW a \in Apps, NEW b \in Versions, Publish(a, b) PROVE Disk'
  BY <1>6, <1>7 DEF Publish, listVars, workerVars, diskVars, localVars
<1>8. ASSUME NEW s \in Segments, Rot(s) PROVE Disk'
  BY <1>6, <1>8 DEF Rot, listVars, workerVars, diskVars, localVars
<1>9. CASE Ends
  <2>1. \A t \in Threads : look'[t] = "no"
    BY <1>9 DEF Ends
  <2> QED
    BY <1>9, <2>1, DiskQueue DEF Ends, diskVars
<1>10. CASE UNCHANGED allVars
  BY <1>6, <1>10 DEF allVars, vars, listVars, workerVars, installVars, diskVars, localVars
<1> QED
  BY <1>1, <1>2, <1>3, <1>4, <1>5, <1>7, <1>8, <1>9, <1>10 DEF InstallNext

-----------------------------------------------------------------------------
(* The .part files.                                                        *)

\* A worker that has a file has it still, where it had it.
StillHas(d, w) ==
  /\ w \in Inside(d)
  /\ file'[w] = file[w] /\ stream'[w] = stream[w] /\ build'[w] = build[w] /\ step'[w] = step[w]

\* The steps that give nobody a file, and touch none.
LEMMA PartsFrame ==
  ASSUME Parts, UNCHANGED <<disk, part, shared>>,
         \A d \in Folders : crossed[d] => crossed'[d],
         \A d \in Folders : \A w \in Inside(d)' : file'[w] # None => StillHas(d, w)
  PROVE  Parts'
<1>1. SharedOrOwn'
  <2> SUFFICES ASSUME NEW d \in Folders, NEW w \in Inside(d)', file'[w] # None, file[w] \notin shared[d]
               PROVE  Own(d, w)'
    BY DEF SharedOrOwn, StillHas
  <2>1. StillHas(d, w) /\ Own(d, w)
    BY DEF Parts, SharedOrOwn, StillHas
  <2> QED
    BY <2>1 DEF StillHas, Own
<1> QED
  BY <1>1 DEF Parts, SharedIsCrossed, OnlyOfferedFiles, Offered

\* The steps on one file touch no other, and the workers on others have them still.
Touches(d, f) ==
  /\ disk' = disk \/ \E c : disk' = [disk EXCEPT ![d][f] = c]
  /\ part' = part \/ \E c : part' = [part EXCEPT ![d][f] = c]

OthersHave(d, f) ==
  \A x \in Folders : \A u \in Inside(x)' : file'[u] # None => (x = d /\ file'[u] = f) \/ StillHas(x, u)

\* It is for them to show that it is all right, unless two workers had it.
AllRight(d, f) ==
  d \in Folders /\ f \in Files /\ f \notin shared'[d] =>
    /\ \A u \in Inside(d)' : file'[u] = f => Own(d, u)'
    /\ disk'[d][f] # None => \E b \in Offered(d) : disk'[d][f] = Content[b][f]

LEMMA PartsLocal ==
  ASSUME Parts, FilesTyped, AssemblyTypes', NEW d, NEW f, Touches(d, f), OthersHave(d, f), AllRight(d, f),
         \A x \in Folders : shared[x] \subseteq shared'[x]
  PROVE  SharedOrOwn' /\ OnlyOfferedFiles'
<1>0. \A x \in Folders, g \in Files :
        (x = d /\ g = f) \/ (disk'[x][g] = disk[x][g] /\ part'[x][g] = part[x][g])
  BY DEF Touches, FilesTyped
<1>1. SharedOrOwn'
  <2> SUFFICES ASSUME NEW x \in Folders, NEW u \in Inside(x)', file'[u] # None, file'[u] \notin shared'[x]
               PROVE  Own(x, u)'
    BY DEF SharedOrOwn
  <2>1. file'[u] \in Files
    BY DEF AssemblyTypes, Inside
  <2>2. CASE x = d /\ file'[u] = f
    BY <2>1, <2>2 DEF AllRight
  <2>3. CASE ~(x = d /\ file'[u] = f)
    <3>1. StillHas(x, u) /\ Own(x, u)
      BY <2>3 DEF OthersHave, Parts, SharedOrOwn, StillHas
    <3>2. part'[x][file[u]] = part[x][file[u]]
      BY <1>0, <2>1, <2>3, <3>1 DEF StillHas
    <3>3. \A v \in Inside(x)' : file'[v] = file'[u] => v = u
      BY <2>3, <3>1 DEF OthersHave, StillHas, Own
    <3> QED
      BY <3>1, <3>2, <3>3 DEF StillHas, Own
  <2> QED
    BY <2>2, <2>3
<1>2. OnlyOfferedFiles'
  <2> SUFFICES ASSUME NEW x \in Folders, NEW g \in Files, g \notin shared'[x], disk'[x][g] # None
               PROVE  \E b \in Offered(x) : disk'[x][g] = Content[b][g]
    BY DEF OnlyOfferedFiles, Offered
  <2>1. CASE x = d /\ g = f
    BY <2>1 DEF AllRight
  <2>2. CASE ~(x = d /\ g = f)
    BY <1>0, <2>2 DEF Parts, OnlyOfferedFiles
  <2> QED
    BY <2>1, <2>2
<1> QED
  BY <1>1, <1>2

\* The streams of the workers on other files stay.
LEMMA OtherStreams ==
  ASSUME NEW d, NEW f, NEW u \in Workers, ~(Dir(u) = d /\ file[u] = f)
  PROVE  /\ Joined(d, f)[u] = stream[u] /\ Renamed(d, f)[u] = stream[u]
         /\ PartGone(d, f)[u] = stream[u] /\ FileGone(d, f)[u] = stream[u]
<1>1. u \notin Assembling(d, f) /\ u \notin Writing(d, f)
  BY DEF Assembling, Writing
<1> QED
  BY <1>1 DEF Joined, Renamed, PartGone, FileGone

LEMMA PartsCreate ==
  ASSUME TypeOK, Typing, Typing', Disk, Parts, NEW w \in Workers, NEW f \in Files, Create(w, f)
  PROVE  Parts'
<1>d. PICK d : d = Dir(w)
  OBVIOUS
<1>0. FilesTyped /\ AssemblyTypes /\ AssemblyTypes' /\ step \in [Workers -> Steps]
      /\ todo \in [Workers -> SUBSET Files]
  BY TypingNow DEF Typing, InstallTypeOK
<1>1. /\ step[w] = "assemble" /\ step' = [step EXCEPT ![w] = "write"]
      /\ UNCHANGED <<job, mine, ui, look, disk, crossed, build>>
      /\ file' = [file EXCEPT ![w] = f]
      /\ part' = [part EXCEPT ![d][f] = Garbage]
      /\ stream' = [Joined(d, f) EXCEPT ![w] = IF Writing(d, f) = {} THEN "alone" ELSE "shared"]
      /\ shared' = [shared EXCEPT ![d] = IF Assembling(d, f) = {} THEN @ ELSE @ \union {f}]
  BY <1>d DEF Create, At, Goto, vars, listVars, workerVars, planVars
<1>2. \A x \in Folders : Inside(x)' = Inside(x)
  BY <1>0, <1>1, InsideStays
<1>3. w \in Inside(d) /\ file[w] = None /\ f # None
  BY <1>d, <1>0, <1>1, InstallAssumption DEF Inside, AssemblyTypes
<1>4. \A v \in Assembling(d, f) : v \in Inside(d) /\ v # w
  BY <1>0, <1>3, InstallAssumption DEF Assembling, AssemblyTypes, Inside
<1>5. stream' \in [Workers -> Streams] /\ Joined(d, f) \in [Workers -> Streams]
  BY <1>0, StreamsMove DEF AssemblyTypes
<1>6. Touches(d, f)
  BY <1>1 DEF Touches
<1>7. \A x \in Folders : shared[x] \subseteq shared'[x] /\ (x # d => shared'[x] = shared[x])
  BY <1>0, <1>1 DEF FilesTyped
<1>8. d \in Folders => shared'[d] = IF Assembling(d, f) = {} THEN shared[d] ELSE shared[d] \union {f}
  BY <1>0, <1>1 DEF FilesTyped
<1>9. OthersHave(d, f)
  <2> SUFFICES ASSUME NEW x \in Folders, NEW u \in Inside(x)', file'[u] # None, ~(x = d /\ file'[u] = f)
               PROVE  StillHas(x, u)
    BY DEF OthersHave
  <2>0. u \in Inside(x)
    BY <1>2
  <2>1. u \in Workers /\ u # w
    BY <1>d, <1>0, <1>1, <2>0 DEF Inside, AssemblyTypes
  <2>2. file'[u] = file[u] /\ step'[u] = step[u] /\ stream'[u] = Joined(d, f)[u]
    BY <1>0, <1>1, <1>5, <2>1 DEF AssemblyTypes
  <2>3. Joined(d, f)[u] = stream[u]
    BY <2>0, <2>2, OtherStreams DEF Inside
  <2> QED
    BY <1>1, <2>0, <2>2, <2>3 DEF StillHas
<1>10. AllRight(d, f)
  <2> SUFFICES ASSUME d \in Folders, f \in Files, f \notin shared'[d]
               PROVE  /\ \A u \in Inside(d)' : file'[u] = f => Own(d, u)'
                      /\ disk'[d][f] # None => \E b \in Offered(d) : disk'[d][f] = Content[b][f]
    BY DEF AllRight
  <2>1. Assembling(d, f) = {} /\ f \notin shared[d]
    BY <1>8
  <2>2. \A u \in Inside(d)' : file'[u] = f => u = w
    BY <1>d, <1>0, <1>1, <1>2, <2>1 DEF Assembling, AssemblyTypes, Inside
  <2>3. stream'[w] = "alone" /\ step'[w] = "write" /\ file'[w] = f
    BY <1>0, <1>1, <1>5, <2>1 DEF Writing, AssemblyTypes
  <2>4. Own(d, w)'
    BY <2>2, <2>3 DEF Own
  <2>5. disk'[d][f] # None => \E b \in Offered(d) : disk'[d][f] = Content[b][f]
    BY <1>1, <2>1 DEF Parts, OnlyOfferedFiles
  <2> QED
    BY <2>2, <2>4, <2>5
<1>11. SharedOrOwn' /\ OnlyOfferedFiles'
  BY <1>0, <1>2, <1>6, <1>7, <1>9, <1>10, PartsLocal
<1>12. SharedIsCrossed'
  <2>1. d \in Folders /\ Assembling(d, f) # {} => crossed[d]
    BY <1>3, <1>4 DEF Disk, Alone
  <2> QED
    BY <1>1, <1>7, <1>8, <2>1 DEF Parts, SharedIsCrossed
<1> QED
  BY <1>11, <1>12 DEF Parts

\* One who puts the file he has in order, or spoils it, moves no stream of others.
LEMMA PartsPut ==
  ASSUME TypeOK, Typing, Typing', Parts, NEW w \in Workers, Scribble(w) \/ Write(w)
  PROVE  Parts'
<1>d. PICK d, f, s : d = Dir(w) /\ f = file[w] /\ s = Content[build[w]][f]
  OBVIOUS
<1>0. FilesTyped /\ AssemblyTypes /\ AssemblyTypes' /\ step \in [Workers -> Steps]
      /\ todo \in [Workers -> SUBSET Files]
  BY TypingNow DEF Typing, InstallTypeOK
<1>1. /\ step[w] = "write" /\ step'[w] \notin {"idle", "plan"}
      /\ \A v \in Workers \ {w} : step'[v] = step[v] /\ stream'[v] = stream[v]
      /\ UNCHANGED <<job, mine, ui, look, crossed, build, shared, file>>
      /\ part' = part \/ \E c : part' = [part EXCEPT ![d][f] = c]
      /\ disk' = disk \/ (stream[w] = "file" /\ \E c : disk' = [disk EXCEPT ![d][f] = c])
  BY <1>d, <1>0 DEF Scribble, Write, Puts, At, Goto, vars, listVars, workerVars, localVars, planVars, partVars,
              history, AssemblyTypes
<1>2. \A x \in Folders : Inside(x)' = Inside(x)
  BY <1>1, InsideStays
<1>3. w \in Inside(d) /\ f # None
  BY <1>d, <1>0, <1>1, InstallAssumption DEF Inside, AssemblyTypes
<1>4. Touches(d, f)
  BY <1>1 DEF Touches
<1>5. OthersHave(d, f)
  BY <1>d, <1>1, <1>2 DEF OthersHave, StillHas, Inside
<1>6. AllRight(d, f)
  <2> SUFFICES ASSUME d \in Folders, f \in Files, f \notin shared'[d]
               PROVE  /\ \A u \in Inside(d)' : file'[u] = f => Own(d, u)'
                      /\ disk'[d][f] # None => \E b \in Offered(d) : disk'[d][f] = Content[b][f]
    BY DEF AllRight
  <2>1. Own(d, w) /\ f \in Files /\ f \notin shared[d]
    BY <1>d, <1>0, <1>1, <1>3 DEF Parts, SharedOrOwn, AssemblyTypes
  <2>2. stream[w] = "alone" \/ (stream[w] = "lost" /\ part[d][f] = None)
    BY <1>d, <1>1, <2>1 DEF Own
  <2>3. disk' = disk
    BY <1>1, <2>2
  <2>4. Write(w)
    BY <2>2 DEF Scribble
  <2>5. step'[w] = "place" /\ (Puts(w, {s}) \/ (stream[w] = "lost" /\ part' = part))
    BY <1>d, <1>0, <2>2, <2>4 DEF Write, Goto, Verified, Puts, OnPart
  <2>6. part'[d][f] \in {None, s}
    BY <1>d, <1>0, <2>1, <2>2, <2>5 DEF Puts, OnPart, FilesTyped
  <2>7. \A u \in Inside(d)' : file'[u] = f => u = w
    BY <1>d, <1>1, <1>2, <2>1 DEF Own
  <2>8. Own(d, w)'
    BY <1>d, <1>1, <2>5, <2>6, <2>7 DEF Own
  <2>9. disk'[d][f] # None => \E b \in Offered(d) : disk'[d][f] = Content[b][f]
    BY <2>1, <2>3 DEF Parts, OnlyOfferedFiles
  <2> QED
    BY <2>7, <2>8, <2>9
<1>7. \A x \in Folders : shared[x] \subseteq shared'[x]
  BY <1>1
<1>8. SharedOrOwn' /\ OnlyOfferedFiles'
  BY <1>0, <1>2, <1>4, <1>5, <1>6, <1>7, PartsLocal
<1> QED
  BY <1>1, <1>8 DEF Parts, SharedIsCrossed

LEMMA PartsPlace ==
  ASSUME TypeOK, Typing, Typing', Parts, NEW w \in Workers, Place(w)
  PROVE  Parts'
<1>d. PICK d, f : d = Dir(w) /\ f = file[w]
  OBVIOUS
<1>0. FilesTyped /\ AssemblyTypes /\ AssemblyTypes' /\ step \in [Workers -> Steps]
      /\ todo \in [Workers -> SUBSET Files]
  BY TypingNow DEF Typing, InstallTypeOK
<1>1. /\ step[w] = "place" /\ step' = [step EXCEPT ![w] = "assemble"]
      /\ UNCHANGED <<job, mine, ui, look, crossed, build, shared>>
      /\ file' = [file EXCEPT ![w] = None] /\ stream' = Renamed(d, f)
      /\ part[d][f] # None /\ part' = [part EXCEPT ![d][f] = None]
      /\ disk' = [disk EXCEPT ![d][f] = part[d][f]]
  BY <1>d DEF Place, At, Goto, vars, listVars, workerVars
<1>2. \A x \in Folders : Inside(x)' = Inside(x)
  BY <1>0, <1>1, InsideStays
<1>3. w \in Inside(d) /\ f # None
  BY <1>d, <1>0, <1>1, InstallAssumption DEF Inside, AssemblyTypes
<1>4. Touches(d, f)
  BY <1>1 DEF Touches
<1>5. OthersHave(d, f)
  <2> SUFFICES ASSUME NEW x \in Folders, NEW u \in Inside(x)', file'[u] # None, ~(x = d /\ file'[u] = f)
               PROVE  StillHas(x, u)
    BY DEF OthersHave
  <2>0. u \in Inside(x)
    BY <1>2
  <2>1. u \in Workers /\ u # w
    BY <1>d, <1>0, <1>1, <2>0 DEF Inside, AssemblyTypes
  <2>2. file'[u] = file[u] /\ step'[u] = step[u]
    BY <1>0, <1>1, <2>1 DEF AssemblyTypes
  <2>3. stream'[u] = stream[u]
    BY <1>1, <2>0, <2>2, OtherStreams DEF Inside
  <2> QED
    BY <1>1, <2>0, <2>2, <2>3 DEF StillHas
<1>6. AllRight(d, f)
  <2> SUFFICES ASSUME d \in Folders, f \in Files, f \notin shared'[d]
               PROVE  /\ \A u \in Inside(d)' : file'[u] = f => Own(d, u)'
                      /\ disk'[d][f] # None => \E b \in Offered(d) : disk'[d][f] = Content[b][f]
    BY DEF AllRight
  <2>1. Own(d, w) /\ f \in Files
    BY <1>d, <1>0, <1>1, <1>3 DEF Parts, SharedOrOwn, AssemblyTypes
  <2>2. part[d][f] = Content[build[w]][f]
    BY <1>d, <1>1, <2>1 DEF Own
  <2>3. disk'[d][f] = Content[build[w]][f]
    BY <1>0, <1>1, <2>1, <2>2 DEF FilesTyped
  <2>4. build[w] \in Offered(d)
    BY <1>d, <1>1, PlanHeld
  <2>5. \A u \in Inside(d)' : file'[u] # f
    BY <1>d, <1>0, <1>1, <1>2, <1>3, <2>1 DEF Own, AssemblyTypes
  <2> QED
    BY <2>3, <2>4, <2>5
<1>7. \A x \in Folders : shared[x] \subseteq shared'[x]
  BY <1>1
<1>8. SharedOrOwn' /\ OnlyOfferedFiles'
  BY <1>0, <1>2, <1>4, <1>5, <1>6, <1>7, PartsLocal
<1> QED
  BY <1>1, <1>8 DEF Parts, SharedIsCrossed

LEMMA PartsReject ==
  ASSUME TypeOK, Typing, Typing', Parts, NEW w \in Workers, NEW s \in {"paused", "failed"}, Reject(w, s)
  PROVE  Parts'
<1>d. PICK d, f : d = Dir(w) /\ f = file[w]
  OBVIOUS
<1>0. FilesTyped /\ AssemblyTypes /\ AssemblyTypes' /\ step \in [Workers -> Steps]
      /\ todo \in [Workers -> SUBSET Files]
  BY TypingNow DEF Typing, InstallTypeOK
<1>1. /\ step[w] = "write" /\ Finish(w, s) /\ step' = [step EXCEPT ![w] = "idle"]
      /\ \A v \in Workers \ {w} : build'[v] = build[v]
      /\ UNCHANGED <<look, crossed, shared>>
      /\ file' = [file EXCEPT ![w] = None] /\ stream' = [PartGone(d, f) EXCEPT ![w] = "none"]
      /\ part' = [part EXCEPT ![d][f] = None]
      /\ disk' = disk \/ (stream[w] = "file" /\ \E c : disk' = [disk EXCEPT ![d][f] = c])
  <2>1. step[w] = "write" /\ Finish(w, s) /\ Leave(w) /\ UNCHANGED <<look, crossed, shared>>
        /\ stream' = [PartGone(d, f) EXCEPT ![w] = "none"] /\ part' = [part EXCEPT ![d][f] = None]
    BY <1>d DEF Reject, At, history
  <2>2. disk' = disk \/ (stream[w] = "file" /\ disk' = [disk EXCEPT ![d][f] = Garbage])
    BY <1>d DEF Reject
  <2>3. \A v \in Workers \ {w} : build'[v] = build[v]
    BY <2>1 DEF Leave, Typing, Plans
  <2> QED
    BY <2>1, <2>2, <2>3 DEF Leave
<1>2. \A x \in Folders : \A u \in Inside(x)' : u \in Inside(x) /\ u # w
  <2>1. WorkerStep(w)
    BY <1>1 DEF Finish, WorkerStep
  <2>2. \A u \in Workers : step'[u] \notin {"idle", "plan"} => u # w /\ step'[u] = step[u]
    BY <1>0, <1>1
  <2>3. \A u \in Workers : step'[u] \notin {"idle", "plan"} => Untouched(u)
    BY <2>1, <2>2, PlanHeld, WorkerTouches
  <2>4. \A u \in Workers : step'[u] \notin {"idle", "plan"} => Dir(u)' = Dir(u)
    BY <2>3 DEF Untouched, Dir
  <2> QED
    BY <2>2, <2>4 DEF Inside
<1>3. w \in Inside(d) /\ f # None
  BY <1>d, <1>0, <1>1, InstallAssumption DEF Inside, AssemblyTypes
<1>4. Touches(d, f)
  BY <1>1 DEF Touches
<1>5. OthersHave(d, f)
  <2> SUFFICES ASSUME NEW x \in Folders, NEW u \in Inside(x)', file'[u] # None, ~(x = d /\ file'[u] = f)
               PROVE  StillHas(x, u)
    BY DEF OthersHave
  <2>1. u \in Workers /\ u # w /\ u \in Inside(x)
    BY <1>2 DEF Inside
  <2>2. PartGone(d, f) \in [Workers -> Streams]
    BY <1>0, StreamsMove
  <2>3. file'[u] = file[u] /\ step'[u] = step[u] /\ stream'[u] = PartGone(d, f)[u]
    BY <1>0, <1>1, <2>1, <2>2 DEF AssemblyTypes
  <2>4. PartGone(d, f)[u] = stream[u]
    BY <2>1, <2>3, OtherStreams DEF Inside
  <2> QED
    BY <1>1, <2>1, <2>3, <2>4 DEF StillHas
<1>6. AllRight(d, f)
  <2> SUFFICES ASSUME d \in Folders, f \in Files, f \notin shared'[d]
               PROVE  /\ \A u \in Inside(d)' : file'[u] = f => Own(d, u)'
                      /\ disk'[d][f] # None => \E b \in Offered(d) : disk'[d][f] = Content[b][f]
    BY DEF AllRight
  <2>1. Own(d, w) /\ f \in Files
    BY <1>d, <1>0, <1>1, <1>3 DEF Parts, SharedOrOwn, AssemblyTypes
  <2>2. disk' = disk
    BY <1>1, <2>1 DEF Own
  <2>3. \A u \in Inside(d)' : file'[u] # f
    BY <1>d, <1>0, <1>1, <1>2, <1>3, <2>1 DEF Own, AssemblyTypes, Inside
  <2>4. disk'[d][f] # None => \E b \in Offered(d) : disk'[d][f] = Content[b][f]
    BY <1>1, <2>1, <2>2 DEF Parts, OnlyOfferedFiles
  <2> QED
    BY <2>3, <2>4
<1>7. \A x \in Folders : shared[x] \subseteq shared'[x]
  BY <1>1
<1>8. SharedOrOwn' /\ OnlyOfferedFiles'
  BY <1>0, <1>4, <1>5, <1>6, <1>7, PartsLocal
<1> QED
  BY <1>1, <1>8 DEF Parts, SharedIsCrossed

\* A discard loses files and streams, and puts nothing in their place.
LEMMA PartsErase ==
  ASSUME TypeOK, Typing, Typing', Parts, NEW t \in Threads, Erase(t)
  PROVE  Parts'
<1>d. PICK d : d = FolderOf(job[Discarded(t)])
  OBVIOUS
<1>0. FilesTyped /\ AssemblyTypes /\ AssemblyTypes'
  BY TypingNow DEF Typing, InstallTypeOK
<1>1. UNCHANGED <<job, mine, ui, look, crossed, build, shared, file, step>>
  BY DEF Erase, vars, listVars, workerVars, planVars, history
<1>2. \A x \in Folders : Inside(x)' = Inside(x)
  BY <1>1, StillPlaces DEF Inside
<1>3. ASSUME NEW f \in Files,
             \/ /\ disk' = [disk EXCEPT ![d][f] = None] /\ part' = part /\ stream' = FileGone(d, f)
             \/ /\ part' = [part EXCEPT ![d][f] = None] /\ disk' = disk /\ stream' = PartGone(d, f)
      PROVE  Parts'
  <2>1. Touches(d, f)
    BY <1>3 DEF Touches
  <2>2. OthersHave(d, f)
    <3> SUFFICES ASSUME NEW x \in Folders, NEW u \in Inside(x)', ~(x = d /\ file'[u] = f) PROVE StillHas(x, u)
      BY DEF OthersHave
    <3>1. u \in Inside(x) /\ u \in Workers /\ ~(Dir(u) = d /\ file[u] = f)
      BY <1>1, <1>2 DEF Inside
    <3>2. stream'[u] = stream[u]
      BY <1>3, <3>1, OtherStreams
    <3> QED
      BY <1>1, <3>1, <3>2 DEF StillHas
  <2>3. AllRight(d, f)
    <3> SUFFICES ASSUME d \in Folders, f \in Files, f \notin shared'[d]
                 PROVE  /\ \A u \in Inside(d)' : file'[u] = f => Own(d, u)'
                        /\ disk'[d][f] # None => \E b \in Offered(d) : disk'[d][f] = Content[b][f]
      BY DEF AllRight
    <3>1. ASSUME NEW u \in Inside(d)', file'[u] = f PROVE Own(d, u)'
      <4>1. u \in Inside(d) /\ u \in Workers /\ file[u] = f /\ f # None
        BY <1>1, <1>2, <3>1, InstallAssumption DEF Inside
      <4>2. Own(d, u)
        BY <1>1, <4>1 DEF Parts, SharedOrOwn
      <4>3. \A v \in Inside(d)' : file'[v] = file'[u] => v = u
        BY <1>1, <1>2, <4>2 DEF Own
      <4>4. CASE part' = part /\ stream' = FileGone(d, f)
        <5>1. step[u] = "write" => stream'[u] = stream[u]
          BY <4>1, <4>2, <4>4 DEF Own, FileGone
        <5> QED
          BY <1>1, <4>2, <4>3, <4>4, <5>1 DEF Own
      <4>5. CASE part' = [part EXCEPT ![d][f] = None] /\ stream' = PartGone(d, f)
        <5>1. part'[d][f] = None
          BY <1>0, <4>5 DEF FilesTyped
        <5>2. u \in Assembling(d, f)
          BY <4>1 DEF Assembling, Inside
        <5>3. step[u] = "write" => stream'[u] = "lost"
          BY <4>1, <4>2, <4>5, <5>2 DEF Own, PartGone, Writing, OnPart
        <5> QED
          BY <1>1, <4>1, <4>3, <5>1, <5>3 DEF Own
      <4> QED
        BY <1>3, <4>4, <4>5
    <3>2. disk'[d][f] = None \/ disk' = disk
      BY <1>0, <1>3 DEF FilesTyped
    <3>3. disk'[d][f] # None => \E b \in Offered(d) : disk'[d][f] = Content[b][f]
      BY <1>1, <3>2 DEF Parts, OnlyOfferedFiles
    <3> QED
      BY <3>1, <3>3
  <2>4. \A x \in Folders : shared[x] \subseteq shared'[x]
    BY <1>1
  <2>5. SharedOrOwn' /\ OnlyOfferedFiles'
    BY <1>0, <2>1, <2>2, <2>3, <2>4, PartsLocal
  <2> QED
    BY <1>1, <2>5 DEF Parts, SharedIsCrossed
<1>4. ASSUME UNCHANGED <<disk, part, stream>> PROVE Parts'
  BY <1>1, <1>2, <1>4, PartsFrame DEF StillHas
<1> QED
  BY <1>d, <1>3, <1>4 DEF Erase

\* The steps of the threads and of the queue around the assembly of a file.
LEMMA PartsQueue ==
  ASSUME TypeOK, Typing, Typing', Parts, UNCHANGED <<disk, part, shared>>,
         \A d \in Folders : crossed[d] => crossed'[d],
         \A w \in Workers : file'[w] # None =>
            /\ pc[w] \in Busy => Untouched(w)
            /\ file'[w] = file[w] /\ stream'[w] = stream[w] /\ build'[w] = build[w] /\ step'[w] = step[w]
  PROVE  Parts'
<1>1. ASSUME NEW d \in Folders, NEW w \in Inside(d)', file'[w] # None PROVE StillHas(d, w)
  <2>1. w \in Workers /\ step'[w] \notin {"idle", "plan"} /\ Dir(w)' = d
    BY DEF Inside
  <2>2. step[w] \notin {"idle", "plan"}
    BY <1>1, <2>1
  <2>3. Dir(w)' = Dir(w)
    BY <1>1, <2>1, <2>2, PlanHeld DEF Untouched, Dir
  <2> QED
    BY <1>1, <2>1, <2>2, <2>3 DEF StillHas, Inside
<1> QED
  BY <1>1, PartsFrame

LEMMA PartsInstall ==
  ASSUME TypeOK, Typing, Typing', Disk, Parts, NEW w \in Workers, InstallStep(w)
  PROVE  Parts'
<1> USE DEF At, Goto, planVars, partVars, history, diskVars
<1>0. AssemblyTypes /\ step \in [Workers -> Steps] /\ build \in [Workers -> Versions \union {None}]
      /\ crossed \in [Folders -> BOOLEAN] /\ UI \notin Workers
  BY InstallAssumption DEF Typing, Plans, InstallTypeOK
<1>1. ASSUME file'[w] = None, UNCHANGED <<disk, part, shared>>,
             \A d \in Folders : crossed[d] => crossed'[d],
             WorkerStep(w) \/ UNCHANGED vars,
             \A v \in Workers \ {w} : /\ file'[v] = file[v] /\ stream'[v] = stream[v]
                                      /\ build'[v] = build[v] /\ step'[v] = step[v]
      PROVE  Parts'
  <2>1. \A v \in Workers \ {w} : pc[v] \in Busy => Untouched(v)
    BY <1>1, WorkerTouches DEF vars, listVars, workerVars, Untouched
  <2> QED
    BY <1>1, <2>1, PartsQueue
<1>2. step[w] \notin {"write", "place"} => file[w] = None
  BY <1>0 DEF AssemblyTypes
<1>3. CASE GetPlan(w)
  <2>1. WorkerStep(w) /\ step' = [step EXCEPT ![w] = "plan"] /\ step[w] = "idle"
        /\ UNCHANGED <<disk, part, shared, crossed, file, stream>>
        /\ \A v \in Workers \ {w} : build'[v] = build[v]
    BY <1>0, <1>3 DEF GetPlan, WorkerStep
  <2> QED
    BY <1>0, <1>1, <1>2, <2>1
<1>4. CASE Open(w)
  <2>1. WorkerStep(w) /\ step' = [step EXCEPT ![w] = "open"] /\ step[w] = "plan"
        /\ UNCHANGED <<disk, part, shared, file, stream, build>>
        /\ \A d \in Folders : crossed[d] => crossed'[d]
    BY <1>0, <1>4 DEF Open, WorkerStep
  <2> QED
    BY <1>0, <1>1, <1>2, <2>1
<1>5. CASE Scan(w)
  <2>1. WorkerStep(w) /\ step' = [step EXCEPT ![w] = "fetch"] /\ step[w] = "open"
        /\ UNCHANGED <<disk, part, shared, crossed, file, stream, build>>
    BY <1>5 DEF Scan, WorkerStep
  <2> QED
    BY <1>0, <1>1, <1>2, <2>1
<1>6. CASE (\E s \in Segments : Download(w, s)) \/ Join(w) \/ WriteManifest(w) \/ Unmark(w) \/ Record(w) \/ Clean(w)
  <2>1. step[w] \notin {"write", "place"}
        /\ UNCHANGED <<vars, disk, part, shared, crossed, file, stream, build>>
        /\ \A v \in Workers \ {w} : step'[v] = step[v]
    BY <1>0, <1>6 DEF Download, Join, WriteManifest, Unmark, Record, Clean
  <2> QED
    BY <1>1, <1>2, <2>1
<1>7. CASE \E f \in Files : Create(w, f)
  BY <1>7, PartsCreate
<1>8. CASE Scribble(w) \/ Write(w)
  BY <1>8, PartsPut
<1>9. CASE Place(w)
  BY <1>9, PartsPlace
<1>10. CASE \E s \in {"paused", "failed"} : Reject(w, s)
  BY <1>10, PartsReject
<1>11. CASE \E s \in {"complete", "paused", "failed"} : End(w, s)
  <2>1. WorkerStep(w) /\ Leave(w) /\ stream' = [stream EXCEPT ![w] = "none"]
        /\ UNCHANGED <<disk, part, shared, crossed>>
    BY <1>11 DEF End, Finish, WorkerStep
  <2> QED
    BY <1>0, <1>1, <2>1 DEF Leave, AssemblyTypes
<1>12. CASE WorkerLooks(w)
  <2>1. UNCHANGED <<vars, disk, part, shared, file, stream, build, step>> /\ \A d \in Folders : crossed[d] => crossed'[d]
    BY <1>0, <1>12 DEF WorkerLooks, LookAt, localVars
  <2> QED
    BY <2>1, PartsQueue DEF vars, listVars, workerVars, Untouched
<1>13. CASE WorkerErases(w)
  BY <1>13, PartsErase DEF WorkerErases, Threads
<1>14. CASE WorkerLeaves(w)
  <2>1. WorkerStep(w) /\ pc[w] = "discard" /\ UNCHANGED <<disk, part, shared, crossed, file, stream, build, step>>
    BY <1>14 DEF WorkerLeaves, Leaves, Discard, WorkerStep, localVars
  <2>2. step[w] = "idle"
    BY <2>1, PlanHeld DEF Installing
  <2> QED
    BY <1>1, <1>2, <2>1, <2>2
<1> QED
  BY <1>3, <1>4, <1>5, <1>6, <1>7, <1>8, <1>9, <1>10, <1>11, <1>12, <1>13, <1>14 DEF InstallStep

LEMMA PartsStep ==
  ASSUME TypeOK, Typing, Typing', Disk, Parts, [InstallNext]_allVars
  PROVE  Parts'
<1> USE DEF planVars, partVars, history, diskVars, localVars
<1>1. ASSUME UNCHANGED <<disk, part, shared, crossed, file, stream, build, step>>,
             \A w \in Workers : pc[w] \in Busy /\ file[w] # None => Untouched(w)
      PROVE  Parts'
  BY <1>1, PartsQueue
<1>2. CASE QueueOnly
  <2>1. UNCHANGED <<disk, part, shared, crossed, file, stream, build, step>>
    BY <1>2 DEF QueueOnly, installVars
  <2>2. CASE UserStep
    BY <1>1, <2>1, <2>2, UserTouches
  <2>3. CASE Restart
    <3>1. \A w \in Workers : pc[w] \notin Busy
      BY <2>3 DEF Restart, TypeOK, DownIsEmpty, Busy
    <3> QED
      BY <1>1, <2>1, <3>1
  <2>4. ASSUME NEW w \in Workers, Take(w) \/ Wait(w) \/ Notify(w) \/ Release(w) \/ Exit(w)
        PROVE  Parts'
    <3>1. WorkerStep(w) /\ pc[w] \notin Busy
      BY <2>4 DEF WorkerStep, Take, Wait, Notify, Release, Exit, Busy
    <3> QED
      BY <1>1, <2>1, <3>1, WorkerTouches
  <2> QED
    BY <1>2, <2>2, <2>3, <2>4 DEF QueueOnly
<1>3. ASSUME NEW w \in Workers, InstallStep(w) PROVE Parts'
  BY <1>3, PartsInstall
<1>4. CASE UserLooks
  <2>1. UNCHANGED <<vars, disk, part, shared, file, stream, build, step>>
    BY <1>4 DEF UserLooks, LookAt
  <2>2. \A d \in Folders : crossed[d] => crossed'[d]
    BY <1>4 DEF UserLooks, LookAt, Typing, InstallTypeOK
  <2> QED
    BY <2>1, <2>2, PartsQueue DEF vars, listVars, workerVars, Untouched
<1>5. CASE UserErases
  BY <1>5, PartsErase DEF UserErases, Threads
<1>6. CASE UserLeaves
  <2>1. RemoveDiscards /\ UNCHANGED <<disk, part, shared, crossed, file, stream, build, step>>
    BY <1>6 DEF UserLeaves, Leaves
  <2> QED
    BY <1>1, <2>1, UserTouches
<1>7. ASSUME UNCHANGED <<job, pc, mine, disk, part, shared, crossed, file, stream, build, step>> PROVE Parts'
  BY <1>1, <1>7 DEF Untouched
<1>8. CASE (\E a \in Apps, b \in Versions : Publish(a, b)) \/ \E s \in Segments : Rot(s)
  BY <1>7, <1>8 DEF Publish, Rot, listVars, workerVars
<1>9. CASE Ends
  <2>1. \A w \in Workers : file'[w] = None
    BY <1>9 DEF Ends
  <2> QED
    BY <1>9, <2>1, PartsQueue DEF Ends
<1>10. CASE UNCHANGED allVars
  BY <1>7, <1>10 DEF allVars, vars, listVars, workerVars, installVars
<1> QED
  BY <1>2, <1>3, <1>4, <1>5, <1>6, <1>8, <1>9, <1>10 DEF InstallNext

-----------------------------------------------------------------------------
(* The theorems.                                                           *)

LEMMA InstallStarts == InstallInit => TypeOK /\ Work /\ Typing /\ Disk /\ Parts
<1> SUFFICES ASSUME InstallInit PROVE TypeOK /\ Work /\ Typing /\ Disk /\ Parts
  OBVIOUS
<1>1. TypeOK /\ Work
  BY TypeInit, WorkInit DEF InstallInit
<1>2. /\ step = [w \in Workers |-> "idle"] /\ build = [w \in Workers |-> None]
      /\ look = [t \in Threads |-> "no"]
  BY DEF InstallInit
<1>3. InstallTypeOK
  <2>1. newest \in [Apps -> Versions]
    BY DEF InstallInit
  <2> QED
    BY <1>2, <2>1 DEF InstallInit, InstallTypeOK, AssemblyTypes, Empty, Steps, Streams
<1>4. Plans
  BY <1>2 DEF InstallInit, Plans
<1>5. \A d \in Folders : Inside(d) = {} /\ Erasers(d) = {}
  BY <1>2 DEF Inside, Erasers
<1>6. Disk
  BY <1>5 DEF InstallInit, Disk, Alone, ErasedIsUnfinished, RestIsRight, ManifestFirst,
              InstalledIsComplete, RecordedIsInstalled, Empty
<1>7. Parts
  BY <1>5 DEF InstallInit, Parts, SharedOrOwn, SharedIsCrossed, OnlyOfferedFiles, Empty
<1> QED
  BY <1>1, <1>3, <1>4, <1>6, <1>7 DEF Typing

LEMMA InstallAlways == InstallSpec => [](TypeOK /\ Work /\ Typing /\ Disk /\ Parts)
<1>1. TypeOK /\ Work /\ Typing /\ Disk /\ Parts /\ [InstallNext]_allVars
      => (TypeOK /\ Work /\ Typing /\ Disk /\ Parts)'
  BY QueueKeeps, TypingStep, DiskStep, PartsStep
<1> QED
  BY <1>1, InstallStarts, PTL DEF InstallSpec

\* Every variable of the folders and of the threads in them keeps to its type.
THEOREM InstallTyped == InstallSpec => []InstallTypeOK
<1>1. Typing => InstallTypeOK
  BY DEF Typing
<1> QED
  BY <1>1, InstallAlways, PTL

\* A file of a game is always a whole file of a build the folder was offered,
\* unless two workers assembled that file at one time.
THEOREM OfferedFiles == InstallSpec => []OnlyOfferedFiles
<1>1. Parts => OnlyOfferedFiles
  BY DEF Parts
<1> QED
  BY <1>1, InstallAlways, PTL

\* Two workers assemble one file at one time only in a folder where they met.
THEOREM SharingIsMeeting == InstallSpec => []SharedIsCrossed
<1>1. Parts => SharedIsCrossed
  BY DEF Parts
<1> QED
  BY <1>1, InstallAlways, PTL

\* A folder with a manifest holds the files of the build the manifest names,
\* unless an update has begun, or threads met in the folder.
THEOREM CompleteInstalls == InstallSpec => []InstalledIsComplete
<1>1. Disk => InstalledIsComplete
  BY DEF Disk
<1> QED
  BY <1>1, InstallAlways, PTL

\* A recorded game has its manifest, unless threads met in its folder.
THEOREM RecordedInstalls == InstallSpec => []RecordedIsInstalled
<1>1. Disk => RecordedIsInstalled
  BY DEF Disk
<1> QED
  BY <1>1, InstallAlways, PTL

\* What the queue's own theorems rest on, beside its types and Work.
QueueRest == UpToDate /\ TokenOnlyWhileQueued /\ Owned

LEMMA QueueRestStep ==
  ASSUME TypeOK, TypeOK', Work, QueueRest, [InstallNext]_allVars
  PROVE  QueueRest'
<1>1. CASE [Next]_vars
  BY <1>1, SavedStep, TokenStep, OwnedStep DEF QueueRest
<1>2. CASE Unseen
  <2>1. UpToDate'
    BY <1>2 DEF Unseen, listVars, fileVars, QueueRest, UpToDate, Unfinished, Kept
  <2>2. TokenOnlyWhileQueued'
    BY <1>2 DEF Unseen, listVars, QueueRest, TokenOnlyWhileQueued, Listed
  <2>3. Owned'
    BY <1>2 DEF Unseen, listVars, workerVars, QueueRest, Owned, LegacyRests, SignedOutQuiet, Listed
  <2> QED
    BY <2>1, <2>2, <2>3 DEF QueueRest
<1> QED
  BY <1>1, <1>2, QueueSteps

\* The queue's invariants hold of the composition too: one worker per entry, two
\* workers in one game only after a removal, downloads.json current, no token
\* without a queued job, and nothing of an account that signed out starts.
THEOREM InstallKeepsQueue ==
  InstallSpec => [](/\ TypeOK /\ OneWorkerPerEntry /\ GameExclusive /\ RemovedIsLeaving
                    /\ SavedIsCurrent /\ TokenOnlyWhileQueued /\ SignedOutQuiet)
<1>1. InstallInit => QueueRest
  BY SavedInit, TokenInit, OwnedInit DEF InstallInit, QueueRest
<1>2. TypeOK /\ TypeOK' /\ Work /\ QueueRest /\ [InstallNext]_allVars => QueueRest'
  BY QueueRestStep
<1>3. TypeOK /\ Work /\ QueueRest => /\ TypeOK /\ OneWorkerPerEntry /\ GameExclusive /\ RemovedIsLeaving
                                 /\ SavedIsCurrent /\ TokenOnlyWhileQueued /\ SignedOutQuiet
  BY UpToDateSaves DEF Work, QueueRest, Owned
<1> QED
  BY <1>1, <1>2, <1>3, InstallAlways, PTL DEF InstallSpec

\* With the disk under it, and as long as no write of downloads.json fails, the
\* queue still does to its rows what JobList says and nothing else: what the
\* threads find in the folders decides which of its steps a job takes, and adds
\* none.  Rows that a start could not read are forgotten where JobList lets them.
THEOREM InstallShowsList == SavesMayFail = FALSE => (InstallSpec => ImplementsJobList)
<1> SUFFICES ASSUME SavesMayFail = FALSE PROVE InstallSpec => ImplementsJobList
  OBVIOUS
<1> DEFINE Inv == Startables /\ UpToDate /\ ~stale
           SameRows == [List!ListNext]_<<Rows, process # "down">>
<1>1. InstallInit => Init
  BY DEF InstallInit
<1>2. TypeOK /\ TypeOK' /\ Work /\ Inv /\ [InstallNext]_allVars => Inv' /\ SameRows
  <2> SUFFICES ASSUME TypeOK, TypeOK', Work, Inv, [InstallNext]_allVars PROVE Inv' /\ SameRows
    OBVIOUS
  <2>1. CASE [Next]_vars
    BY <2>1, SavedStep, StartablesStep, NeverStale, ListStep
  <2>2. CASE Unseen
    <3>1. Inv'
      BY <2>2 DEF Unseen, listVars, fileVars, Startables, UpToDate, Unfinished, Kept, Listed
    <3>2. SameRows
      BY <2>2 DEF Unseen, listVars, fileVars, Rows, Stays, Row
    <3> QED
      BY <3>1, <3>2
  <2> QED
    BY <2>1, <2>2, QueueSteps
<1>3. Init => Inv
  BY ListHolds
<1> HIDE DEF Inv
<1> QED
  BY <1>1, <1>2, <1>3, InstallAlways, ListStarts, PTL DEF InstallSpec, ImplementsJobList, List!ListSpec, SameRows

\* Two workers are inside one folder only after the user removed the job one of
\* them still works on: what the queue promises of games, said of folders.
MetAfterRemoval ==
  \A d \in Folders : \A w, v \in Inside(d) : w # v => removed[mine[w]] \/ removed[mine[v]]

THEOREM MeetingsFollowRemovals == InstallSpec => []MetAfterRemoval
<1>1. TypeOK /\ Work /\ Typing /\ Disk => MetAfterRemoval
  <2> SUFFICES ASSUME TypeOK, Work, Typing, NEW d \in Folders, NEW w \in Inside(d), NEW v \in Inside(d), w # v
               PROVE  removed[mine[w]] \/ removed[mine[v]]
    BY DEF MetAfterRemoval
  <2>1. Installing(w) /\ Installing(v) /\ w \in Workers /\ v \in Workers
    BY PlanHeld DEF Inside
  <2>2. job[mine[w]].app = job[mine[v]].app
    BY DEF Inside, Dir, FolderOf
  <2> QED
    BY <2>1, <2>2 DEF Work, GameExclusive
<1> QED
  BY <1>1, InstallAlways, PTL

-----------------------------------------------------------------------------
(* What a discard takes.                                                   *)

\* Only the files of a build are put in place, and only discards take any away.
LEMMA FilesGo ==
  ASSUME TypeOK, Typing, InstallNext, NEW d \in Folders, NEW f \in Files,
         disk[d][f] # None, disk'[d][f] = None
  PROVE  \E t \in Threads : Erase(t)
<1>1. CASE disk' = disk
  BY <1>1
<1>2. ASSUME NEW x, NEW g, NEW c, c # None, disk' = disk \/ disk' = [disk EXCEPT ![x][g] = c] PROVE FALSE
  <2>1. disk \in [Folders -> [Files -> Segments \union {None, Garbage}]]
    BY DEF Typing, InstallTypeOK
  <2> QED
    BY <1>2, <2>1
<1>3. ASSUME NEW w \in Workers, InstallStep(w) PROVE disk' = disk \/ \E t \in Threads : Erase(t)
  <2>1. ASSUME Place(w) PROVE FALSE
    BY <1>2, <2>1 DEF Place
  <2>2. ASSUME NEW C \in SUBSET (Segments \union {Garbage}), Puts(w, C) PROVE FALSE
    BY <1>2, <2>2, InstallAssumption DEF Puts
  <2>3. ASSUME Scribble(w) PROVE FALSE
    BY <2>2, <2>3 DEF Scribble
  <2>4. ASSUME Write(w) PROVE FALSE
    <3>1. step[w] = "write" /\ build[w] \in Versions
      BY <2>4, PlanHeld DEF Write, At
    <3>2. file[w] \in Files
      BY <3>1 DEF Typing, InstallTypeOK, AssemblyTypes
    <3>3. Content[build[w]][file[w]] \in Segments
      BY <3>1, <3>2, InstallAssumption
    <3> QED
      BY <2>2, <2>4, <3>3 DEF Write
  <2>5. ASSUME NEW s \in {"paused", "failed"}, Reject(w, s) PROVE FALSE
    BY <1>2, <2>5, InstallAssumption DEF Reject
  <2> QED
    BY <1>3, <2>1, <2>3, <2>4, <2>5
       DEF InstallStep, GetPlan, Open, Scan, Download, Join, Create, WriteManifest, Unmark, Record, Clean, End,
           WorkerLooks, LookAt, WorkerErases, WorkerLeaves, Leaves, diskVars, Threads
<1>4. CASE QueueOnly \/ UserLooks \/ UserErases \/ UserLeaves
  BY <1>1, <1>4 DEF QueueOnly, installVars, UserLooks, LookAt, UserErases, UserLeaves, Leaves, diskVars, Threads
<1>5. CASE Ends \/ (\E a \in Apps, b \in Versions : Publish(a, b)) \/ \E s \in Segments : Rot(s)
  BY <1>1, <1>5 DEF Ends, Publish, Rot, diskVars
<1> QED
  BY <1>1, <1>3, <1>4, <1>5 DEF InstallNext

LEMMA EraseCrosses == \A t \in Threads : Erase(t) => crossed' = crossed
BY DEF Erase, history

\* A discard takes no file of an installed game, nor one under a job at work,
\* unless threads met in the folder.
THEOREM SparingDiscards == InstallSpec => DiscardSpares
<1>1. ASSUME TypeOK, Typing, Disk, [InstallNext]_allVars
      PROVE  [\A d \in Folders :
                (\E f \in Files : disk[d][f] # None /\ disk'[d][f] = None) /\ ~crossed'[d]
                  => manifest[d] = None /\ Inside(d) = {}]_allVars
  <2> SUFFICES ASSUME InstallNext, NEW d \in Folders, NEW f \in Files,
                      disk[d][f] # None, disk'[d][f] = None, ~crossed'[d]
               PROVE  manifest[d] = None /\ Inside(d) = {}
    BY <1>1
  <2>1. PICK t \in Threads : Erase(t)
    BY <1>1, FilesGo
  <2>2. ~crossed[d] /\ disk'[d] # disk[d]
    BY <2>1, EraseCrosses
  <2> QED
    BY <1>1, <2>1, <2>2, ErasesUnfinished
<1> QED
  BY <1>1, InstallAlways, PTL DEF InstallSpec, DiscardSpares

=============================================================================
