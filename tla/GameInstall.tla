---------------------------- MODULE GameInstall ----------------------------
(***************************************************************************)
(* What the workers of DownloadQueue do to the disk: Manager::install and  *)
(* Manager::discard_files, on the games folder, the segment cache and the  *)
(* game records.  Every action here is an action of DownloadQueue joined   *)
(* to its effect on the files, or a step inside install() that the queue   *)
(* does not see.                                                           *)
(*                                                                         *)
(* A build gives every file one segment, which stands for the sequence of  *)
(* segments of the code: a file is right when it holds the segment of its  *)
(* build, absent (None), or damaged (Garbage).  It is assembled in a file  *)
(* beside it, <name>.part, that every worker in the folder has by the same *)
(* name: an open stream is bound to the file it opened, not to its name.   *)
(***************************************************************************)
EXTENDS DownloadQueue

CONSTANTS
  Files,       (* the files of a game                                      *)
  Segments,    (* the segments' hashes                                     *)
  Content,     (* Content[b][f]: the segment of file f in build b          *)
  BuildsOf,    (* the builds of each app                                   *)
  Garbage      (* the content of a damaged file                            *)

\* The user-interface thread, next to the workers.
UI      == "ui"
Threads == Workers \union {UI}

\* One folder per game and one per pinned version, whichever account asks.
FolderOf(j) == <<j.app, j.version>>
Folders     == {FolderOf(r) : r \in Requests}

ASSUME InstallAssumption ==
  /\ Content \in [Versions -> [Files -> Segments]]
  /\ BuildsOf \in [Apps -> SUBSET Versions]
  /\ None \notin Segments /\ Garbage \notin Segments /\ None # Garbage
  /\ None \notin Versions /\ None \notin Files
  /\ UI \notin Workers

VARIABLES
  disk,      (* the files of each folder                                   *)
  part,      (* their .part files                                          *)
  marker,    (* whether .riftlift-download is there                        *)
  manifest,  (* the build manifest.json names, or None                     *)
  record,    (* the build of the game record, or None                      *)
  cache,     (* cache/segments: "none", "good" or "bad"                    *)
  newest,    (* the newest build Meta offers of each app                   *)
  step,      (* where each worker is in Manager::install                   *)
  build,     (* the build of its plan                                      *)
  todo,      (* files it has still to assemble                             *)
  fetch,     (* segments it has still to fetch                             *)
  uses,      (* the segments of the files it found missing                 *)
  file,      (* the file it assembles, or None                             *)
  stream,    (* what the stream it writes that file through is open on     *)
  look,      (* what discard_files found, per thread                       *)
  crossed,   (* folders where a job was not alone (history)                *)
  shared,    (* files two workers assembled at one time (history)          *)
  mixed      (* installed folders holding files of another build (history) *)

diskVars    == <<disk, part, marker, manifest, record>>
planVars    == <<build, todo, fetch, uses>>
partVars    == <<file, stream>>
localVars   == <<step, planVars, partVars>>
history     == <<crossed, shared, mixed>>
installVars == <<diskVars, cache, newest, localVars, look, history>>
allVars     == <<vars, installVars>>

Steps   == {"idle", "plan", "open", "fetch", "assemble", "write", "place", "unmark", "record",
            "clean", "done"}

\* A stream is open on the .part file, which another worker may write too; on
\* the file itself, since another worker put the .part file in its place; or on
\* one whose name is gone.
OnPart  == {"alone", "shared"}
Streams == OnPart \union {"none", "file", "lost"}

Empty  == [f \in Files |-> None]
Dir(w) == FolderOf(job[mine[w]])
Right(d, b) == disk[d] = Content[b]
Inside(d) == {w \in Workers : step[w] \notin {"idle", "plan"} /\ Dir(w) = d}

\* The entry whose files a thread discards.
Discarded(t) == IF t = UI THEN ui ELSE mine[t]
Erasers(d) == {t \in Threads : look[t] = "delete" /\ FolderOf(job[Discarded(t)]) = d}

InstallInit ==
  /\ Init
  /\ disk = [d \in Folders |-> Empty]
  /\ part = [d \in Folders |-> Empty]
  /\ marker = [d \in Folders |-> FALSE]
  /\ manifest = [d \in Folders |-> None]
  /\ record = [d \in Folders |-> None]
  /\ cache = [s \in Segments |-> "none"]
  /\ newest \in {n \in [Apps -> Versions] : \A a \in Apps : n[a] \in BuildsOf[a]}
  /\ step = [w \in Workers |-> "idle"]
  /\ build = [w \in Workers |-> None]
  /\ todo = [w \in Workers |-> {}]
  /\ fetch = [w \in Workers |-> {}]
  /\ uses = [w \in Workers |-> {}]
  /\ file = [w \in Workers |-> None]
  /\ stream = [w \in Workers |-> "none"]
  /\ look = [t \in Threads |-> "no"]
  /\ crossed = [d \in Folders |-> FALSE]
  /\ shared = [d \in Folders |-> {}]
  /\ mixed = [d \in Folders |-> FALSE]

-----------------------------------------------------------------------------
(* Manager::install.                                                       *)

At(w, s) == Installing(w) /\ step[w] = s
Goto(w, s) == step' = [step EXCEPT ![w] = s]

\* owned_plan: the pinned build, or the newest one of the moment.
GetPlan(w) ==
  /\ At(w, "idle")
  /\ Plan(w)
  /\ Goto(w, "plan")
  /\ build' = [build EXCEPT ![w] = IF job[mine[w]].version = Newest
                                   THEN newest[job[mine[w]].app]
                                   ELSE job[mine[w]].version]
  /\ UNCHANGED <<diskVars, cache, newest, todo, fetch, uses, partVars, look, history>>

\* A folder without a manifest is marked as an unfinished download.
Open(w) ==
  /\ At(w, "plan")
  /\ OpenFolder(w)
  /\ Goto(w, "open")
  /\ marker' = [marker EXCEPT ![Dir(w)] = @ \/ manifest[Dir(w)] = None]
  /\ crossed' = [crossed EXCEPT ![Dir(w)] = @ \/ Inside(Dir(w)) # {} \/ Erasers(Dir(w)) # {}]
  /\ UNCHANGED <<disk, part, manifest, record, cache, newest, planVars, partVars, look, shared, mixed>>

\* Mutant: a file that exists is taken for the right one.
Wanting_Absent(d, b) == {f \in Files : disk[d][f] = None}

\* The files that are missing or hash to something else.
Wanting(d, b) == {f \in Files : disk[d][f] # Content[b][f]}

Scan(w) ==
  LET want == Wanting(Dir(w), build[w])
      need == {Content[build[w]][f] : f \in want}
  IN /\ At(w, "open")
     /\ Fetch(w)
     /\ Goto(w, "fetch")
     /\ todo' = [todo EXCEPT ![w] = want]
     /\ uses' = [uses EXCEPT ![w] = need]
     /\ fetch' = [fetch EXCEPT ![w] = {s \in need : cache[s] = "none"}]
     /\ UNCHANGED <<diskVars, cache, newest, build, partVars, look, history>>

\* A segment enters the cache once its hash was checked.
Download(w, s) ==
  /\ At(w, "fetch")
  /\ s \in fetch[w]
  /\ fetch' = [fetch EXCEPT ![w] = @ \ {s}]
  /\ cache' = [cache EXCEPT ![s] = "good"]
  /\ UNCHANGED <<vars, diskVars, newest, step, build, todo, uses, partVars, look, history>>

Join(w) ==
  /\ At(w, "fetch")
  /\ fetch[w] = {}
  /\ ~stop[mine[w]]
  /\ Goto(w, "assemble")
  /\ UNCHANGED <<vars, diskVars, cache, newest, planVars, partVars, look, history>>

\* The workers that assemble a file, and those with a stream open on its .part.
Assembling(d, f) == {w \in Workers : file[w] = f /\ Dir(w) = d}
Writing(d, f)    == {w \in Assembling(d, f) : stream[w] \in OnPart}

\* What their streams are open on when the .part file gets another writer, takes
\* the place of the file, or when the .part or the file is deleted.
Joined(d, f) ==
  [w \in Workers |-> IF w \in Writing(d, f) THEN "shared" ELSE stream[w]]
Renamed(d, f) ==
  [w \in Workers |-> IF w \in Writing(d, f) THEN "file"
                     ELSE IF w \in Assembling(d, f) /\ stream[w] = "file" THEN "lost"
                     ELSE stream[w]]
PartGone(d, f) ==
  [w \in Workers |-> IF w \in Writing(d, f) THEN "lost" ELSE stream[w]]
FileGone(d, f) ==
  [w \in Workers |-> IF w \in Assembling(d, f) /\ stream[w] = "file" THEN "lost" ELSE stream[w]]

\* The .part file is opened, and cut to nothing.
Create(w, f) ==
  LET d == Dir(w) IN
  /\ At(w, "assemble")
  /\ ~stop[mine[w]]
  /\ f \in todo[w]
  /\ Goto(w, "write")
  /\ file' = [file EXCEPT ![w] = f]
  /\ stream' = [Joined(d, f) EXCEPT ![w] = IF Writing(d, f) = {} THEN "alone" ELSE "shared"]
  /\ part' = [part EXCEPT ![d][f] = Garbage]
  /\ shared' = [shared EXCEPT ![d] = IF Assembling(d, f) = {} THEN @ ELSE @ \union {f}]
  /\ UNCHANGED <<vars, disk, marker, manifest, record, cache, newest, planVars, look, crossed, mixed>>

\* What the stream of a worker is open on becomes one of these.
Puts(w, contents) ==
  LET d == Dir(w)
      f == file[w]
  IN \E c \in contents :
       /\ part' = IF stream[w] \in OnPart THEN [part EXCEPT ![d][f] = c] ELSE part
       /\ disk' = IF stream[w] = "file" THEN [disk EXCEPT ![d][f] = c] ELSE disk

\* Some of the segments are written, where another worker wrote or put the file
\* in place.
Scribble(w) ==
  /\ At(w, "write")
  /\ stream[w] \in {"shared", "file"}
  /\ Puts(w, {Garbage})
  /\ UNCHANGED <<vars, marker, manifest, record, cache, newest, localVars, look, history>>

\* Mutant: the assembled file is put in place whatever its hash.
Verified_Unchecked(s) == cache[s] # "none"

\* The bytes read from the cache hash to what the build says.
Verified(s) == cache[s] = "good"

\* The last segment is written.  The hash is of what was read: what another
\* worker wrote through its own stream goes unseen.
Write(w) ==
  LET s == Content[build[w]][file[w]] IN
  /\ At(w, "write")
  /\ Verified(s)
  /\ Puts(w, IF cache[s] # "good" THEN {Garbage} ELSE IF stream[w] = "alone" THEN {s} ELSE {s, Garbage})
  /\ Goto(w, "place")
  /\ stream' = [stream EXCEPT ![w] = "none"]
  /\ UNCHANGED <<vars, marker, manifest, record, cache, newest, planVars, file, look, history>>

\* The .part file takes the place of the file.  It fails when there is none.
Place(w) ==
  LET d == Dir(w)
      f == file[w]
  IN /\ At(w, "place")
     /\ part[d][f] # None
     /\ Goto(w, "assemble")
     /\ disk' = [disk EXCEPT ![d][f] = part[d][f]]
     /\ part' = [part EXCEPT ![d][f] = None]
     /\ file' = [file EXCEPT ![w] = None]
     /\ stream' = Renamed(d, f)
     /\ todo' = [todo EXCEPT ![w] = @ \ {f}]
     /\ mixed' = [mixed EXCEPT ![d] = @ \/ manifest[d] \notin {None, build[w]}]
     /\ UNCHANGED <<vars, marker, manifest, record, cache, newest, build, fetch, uses, look, crossed, shared>>

\* Mutant: a worker does not leave the step it was at.
Leave_KeepsStep(w) ==
  /\ step' = step
  /\ build' = [build EXCEPT ![w] = None]
  /\ todo' = [todo EXCEPT ![w] = {}]
  /\ fetch' = [fetch EXCEPT ![w] = {}]
  /\ uses' = [uses EXCEPT ![w] = {}]
  /\ file' = [file EXCEPT ![w] = None]

\* What install() held of its plan is gone.
Leave(w) ==
  /\ step' = [step EXCEPT ![w] = "idle"]
  /\ build' = [build EXCEPT ![w] = None]
  /\ todo' = [todo EXCEPT ![w] = {}]
  /\ fetch' = [fetch EXCEPT ![w] = {}]
  /\ uses' = [uses EXCEPT ![w] = {}]
  /\ file' = [file EXCEPT ![w] = None]

\* A bad segment is dropped from the cache, to be fetched again on resume, and
\* the .part file deleted.
Reject(w, s) ==
  LET d == Dir(w)
      f == file[w]
  IN /\ At(w, "write")
     /\ cache[Content[build[w]][f]] = "bad"
     /\ cache' = [cache EXCEPT ![Content[build[w]][f]] = "none"]
     /\ disk' = IF stream[w] = "file" THEN [disk EXCEPT ![d][f] = Garbage] ELSE disk
     /\ part' = [part EXCEPT ![d][f] = None]
     /\ stream' = [PartGone(d, f) EXCEPT ![w] = "none"]
     /\ s # "complete"
     /\ Finish(w, s)
     /\ Leave(w)
     /\ UNCHANGED <<marker, manifest, record, newest, look, history>>

\* Mutant: the manifest is written before the last file.
ReadyForManifest_Early(w) == Cardinality(todo[w]) <= 1

\* Nothing is left to assemble.
ReadyForManifest(w) == todo[w] = {}

\* The manifest goes in last.
WriteManifest(w) ==
  /\ At(w, "assemble")
  /\ ReadyForManifest(w)
  /\ manifest' = [manifest EXCEPT ![Dir(w)] = build[w]]
  /\ mixed' = [mixed EXCEPT ![Dir(w)] = FALSE]
  /\ Goto(w, "unmark")
  /\ UNCHANGED <<vars, disk, part, marker, record, cache, newest, planVars, partVars, look, crossed, shared>>

Unmark(w) ==
  /\ At(w, "unmark")
  /\ marker' = [marker EXCEPT ![Dir(w)] = FALSE]
  /\ Goto(w, "record")
  /\ UNCHANGED <<vars, disk, part, manifest, record, cache, newest, planVars, partVars, look, history>>

\* services_.installed writes the game's record.
Record(w) ==
  /\ At(w, "record")
  /\ record' = [record EXCEPT ![Dir(w)] = build[w]]
  /\ Goto(w, "clean")
  /\ UNCHANGED <<vars, disk, part, marker, manifest, cache, newest, planVars, partVars, look, history>>

\* The segments this installation used leave the cache.
Clean(w) ==
  /\ At(w, "clean")
  /\ cache' = [s \in Segments |-> IF s \in uses[w] THEN "none" ELSE cache[s]]
  /\ Goto(w, "done")
  /\ UNCHANGED <<vars, diskVars, newest, planVars, partVars, look, history>>

\* install() returns, or an exception leaves it: anything up to the record may
\* throw, except the removal of the marker.
End(w, s) ==
  /\ IF s = "complete" THEN At(w, "done")
     ELSE Installing(w) /\ step[w] \notin {"unmark", "clean", "done"}
  /\ Finish(w, s)
  /\ Leave(w)
  /\ stream' = [stream EXCEPT ![w] = "none"]
  /\ UNCHANGED <<diskVars, cache, newest, look, history>>

-----------------------------------------------------------------------------
(* Manager::discard_files, in the worker's thread or the user's: it looks  *)
(* at the folder, then deletes it.  No lock is held.                      *)

\* Mutant: the files go whatever the folder holds.
Discardable_Any(d) == TRUE

\* A folder marked as an unfinished download, with no manifest.
Discardable(d) == marker[d] /\ manifest[d] = None

LookAt(t) ==
  LET e == Discarded(t)
      d == FolderOf(job[e])
      found == job[e].named /\ Discardable(d)
  IN /\ look[t] = "no"
     /\ look' = [look EXCEPT ![t] = IF found THEN "delete" ELSE "keep"]
     /\ crossed' = [crossed EXCEPT ![d] = @ \/ (found /\ Inside(d) # {})]
     /\ UNCHANGED <<vars, diskVars, cache, newest, localVars, shared, mixed>>

\* remove_tree takes the folder's files one by one, in no given order.
Erase(t) ==
  LET d == FolderOf(job[Discarded(t)]) IN
  /\ look[t] = "delete"
  /\ \/ \E f \in Files :
          /\ disk[d][f] # None
          /\ disk' = [disk EXCEPT ![d][f] = None]
          /\ stream' = FileGone(d, f)
          /\ UNCHANGED <<part, marker, manifest>>
     \/ \E f \in Files :
          /\ part[d][f] # None
          /\ part' = [part EXCEPT ![d][f] = None]
          /\ stream' = PartGone(d, f)
          /\ UNCHANGED <<disk, marker, manifest>>
     \/ /\ marker[d]
        /\ marker' = [marker EXCEPT ![d] = FALSE]
        /\ UNCHANGED <<disk, part, manifest, stream>>
     \/ /\ manifest[d] # None
        /\ manifest' = [manifest EXCEPT ![d] = None]
        /\ UNCHANGED <<disk, part, marker, stream>>
  /\ UNCHANGED <<vars, record, cache, newest, step, planVars, file, look, history>>

\* discard_files returns.  It may have failed with files left.
Leaves(t) ==
  /\ look[t] # "no"
  /\ look' = [look EXCEPT ![t] = "no"]
  /\ UNCHANGED <<diskVars, cache, newest, localVars, history>>

UserLooks      == process = "up" /\ ui # None /\ LookAt(UI)
UserErases     == process = "up" /\ ui # None /\ Erase(UI)
UserLeaves     == RemoveDiscards /\ Leaves(UI)
WorkerLooks(w)  == pc[w] = "discard" /\ LookAt(w)
WorkerErases(w) == pc[w] = "discard" /\ Erase(w)
WorkerLeaves(w) == Discard(w) /\ Leaves(w)

-----------------------------------------------------------------------------
(* The surroundings.                                                       *)

\* Meta publishes another build of an app.
Publish(a, b) ==
  /\ ops < MaxOps
  /\ b \in BuildsOf[a] \ {newest[a]}
  /\ newest' = [newest EXCEPT ![a] = b]
  /\ ops' = ops + 1
  /\ UNCHANGED <<listVars, active, parallel, workerVars, ui, fileVars, process, signedOut,
                 diskVars, cache, localVars, look, history>>

\* A cached segment is damaged on disk.
Rot(s) ==
  /\ ops < MaxOps
  /\ cache[s] = "good"
  /\ cache' = [cache EXCEPT ![s] = "bad"]
  /\ ops' = ops + 1
  /\ UNCHANGED <<listVars, active, parallel, workerVars, ui, fileVars, process, signedOut,
                 diskVars, newest, localVars, look, history>>

\* The process ends: the files stay, the threads are gone.
Ends ==
  /\ Crash \/ Closed
  /\ step' = [w \in Workers |-> "idle"]
  /\ build' = [w \in Workers |-> None]
  /\ todo' = [w \in Workers |-> {}]
  /\ fetch' = [w \in Workers |-> {}]
  /\ uses' = [w \in Workers |-> {}]
  /\ file' = [w \in Workers |-> None]
  /\ stream' = [w \in Workers |-> "none"]
  /\ look' = [t \in Threads |-> "no"]
  /\ UNCHANGED <<diskVars, cache, newest, history>>

QueueOnly ==
  /\ \/ UserStep
     \/ Restart
     \/ \E w \in Workers : Take(w) \/ Wait(w) \/ Notify(w) \/ Release(w) \/ Exit(w)
  /\ UNCHANGED installVars

InstallStep(w) ==
  \/ GetPlan(w)
  \/ Open(w)
  \/ Scan(w)
  \/ \E s \in Segments : Download(w, s)
  \/ Join(w)
  \/ \E f \in Files : Create(w, f)
  \/ Scribble(w)
  \/ Write(w)
  \/ Place(w)
  \/ \E s \in {"paused", "failed"} : Reject(w, s)
  \/ WriteManifest(w)
  \/ Unmark(w)
  \/ Record(w)
  \/ Clean(w)
  \/ \E s \in {"complete", "paused", "failed"} : End(w, s)
  \/ WorkerLooks(w)
  \/ WorkerErases(w)
  \/ WorkerLeaves(w)

InstallNext ==
  \/ QueueOnly
  \/ \E w \in Workers : InstallStep(w)
  \/ UserLooks
  \/ UserErases
  \/ UserLeaves
  \/ \E a \in Apps, b \in Versions : Publish(a, b)
  \/ \E s \in Segments : Rot(s)
  \/ Ends

InstallSpec == InstallInit /\ [][InstallNext]_allVars

-----------------------------------------------------------------------------
(* Properties.                                                             *)

\* What a game's folder offered so far may hold.
Offered(d) == IF d[2] = Newest THEN BuildsOf[d[1]] ELSE {d[2]}

\* A worker has a file from Create to Place, and an open stream up to Write.
AssemblyTypes ==
  /\ file \in [Workers -> Files \union {None}]
  /\ stream \in [Workers -> Streams]
  /\ \A w \in Workers :
       /\ IF step[w] \in {"write", "place"} THEN file[w] \in todo[w] ELSE file[w] = None
       /\ stream[w] # "none" <=> step[w] = "write"

InstallTypeOK ==
  /\ disk \in [Folders -> [Files -> Segments \union {None, Garbage}]]
  /\ part \in [Folders -> [Files -> Segments \union {None, Garbage}]]
  /\ marker \in [Folders -> BOOLEAN]
  /\ manifest \in [Folders -> Versions \union {None}]
  /\ record \in [Folders -> Versions \union {None}]
  /\ cache \in [Segments -> {"none", "good", "bad"}]
  /\ newest \in [Apps -> Versions]
  /\ step \in [Workers -> Steps]
  /\ \A w \in Workers : (step[w] # "idle" => Installing(w)) /\ (step[w] = "plan" => pc[w] = "install")
  /\ \A w \in Workers : build[w] = None <=> step[w] = "idle"
  /\ todo \in [Workers -> SUBSET Files]
  /\ fetch \in [Workers -> SUBSET Segments]
  /\ uses \in [Workers -> SUBSET Segments]
  /\ AssemblyTypes
  /\ look \in [Threads -> {"no", "keep", "delete"}]
  /\ crossed \in [Folders -> BOOLEAN] /\ mixed \in [Folders -> BOOLEAN]
  /\ shared \in [Folders -> SUBSET Files]

\* A folder with a manifest holds exactly the files of the build the manifest
\* names, at every moment, so also after a crash: unless an update has begun to
\* replace its files, or two threads met in the folder (install writes the
\* manifest when every file hashes to what the build says).
InstalledIsComplete ==
  \A d \in Folders :
    manifest[d] # None /\ ~crossed[d] /\ ~mixed[d] => disk[d] = Content[manifest[d]]

\* No file of a game is ever anything but a whole file of a build of that game,
\* or of the pinned build in the folder of a pinned version: whatever happens to
\* the cached segments, to a discard or to the process, and also when threads
\* meet in the folder, unless two workers assembled that very file at one time,
\* in one .part file (the hash of what was read, and the rename, in install).
OnlyOfferedFiles ==
  \A d \in Folders, f \in Files :
    f \notin shared[d] /\ disk[d][f] # None => \E b \in Offered(d) : disk[d][f] = Content[b][f]

\* A game in the library has the manifest that its uninstallation asks for: an
\* interrupted update, a discarded job or a crash does not take it away (the
\* order of manifest, marker and record in install, the look of discard_files).
RecordedIsInstalled ==
  \A d \in Folders : record[d] # None /\ ~crossed[d] => manifest[d] # None

\* A discard takes no file of an installed game, nor one under a job at work,
\* unless threads met in the folder (discard_files against install).
DiscardSpares ==
  [][\A d \in Folders :
       (\E f \in Files : disk[d][f] # None /\ disk'[d][f] = None) /\ ~crossed'[d]
         => manifest[d] = None /\ Inside(d) = {}]_allVars

\* What the comment in install says: "Meta's manifest goes in last: it marks a
\* complete install" (manager.cpp).  Asked only of a folder nobody works in.
ManifestMarksComplete ==
  \A d \in Folders :
    manifest[d] # None /\ Inside(d) = {} /\ Erasers(d) = {} => disk[d] = Content[manifest[d]]

=============================================================================
