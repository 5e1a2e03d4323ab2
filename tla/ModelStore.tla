----------------------------- MODULE ModelStore -----------------------------
(***************************************************************************)
(* How a model gets onto the device: the downloader, and the loaders that  *)
(* decide from the files alone whether a model is there.  Collections of   *)
(* provisionWithProgress may overlap, since the session lets preparations  *)
(* overlap, and share the paths they write to.  Each may end in an error   *)
(* or be cancelled, and the process may die between any two steps; the     *)
(* files stay as they are.                                                 *)
(*                                                                         *)
(* A path leads to a file, which an open stream keeps hold of also when    *)
(* the path is renamed or deleted.  A file is two blocks.                  *)
(***************************************************************************)
EXTENDS Integers, Sequences, FiniteSets, Functions

CONSTANTS
  Models,     \* records: way, downloads, checked, entries, required, room
  Flows,      \* collections of provisionWithProgress
  MaxFaults   \* bound on overlaps, errors, cancellations, deaths, wrong answers

Ways == {"plain", "sized", "checked", "zipped", "bundled"}

\* No name is in a list twice.  What is unpacked is not what it is unpacked from,
\* and is what the loader looks for; a file with a hash is one the loader looks
\* for.  The room is what the device has for the model, in blocks.
ASSUME StoreAssumption ==
  /\ IsFiniteSet(Flows) /\ MaxFaults \in Nat
  /\ \A m \in Models :
       /\ m.way \in Ways
       /\ m.downloads \in Seq(Range(m.downloads)) /\ m.entries \in Seq(Range(m.entries))
       /\ IsInjective(m.downloads) /\ IsInjective(m.entries)
       /\ m.room \in Nat
       /\ (m.way = "bundled") = (m.downloads = <<>>)
       /\ m.way \in {"plain", "sized", "zipped"} => Len(m.downloads) = 1
       /\ IF m.way \in {"zipped", "bundled"}
          THEN m.required # {} /\ m.required \subseteq Range(m.entries)
          ELSE m.entries = <<>>
       /\ Range(m.downloads) \cap Range(m.entries) = {}
       /\ IF m.way = "checked"
          THEN m.checked \subseteq Range(m.downloads) \cap m.required
          ELSE m.checked = {}

\* What a server may answer: the file, something else of its length, a short
\* text instead of it, or nothing.
Answers == {<<"right", "right">>, <<"other", "other">>, <<"text", "-">>, <<"-", "-">>}
Whole == <<"right", "right">>
Empty == <<"-", "-">>
Long(d) == d[2] # "-"

VARIABLES
  model,      \* the model provisioned
  path,       \* the file under each final name
  temp,       \* the file under each name with .tmp
  data,       \* what a file holds
  pc, at,     \* of a flow: its step, and its place in a list of files
  answer,     \* what is being downloaded
  out, src,   \* the files its streams write to and read from
  up,         \* whether the process runs
  faults,     \* faults so far
  unchecked,  \* names given to downloads that were not hashed since (history)
  stopped,    \* the entry at which the last unpacking ended early (history)
  overlapped  \* whether two flows ran at once (history)

disk == <<path, temp, data>>
flow == <<pc, at, answer, out, src>>
history == <<unchecked, stopped, overlapped>>
vars == <<model, disk, flow, up, faults, history>>

Names(m) == Range(m.downloads) \cup Range(m.entries)

\* The place behind the last entry: no unpacking ended early.
Behind == Len(model.entries) + 1

\* No file: the path does not exist, the stream is not open.
None == 0
Files == 1..(2 * (Cardinality(Names(model)) + Cardinality(Flows)))
Reached == Range(path) \cup Range(temp) \cup Range(out) \cup Range(src)
NewFile == CHOOSE i \in Files : i \notin Reached

Init ==
  /\ model \in Models
  /\ path = [f \in Names(model) |-> None]
  /\ temp = [f \in Names(model) |-> None]
  /\ data = [i \in Files |-> Empty]
  /\ pc = [c \in Flows |-> "idle"] /\ at = [c \in Flows |-> 1]
  /\ answer = [c \in Flows |-> Empty]
  /\ out = [c \in Flows |-> None] /\ src = [c \in Flows |-> None]
  /\ up = TRUE /\ faults = 0
  /\ unchecked = {} /\ stopped = Behind /\ overlapped = FALSE

Goto(c, l) == pc' = [pc EXCEPT ![c] = l]
Fault == faults < MaxFaults /\ faults' = faults + 1

Archive == model.downloads[1]
Wanted(c) == model.downloads[at[c]]
Entry(c) == model.entries[at[c]]

Exists(f) == path[f] # None
HasBytes(f) == Exists(f) /\ data[path[f]] # Empty
IsWhole(f) == Exists(f) /\ data[path[f]] = Whole

\* outputStream() on p[f]: an existing file is truncated, else there is a new one.
Opened(p, f) == IF p[f] = None THEN NewFile ELSE p[f]
Open(c, p, f) ==
  /\ out' = [out EXCEPT ![c] = Opened(p, f)]
  /\ data' = [data EXCEPT ![Opened(p, f)] = Empty]

\* isReady, hasRequiredFiles: every loader has its own idea of it.
IsReady ==
  CASE model.way = "plain" -> HasBytes(Archive)
    [] model.way = "sized" -> Exists(Archive) /\ Long(data[path[Archive]])
    [] OTHER -> \A f \in model.required : Exists(f)

-----------------------------------------------------------------------------
(* A preparation up to the first download.                                 *)

\* The space for the language model is looked at first, with whatever earlier
\* flows have left still there: a copy of it, two blocks, and the margin, one.
\* Without enough of it the preparation ends in an error and changes nothing.
Needed == 3
Written == {w \in (Reached \ {None}) \X {1, 2} : data[w[1]][w[2]] # "-"}
Usable == model.room - Cardinality(Written)
InsufficientSpace == model.way = "sized" /\ Usable > 0 /\ Usable < Needed

\* Mutant of Discarded: a file that is too short is left to the downloader.
OnlyUnpackedDiscarded ==
  IF model.way = "zipped" THEN Names(model) ELSE {}

\* What a loader deletes before it provisions anew, in one step here.
Discarded ==
  IF model.way \in {"zipped", "sized"} THEN Names(model) ELSE {}

Provision(c) ==
  /\ up /\ pc[c] = "idle"
  /\ ~InsufficientSpace /\ ~IsReady
  /\ IF \E d \in Flows : pc[d] # "idle"
     THEN Fault /\ overlapped' = TRUE
     ELSE UNCHANGED <<faults, overlapped>>
  /\ path' = [f \in Names(model) |-> IF f \in Discarded THEN None ELSE path[f]]
  /\ at' = [at EXCEPT ![c] = 1]
  /\ Goto(c, IF model.way = "bundled" THEN "unpack" ELSE "download")
  /\ stopped' = Behind
  /\ unchecked' = unchecked \ Discarded
  /\ UNCHANGED <<model, temp, data, answer, out, src, up>>

-----------------------------------------------------------------------------
(* downloadModel.                                                          *)

AlreadyThere(c) ==
  /\ pc[c] = "download"
  /\ HasBytes(Wanted(c))
  /\ Goto(c, "downloaded")
  /\ UNCHANGED <<model, disk, at, answer, out, src, up, faults, history>>

\* Mutant of Connect: the download is written under its final name.
ConnectInPlace(c) ==
  /\ pc[c] = "download"
  /\ ~HasBytes(Wanted(c))
  /\ \E a \in Answers :
       /\ answer' = [answer EXCEPT ![c] = a]
       /\ IF a = Whole THEN UNCHANGED faults ELSE Fault
  /\ Open(c, path, Wanted(c))
  /\ path' = [path EXCEPT ![Wanted(c)] = Opened(path, Wanted(c))]
  /\ temp' = [temp EXCEPT ![Wanted(c)] = Opened(path, Wanted(c))]
  /\ Goto(c, "first")
  /\ UNCHANGED <<model, at, src, up, history>>

\* A response; the temporary file is opened for it.
Connect(c) ==
  /\ pc[c] = "download"
  /\ ~HasBytes(Wanted(c))
  /\ \E a \in Answers :
       /\ answer' = [answer EXCEPT ![c] = a]
       /\ IF a = Whole THEN UNCHANGED faults ELSE Fault
  /\ Open(c, temp, Wanted(c))
  /\ temp' = [temp EXCEPT ![Wanted(c)] = Opened(temp, Wanted(c))]
  /\ Goto(c, "first")
  /\ UNCHANGED <<model, path, at, src, up, history>>

\* The stream writes at its own position, whatever others do to the file.
Write(c, block, next) ==
  /\ data' = IF answer[c][block] = "-" THEN data
             ELSE [data EXCEPT ![out[c]][block] = answer[c][block]]
  /\ Goto(c, next)
  /\ UNCHANGED <<model, path, temp, at, answer, src, up, faults, history>>

WriteFirst(c) == pc[c] = "first" /\ Write(c, 1, "second") /\ UNCHANGED out
WriteSecond(c) ==
  /\ pc[c] = "second"
  /\ Write(c, 2, "rename")
  /\ out' = [out EXCEPT ![c] = None]

\* destFile.delete()
DeleteOld(c) ==
  /\ pc[c] = "rename"
  /\ path' = [path EXCEPT ![Wanted(c)] = None]
  /\ Goto(c, "move")
  /\ UNCHANGED <<model, temp, data, at, answer, out, src, up, faults, history>>

\* tempFile.renameTo(destFile): the result is not looked at.
Rename(c) ==
  /\ pc[c] = "move"
  /\ temp[Wanted(c)] # None
  /\ path' = [path EXCEPT ![Wanted(c)] = temp[Wanted(c)]]
  /\ temp' = [temp EXCEPT ![Wanted(c)] = None]
  /\ unchecked' = unchecked \cup {Wanted(c)}
  /\ Goto(c, "renamed")
  /\ UNCHANGED <<model, data, at, answer, out, src, up, faults, stopped, overlapped>>

RenameFails(c) ==
  /\ pc[c] = "move"
  /\ IF temp[Wanted(c)] = None THEN UNCHANGED faults ELSE Fault
  /\ Goto(c, "renamed")
  /\ UNCHANGED <<model, disk, at, answer, out, src, up, history>>

\* emit(1f)
EmitLast(c) ==
  /\ pc[c] = "renamed"
  /\ Goto(c, "downloaded")
  /\ UNCHANGED <<model, disk, at, answer, out, src, up, faults, history>>

\* An error, or a cancellation seen at an emit: whatever is under the temporary
\* name is deleted, unless nothing was to be downloaded; the flow ends.
DownloadFails(c) ==
  /\ pc[c] \in {"download", "first", "second", "renamed"}
  /\ Fault
  /\ temp' = IF pc[c] = "download" /\ HasBytes(Wanted(c)) THEN temp
             ELSE [temp EXCEPT ![Wanted(c)] = None]
  /\ out' = [out EXCEPT ![c] = None]
  /\ Goto(c, "idle")
  /\ UNCHANGED <<model, path, data, at, answer, src, up, history>>

-----------------------------------------------------------------------------
(* What the loaders do with a download.                                    *)

\* SherpaOnnxModelLoader: the hash of a file that has one, and the next file.
Verify(c) ==
  /\ pc[c] = "downloaded" /\ model.way = "checked"
  /\ unchecked' = unchecked \ {Wanted(c)}
  /\ IF Wanted(c) \in model.checked /\ ~IsWhole(Wanted(c))
     THEN /\ path' = [path EXCEPT ![Wanted(c)] = None]
          /\ Goto(c, "idle") /\ UNCHANGED at
     ELSE /\ at' = [at EXCEPT ![c] = @ + 1]
          /\ Goto(c, IF at[c] < Len(model.downloads) THEN "download" ELSE "idle")
          /\ UNCHANGED path
  /\ UNCHANGED <<model, temp, data, answer, out, src, up, faults, stopped, overlapped>>

\* LiteRtLmModelLoader, DownloadingVadModelLoader, ensureFileDownloaded.
Finish(c) ==
  /\ pc[c] = "downloaded" /\ model.way \in {"plain", "sized"}
  /\ Goto(c, "idle")
  /\ UNCHANGED <<model, disk, at, answer, out, src, up, faults, history>>

\* VoskModelLoader: an archive that is there is opened and unpacked.
Unpack(c) ==
  /\ pc[c] = "downloaded" /\ model.way = "zipped"
  /\ IF HasBytes(Archive)
     THEN Goto(c, "unpack") /\ src' = [src EXCEPT ![c] = path[Archive]]
     ELSE Goto(c, "idle") /\ UNCHANGED src
  /\ at' = [at EXCEPT ![c] = 1]
  /\ UNCHANGED <<model, disk, answer, out, up, faults, history>>

-----------------------------------------------------------------------------
(* unzipFlattened and extractWithProgress: file after file, in place.      *)

\* What is read: an asset is as it was packed, an archive as it was downloaded.
\* Without its second block it has no directory; damaged entries do not have
\* the sum the directory gives for them.
HasDirectory(c) == model.way = "zipped" => Long(data[src[c]])
Sound(c) == model.way = "zipped" => data[src[c]] = Whole

OpenEntry(c) ==
  /\ pc[c] = "unpack" /\ at[c] <= Len(model.entries)
  /\ HasDirectory(c)
  /\ Open(c, path, Entry(c))
  /\ path' = [path EXCEPT ![Entry(c)] = Opened(path, Entry(c))]
  /\ Goto(c, "write")
  /\ UNCHANGED <<model, temp, at, answer, src, up, faults, history>>

WriteEntry(c) ==
  /\ pc[c] = "write"
  /\ Sound(c)
  /\ data' = [data EXCEPT ![out[c]] = Whole]
  /\ out' = [out EXCEPT ![c] = None]
  /\ at' = [at EXCEPT ![c] = @ + 1]
  /\ Goto(c, "unpack")
  /\ UNCHANGED <<model, path, temp, answer, src, up, faults, history>>

\* The Vosk loader's runCatching swallows what ends the unpacking.
Close(c) ==
  /\ Goto(c, IF model.way = "zipped" THEN "deleteArchive" ELSE "idle")
  /\ out' = [out EXCEPT ![c] = None] /\ src' = [src EXCEPT ![c] = None]
  /\ UNCHANGED <<model, disk, at, answer, up, unchecked, overlapped>>

Unpacked(c) ==
  /\ pc[c] = "unpack" /\ at[c] > Len(model.entries)
  /\ Close(c)
  /\ UNCHANGED <<faults, stopped>>

UnpackFails(c) ==
  /\ pc[c] \in {"unpack", "write"}
  /\ Fault
  /\ Close(c) /\ stopped' = at[c]

Damaged(c) ==
  /\ \/ pc[c] = "unpack" /\ at[c] <= Len(model.entries) /\ ~HasDirectory(c)
     \/ pc[c] = "write" /\ ~Sound(c)
  /\ Close(c) /\ stopped' = at[c]
  /\ UNCHANGED faults

DeleteArchive(c) ==
  /\ pc[c] = "deleteArchive"
  /\ path' = [path EXCEPT ![Archive] = None]
  /\ Goto(c, "idle")
  /\ UNCHANGED <<model, temp, data, at, answer, out, src, up, faults, history>>

-----------------------------------------------------------------------------
(* The process.                                                            *)

Die ==
  /\ up /\ Fault
  /\ up' = FALSE
  /\ pc' = [c \in Flows |-> "idle"]
  /\ out' = [c \in Flows |-> None] /\ src' = [c \in Flows |-> None]
  /\ LET unpacking == {c \in Flows : pc[c] \in {"unpack", "write"}}
     IN stopped' \in IF unpacking = {} THEN {stopped} ELSE {at[c] : c \in unpacking}
  /\ UNCHANGED <<model, disk, at, answer, unchecked, overlapped>>

Start ==
  /\ ~up
  /\ up' = TRUE
  /\ UNCHANGED <<model, disk, flow, faults, history>>

Downloading(c) ==
  \/ AlreadyThere(c) \/ Connect(c) \/ WriteFirst(c) \/ WriteSecond(c)
  \/ DeleteOld(c) \/ Rename(c) \/ RenameFails(c) \/ EmitLast(c)
Loading(c) == Verify(c) \/ Finish(c) \/ Unpack(c)
Unpacking(c) ==
  OpenEntry(c) \/ WriteEntry(c) \/ Unpacked(c) \/ Damaged(c) \/ DeleteArchive(c)
Failing(c) == DownloadFails(c) \/ UnpackFails(c)

Next ==
  \/ \E c \in Flows :
       Provision(c) \/ Downloading(c) \/ Loading(c) \/ Unpacking(c) \/ Failing(c)
  \/ Die
  \/ Start

Spec == Init /\ [][Next]_vars

\* The steps of a flow are taken, a process that died is started again, and the
\* app prepares again for as long as the model is not there.
FairSpec ==
  /\ Spec
  /\ \A c \in Flows : WF_vars(Downloading(c) \/ Loading(c) \/ Unpacking(c))
  /\ WF_vars(\E c \in Flows : Provision(c))
  /\ WF_vars(Start)

-----------------------------------------------------------------------------
(* Properties.                                                             *)

\* `To prevent partial downloads from being perceived as complete': at no time,
\* also not for the next process, is less than an answer under a final name.
DestinationsAreWhole ==
  \A f \in Range(model.downloads) : Exists(f) => data[path[f]] \in Answers

\* A file is not what its hash says only where a flow ended between the name and
\* the hash, as it may; then it is the last of its model that is there.
HashesAreKept ==
  \A i \in DOMAIN model.downloads :
    model.downloads[i] \in model.checked /\ ~IsWhole(model.downloads[i]) =>
      /\ model.downloads[i] \in unchecked
      /\ \A j \in DOMAIN model.downloads : j > i => ~Exists(model.downloads[j])

\* What is unpacked is whole up to the entry at which the unpacking ended early.
UnpackedAreWhole == \A j \in 1..(stopped - 1) : IsWhole(model.entries[j])

Resting == \A c \in Flows : pc[c] = "idle"

\* How far the errors and deaths of flows that did not overlap reach.  At no time
\* is less than an answer under a final name.  In a model that a loader takes for
\* ready, a file with a hash may be wrong only if nothing hashed it since it got
\* its name, and no file behind it is there; and the entries before the one where
\* the last unpacking ended early are whole.  No more can be said: that file, and
\* that entry with those behind it, may be wrong, half-filled or missing, and the
\* loaders, which look for names only, take such a model for ready all the same.
DamageIsWhereAFlowEnded ==
  ~overlapped =>
    /\ DestinationsAreWhole
    /\ Resting /\ IsReady => HashesAreKept /\ UnpackedAreWhole

\* The preparations of the language model end in an error for good: what an
\* earlier flow left, under the temporary or the final name, takes the space
\* that is asked for before either of them is cleared.
StoppedByLeftovers ==
  /\ up /\ Resting
  /\ InsufficientSpace
  /\ \E p \in {path, temp} : p[Archive] # None /\ data[p[Archive]] # Empty

\* After errors, wrong answers, overlaps and deaths the model is there at last.
\* The language model is so on a device with room for two copies and margins.
\* With less, what a dead download leaves may be in the way of every later one;
\* nothing else is.
ProvisionedAtLast ==
  /\ (model.way = "sized" => model.room >= 2 * Needed) => <>[]IsReady
  /\ <>[](IsReady \/ StoppedByLeftovers)
=============================================================================
