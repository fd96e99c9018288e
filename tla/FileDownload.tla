---------------------------- MODULE FileDownload ----------------------------
(***************************************************************************)
(* Downloading the files of ONE item: FileDownloader.download and          *)
(* _unique_path in src/spconnect/files.py, run by the thread pool of       *)
(* Crawler._collect_files in crawl.py.  Every item's directory is its      *)
(* own, so items do not meet; the downloads of one item do, in the         *)
(* directory, and later runs meet the files of earlier ones, which a crawl *)
(* never removes.                                                          *)
(*                                                                         *)
(* The directory maps paths to files (inodes): unlinking a path takes the  *)
(* name away, not the file from a thread that has it open.  A file is the  *)
(* sequence of its chunks, each named for the target whose bytes it holds. *)
(* The skip policy on extensions touches nothing and is left out.          *)
(***************************************************************************)
EXTENDS Naturals, Sequences, FiniteSets

CONSTANTS
    Targets,      \* the item's files, as (url, name) pairs
    Shared,       \* the targets that have one and the same sanitised name
    Concurrency,  \* SP_CONCURRENCY, the size of the pool
    MaxChunks,    \* SP_MAX_FILE_MB, in chunks
    Suffixes,     \* bound: name(1)..name(Suffixes) are tried, 999 in the code
    MaxRuns,      \* bound: how often the item is crawled
    Hole          \* bytes nobody wrote, between two writers' offsets

ASSUME DownloadAssumption ==
    /\ Shared \subseteq Targets
    /\ Concurrency \in Nat \ {0}
    /\ MaxChunks \in Nat /\ Suffixes \in Nat /\ MaxRuns \in Nat
    /\ Hole \notin Targets

VARIABLES
    run,       \* how many crawls of the item have begun
    dir,       \* the item's directory: a function from its paths to inodes
    data,      \* the chunks of every inode ever created, a sequence of files
    pc,        \* where each target's download is
    path,      \* the path _unique_path chose for it
    inode,     \* the file it has open, 0 when none
    got,       \* `written`, in chunks
    record,    \* the AttachmentRecord: "none", "downloaded" or a skip reason
    met,       \* history: targets whose download overlapped a namesake's
    kept       \* history: the files on record from completed runs

disk == <<dir, data>>
locals == <<pc, path, inode, got, record>>
history == <<met, kept>>
vars == <<run, disk, locals, history>>

Steps   == {"queued", "asking", "opening", "streaming", "done", "raised"}
Records == {"none", "downloaded", "too_large", "download_failed"}
NoPath  == <<>>

(* The names of a target's files: its own, a suffixed one, and at the end  *)
(* one with the process id, which no other run has.                        *)
Base(t)    == IF t \in Shared THEN Shared ELSE {t}
Name(t, k) == <<Base(t), k>>
PidName(t) == <<Base(t), Suffixes + run>>

IsFile(p) == p \in DOMAIN dir
----------------------------------------------------------------------------
(* Mutant: the name is used whether the file exists or not.                *)
AnyPath(t) == Name(t, 0)

(* _unique_path: the first name that is not taken now.  The scan over the  *)
(* names is one step: what matters is that creating the file is another.   *)
UniquePath(t) ==
    IF \E k \in 0..Suffixes : ~IsFile(Name(t, k))
        THEN Name(t, CHOOSE k \in 0..Suffixes :
                        /\ ~IsFile(Name(t, k))
                        /\ \A j \in 0..(k - 1) : IsFile(Name(t, j)))
        ELSE PidName(t)

Unlink(p) == [q \in DOMAIN dir \ {p} |-> dir[q]]

(* A chunk is written at the writer's own offset, whatever the file holds. *)
WriteAt(file, k, t) ==
    [j \in 1..(IF k > Len(file) THEN k ELSE Len(file)) |->
        IF j = k THEN t ELSE IF j <= Len(file) THEN file[j] ELSE Hole]

Answer(t, r) ==
    /\ record' = [record EXCEPT ![t] = r]
    /\ pc' = [pc EXCEPT ![t] = "done"]
    /\ inode' = [inode EXCEPT ![t] = 0]
----------------------------------------------------------------------------
Idle    == \A t \in Targets : pc[t] \in {"done", "raised"}
Busy(t) == pc[t] \in {"asking", "opening", "streaming"}

FreeThread == Cardinality({u \in Targets : Busy(u)}) < Concurrency

Init ==
    /\ run = 0
    /\ dir = <<>> /\ data = <<>>
    /\ pc = [t \in Targets |-> "done"]
    /\ path = [t \in Targets |-> NoPath]
    /\ inode = [t \in Targets |-> 0]
    /\ got = [t \in Targets |-> 0]
    /\ record = [t \in Targets |-> "none"]
    /\ met = {} /\ kept = {}

Downloaded == {t \in Targets : record[t] = "downloaded"}

(* The item's row is built and its files are collected (again).  What the  *)
(* run before recorded, if no download raised, stays on record.            *)
StartRun ==
    /\ Idle /\ run < MaxRuns
    /\ run' = run + 1
    /\ kept' = IF \E t \in Targets : pc[t] = "raised" THEN kept
               ELSE kept \cup {path[t] : t \in {u \in Downloaded : IsFile(path[u])}}
    /\ pc' = [t \in Targets |-> "queued"]
    /\ path' = [t \in Targets |-> NoPath]
    /\ inode' = [t \in Targets |-> 0]
    /\ got' = [t \in Targets |-> 0]
    /\ record' = [t \in Targets |-> "none"]
    /\ met' = {}
    /\ UNCHANGED disk

(* A free thread of the pool takes a target and chooses its path; the file *)
(* is created only when the response has come.                             *)
Choose(t) ==
    /\ pc[t] = "queued"
    /\ FreeThread
    /\ path' = [path EXCEPT ![t] = UniquePath(t)]
    /\ pc' = [pc EXCEPT ![t] = "asking"]
    /\ LET others == {u \in Targets : Busy(u) /\ Base(u) = Base(t)} IN
          met' = IF others = {} THEN met ELSE met \cup others \cup {t}
    /\ UNCHANGED <<run, disk, inode, got, record, kept>>

(* transport.get: a response, or a TransportError after its retries.       *)
Respond(t) ==
    /\ pc[t] = "asking"
    /\ pc' = [pc EXCEPT ![t] = "opening"]
    /\ UNCHANGED <<run, disk, path, inode, got, record, history>>

RequestFails(t) ==
    /\ pc[t] = "asking"
    /\ Answer(t, "download_failed")
    /\ UNCHANGED <<run, disk, path, got, history>>

(* The Content-Length already says too much: no file is created.           *)
DeclaredTooLarge(t) ==
    /\ pc[t] = "opening"
    /\ Answer(t, "too_large")
    /\ UNCHANGED <<run, disk, path, got, history>>

(* open("wb") creates the file or empties the one that is there by now.    *)
Open(t) ==
    /\ pc[t] = "opening"
    /\ pc' = [pc EXCEPT ![t] = "streaming"]
    /\ IF IsFile(path[t])
          THEN /\ data' = [data EXCEPT ![dir[path[t]]] = <<>>]
               /\ inode' = [inode EXCEPT ![t] = dir[path[t]]]
               /\ dir' = dir
          ELSE /\ data' = Append(data, <<>>)
               /\ inode' = [inode EXCEPT ![t] = Len(data) + 1]
               /\ dir' = [q \in DOMAIN dir \cup {path[t]} |->
                             IF q = path[t] THEN Len(data) + 1 ELSE dir[q]]
    /\ UNCHANGED <<run, path, got, record, history>>

Chunk(t) ==
    /\ pc[t] = "streaming"
    /\ got[t] < MaxChunks
    /\ got' = [got EXCEPT ![t] = @ + 1]
    /\ data' = [data EXCEPT ![inode[t]] = WriteAt(@, got'[t], t)]
    /\ UNCHANGED <<run, dir, pc, path, inode, record, history>>

(* Mutant: the file that grew too large stays on disk.                     *)
TooLargeStays(t) ==
    /\ pc[t] = "streaming"
    /\ got[t] = MaxChunks
    /\ Answer(t, "too_large")
    /\ UNCHANGED <<run, disk, path, got, history>>

(* One chunk more than allowed, whatever Content-Length said.              *)
TooLarge(t) ==
    /\ pc[t] = "streaming"
    /\ got[t] = MaxChunks
    /\ dir' = Unlink(path[t])
    /\ Answer(t, "too_large")
    /\ UNCHANGED <<run, data, path, got, history>>

(* Mutant: a broken download goes back to the queue.                       *)
RetryForever(t) ==
    /\ pc[t] \in {"opening", "streaming"}
    /\ dir' = Unlink(path[t])
    /\ pc' = [pc EXCEPT ![t] = "queued"]
    /\ inode' = [inode EXCEPT ![t] = 0]
    /\ got' = [got EXCEPT ![t] = 0]
    /\ UNCHANGED <<run, data, path, record, history>>

(* Mutant: the partial file is recorded although the stream broke.         *)
RecordAnyway(t) ==
    /\ pc[t] \in {"opening", "streaming"}
    /\ dir' = Unlink(path[t])
    /\ Answer(t, "downloaded")
    /\ UNCHANGED <<run, data, path, got, history>>

(* Any exception while opening, reading or writing.                        *)
StreamFails(t) ==
    /\ pc[t] \in {"opening", "streaming"}
    /\ dir' = Unlink(path[t])
    /\ Answer(t, "download_failed")
    /\ UNCHANGED <<run, data, path, got, history>>

Finish(t) ==
    /\ pc[t] = "streaming"
    /\ Answer(t, "downloaded")
    /\ UNCHANGED <<run, disk, path, got, history>>

(* What is raised outside the two handlers: the directory cannot be made,  *)
(* the request dies of something that is no TransportError.  pool.map      *)
(* re-raises it when the other downloads are done.                         *)
Escape(t) ==
    /\ \/ pc[t] = "queued" /\ FreeThread
       \/ pc[t] = "asking"
    /\ pc' = [pc EXCEPT ![t] = "raised"]
    /\ UNCHANGED <<run, disk, path, inode, got, record, history>>

(* The process is killed: whatever is half-written stays.                  *)
Kill ==
    /\ ~Idle
    /\ pc' = [t \in Targets |-> "raised"]
    /\ inode' = [t \in Targets |-> 0]
    /\ UNCHANGED <<run, disk, path, got, record, history>>
----------------------------------------------------------------------------
Thread(t) ==
    \/ Choose(t) \/ Respond(t) \/ RequestFails(t) \/ DeclaredTooLarge(t)
    \/ Open(t) \/ Chunk(t) \/ TooLarge(t) \/ StreamFails(t) \/ Finish(t)
    \/ Escape(t)

Next == StartRun \/ Kill \/ \E t \in Targets : Thread(t)

(* Every request and every read has a timeout, so a thread that has        *)
(* something to do does it, or fails at it.                                *)
Spec     == Init /\ [][Next]_vars
FairSpec == Spec /\ \A t \in Targets : WF_vars(Thread(t))
----------------------------------------------------------------------------
(* Type invariant: paths lead to files that were created, a thread has a   *)
(* file open exactly while it streams.                                     *)
TypeOK ==
    /\ run \in 0..MaxRuns
    /\ DOMAIN dir \subseteq {<<Base(t), k>> : t \in Targets, k \in 0..(Suffixes + MaxRuns)}
    /\ \A p \in DOMAIN dir : dir[p] \in 1..Len(data)
    /\ data \in Seq(Seq(Targets \cup {Hole}))
    /\ pc \in [Targets -> Steps]
    /\ \A t \in Targets : inode[t] # 0 <=> pc[t] = "streaming"
    /\ got \in [Targets -> 0..MaxChunks]
    /\ record \in [Targets -> Records]

(* The record of a download is true: the file is where local_path says,    *)
(* and holds this target's bytes, all of them and no others.               *)
TrueRecord(t) ==
    record[t] = "downloaded" =>
        /\ IsFile(path[t])
        /\ data[dir[path[t]]] = [j \in 1..got[t] |-> t]

(* Downloads that run one after the other, or under different names, leave *)
(* true records, whatever the others of the item do and fail at, as long   *)
(* as the numbered names last: the name with the process id is not checked *)
(* for being free.                                                         *)
TrueRecords ==
    \A t \in Targets \ met :
        path[t] # PidName(t) => TrueRecord(t)

(* A later run never touches a file an earlier one has on record: it       *)
(* neither empties, nor overwrites, nor unlinks it.                        *)
RecordedFilesStay ==
    [][\A p \in kept :
           /\ p \in DOMAIN dir' /\ dir'[p] = dir[p]
           /\ data'[dir[p]] = data[dir[p]]]_vars

(* A run that is not killed leaves no file behind without a record.        *)
NoLitter ==
    (Idle /\ run = 1 /\ \A t \in Targets : pc[t] = "done") =>
        DOMAIN dir \subseteq {path[t] : t \in Downloaded}

(* Types, and a directory without litter.                                  *)
Consistent == TypeOK /\ NoLitter

(* Every target gets its answer, also from a server that never stops       *)
(* sending: the size limit ends the download.                              *)
EveryTargetAnswered == \A t \in Targets : pc[t] = "queued" ~> pc[t] \in {"done", "raised"}
=============================================================================
