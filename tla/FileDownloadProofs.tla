-------------------------- MODULE FileDownloadProofs --------------------------
(***************************************************************************)
(* For any files of an item, any pool, any size limit and any number of     *)
(* crawls: what FileDownload promises of records and files.                 *)
(***************************************************************************)
EXTENDS FileDownload, WellFoundedInduction, TLAPS

(* A target has no path yet or one of its names, a download that runs has   *)
(* one, and a record stands only at the end of it.                          *)
Names(t) == {Name(t, k) : k \in 0 .. (Suffixes + run)}
PlaceInv ==
    /\ path = [t \in Targets |-> path[t]]
    /\ \A t \in Targets :
          /\ path[t] \in Names(t) \cup {NoPath}
          /\ Busy(t) => path[t] # NoPath
          /\ record[t] = "downloaded" => pc[t] \in {"done", "raised"} /\ path[t] # NoPath

(* No two paths lead to one file, and a thread's file has been created.     *)
InodeInv ==
    /\ \A p, q \in DOMAIN dir : dir[p] = dir[q] => p = q
    /\ inode \in [Targets -> 0 .. Len(data)]

(* What earlier runs recorded is there, under names that no thread of this  *)
(* run holds, in files that none of them has open.                          *)
KeptInv ==
    /\ kept \subseteq DOMAIN dir
    /\ \A p \in kept : p[2] < Suffixes + run
    /\ \A t \in Targets : Busy(t) => path[t] \notin kept
    /\ \A t \in Targets : pc[t] = "streaming" => \A p \in kept : inode[t] # dir[p]

(* A download that has met no namesake and has not run out of names has its *)
(* path to itself, and its file from the first chunk to the record.         *)
Alone(t) == t \notin met /\ path[t] # PidName(t)
Others(t) == {u \in Targets \ {t} : Busy(u)}
NamesakeInv == \A t \in Targets :
    Busy(t) /\ t \notin met => \A u \in Others(t) : Base(u) # Base(t)
FreshInv == \A t \in Targets :
    /\ pc[t] \in {"queued", "asking", "opening"} => got[t] = 0
    /\ Alone(t) /\ pc[t] \in {"asking", "opening"} => ~IsFile(path[t])
StreamInv == \A t \in Targets :
    Alone(t) /\ pc[t] = "streaming" =>
        /\ IsFile(path[t]) /\ dir[path[t]] = inode[t]
        /\ data[inode[t]] = [j \in 1 .. got[t] |-> t]
        /\ \A u \in Others(t) : inode[u] # inode[t]
RecordInv == \A t \in Targets :
    Alone(t) /\ record[t] = "downloaded" =>
        /\ TrueRecord(t)
        /\ \A u \in Others(t) : path[u] # path[t] /\ inode[u] # dir[path[t]]

(* In the first run a file is being written, was left by a thread that was  *)
(* stopped, or is on record.                                                *)
LitterInv ==
    /\ run = 0 => DOMAIN dir = {} /\ Idle
    /\ run = 1 => \A p \in DOMAIN dir : \E t \in Targets :
          path[t] = p /\ (pc[t] \in {"streaming", "raised"} \/ record[t] = "downloaded")

IInv ==
    /\ TypeOK /\ PlaceInv /\ InodeInv /\ KeptInv
    /\ NamesakeInv /\ FreshInv /\ StreamInv /\ RecordInv /\ LitterInv

-----------------------------------------------------------------------------
(* A set of numbers has a least one.                                        *)
LEMMA LeastNumber ==
  ASSUME NEW S \in SUBSET Nat, S # {}
  PROVE  \E x \in S : \A y \in S : x <= y
<1> DEFINE Less == {ss \in Nat \X Nat : ss[1] < ss[2]}
<1>1. IsWellFoundedOn(Less, Nat)
  BY NatLessThanWellFounded DEF OpToRel
<1> HIDE DEF Less
<1>2. PICK x \in S : \A y \in S : ~ (<<y, x>> \in Less)
  BY <1>1, WFMin
<1>3. \A y \in S : ~ (y < x)
  BY <1>2 DEF Less
<1> QED
  BY <1>3

(* The name that _unique_path chooses is free, or the one with the process  *)
(* id, and it is one of the target's names in either case.                  *)
LEMMA UniquePathIsFree ==
  ASSUME NEW t \in Targets, TypeOK
  PROVE  /\ UniquePath(t) \in Names(t)
         /\ UniquePath(t) = PidName(t) \/ ~IsFile(UniquePath(t))
<1> USE DownloadAssumption
<1> DEFINE Free == {k \in 0 .. Suffixes : ~IsFile(Name(t, k))}
           First(k) == ~IsFile(Name(t, k)) /\ \A j \in 0 .. (k - 1) : IsFile(Name(t, j))
           first == CHOOSE k \in 0 .. Suffixes : First(k)
<1>1. CASE Free = {}
  <2>1. UniquePath(t) = PidName(t)
    BY <1>1 DEF UniquePath
  <2> QED
    BY <2>1 DEF PidName, Names, Name, TypeOK
<1>2. CASE Free # {}
  <2>1. PICK x \in Free : \A y \in Free : x <= y
    <3>1. Free \in SUBSET Nat
      OBVIOUS
    <3> HIDE DEF Free
    <3> QED
      BY <1>2, <3>1, LeastNumber
  <2>2. x \in 0 .. Suffixes /\ First(x)
    BY <2>1
  <2>3. UniquePath(t) = Name(t, first)
    BY <1>2 DEF UniquePath
  <2>4. first \in 0 .. Suffixes /\ First(first)
    <3> HIDE DEF First
    <3> QED
      BY <2>2
  <2> QED
    <3>1. \A k \in 0 .. Suffixes : Name(t, k) \in Names(t)
      BY DEF Names, TypeOK
    <3>2. ~IsFile(Name(t, first))
      BY <2>4
    <3> HIDE DEF first
    <3> QED
      BY <2>3, <2>4, <3>1, <3>2
<1> QED
  BY <1>1, <1>2

-----------------------------------------------------------------------------
(* Before the first run there is no file and no thread.                     *)
LEMMA InitIInv == Init => IInv
  BY DownloadAssumption DEF Init, IInv, TypeOK, PlaceInv, InodeInv, KeptInv, NamesakeInv, FreshInv,
     StreamInv, RecordInv, LitterInv,
     Idle, Busy, IsFile, NoPath, Steps, Records, Alone, Others, TrueRecord, Names, Name

LEMMA StartRunIInv == IInv /\ StartRun => IInv'
<1> SUFFICES ASSUME IInv, StartRun PROVE IInv'
  OBVIOUS
<1> USE DownloadAssumption DEF IInv, StartRun, disk
<1>1. TypeOK'
  BY DEF TypeOK, Steps, Records, Idle
<1>2. PlaceInv'
  BY DEF PlaceInv, Busy, Names, Name
<1>3. InodeInv'
  BY DEF InodeInv, TypeOK
<1>4. KeptInv'
  <2>1. ASSUME NEW t \in Targets, path[t] # NoPath PROVE path[t][2] \in 0 .. (Suffixes + run)
    BY <2>1 DEF PlaceInv, Names, Name
  <2>2. \A p \in kept' \ kept : \E t \in Targets : p = path[t] /\ IsFile(p)
    BY DEF Downloaded
  <2>3. \A p \in DOMAIN dir : p # NoPath
    <3> SUFFICES ASSUME NEW p \in DOMAIN dir PROVE p # NoPath
      OBVIOUS
    <3>1. PICK t \in Targets, k \in 0 .. (Suffixes + MaxRuns) : p = <<Base(t), k>>
      BY DEF TypeOK
    <3> QED
      BY <3>1 DEF NoPath
  <2>4. kept' \subseteq DOMAIN dir'
    BY <2>2 DEF KeptInv, IsFile
  <2>5. \A p \in kept' : p[2] < Suffixes + run'
    <3> SUFFICES ASSUME NEW p \in kept' PROVE p[2] < Suffixes + run'
      OBVIOUS
    <3>1. CASE p \in kept
      BY <3>1 DEF KeptInv, TypeOK
    <3>2. CASE p \notin kept
      <4>1. PICK t \in Targets : p = path[t] /\ IsFile(p)
        BY <3>2, <2>2
      <4>2. path[t] # NoPath
        BY <4>1, <2>3 DEF IsFile
      <4> QED
        BY <4>1, <4>2, <2>1 DEF TypeOK
    <3> QED
      BY <3>1, <3>2
  <2> QED
    BY <2>4, <2>5 DEF KeptInv, Busy
<1>5. NamesakeInv' /\ FreshInv' /\ StreamInv' /\ RecordInv'
  BY DEF NamesakeInv, FreshInv, StreamInv, RecordInv, Busy
<1>6. LitterInv'
  BY DEF LitterInv, TypeOK
<1> QED
  BY <1>1, <1>2, <1>3, <1>4, <1>5, <1>6

LEMMA ChooseIInv == ASSUME NEW t \in Targets, IInv, Choose(t) PROVE IInv'
<1> USE DownloadAssumption DEF IInv, Choose, disk
<1>0. /\ UniquePath(t) \in Names(t)
      /\ UniquePath(t) = PidName(t) \/ ~IsFile(UniquePath(t))
  BY UniquePathIsFree
<1>1. TypeOK'
  BY DEF TypeOK, Steps, Records
<1>2. UniquePath(t) # NoPath
  BY <1>0 DEF Names, Name, NoPath
<1>3. \A u \in Targets : path'[u] = IF u = t THEN UniquePath(t) ELSE path[u]
  BY DEF PlaceInv
<1>4. PlaceInv'
  <2>1. path' = [u \in Targets |-> path'[u]]
    BY DEF PlaceInv
  <2>2. Names(t)' = Names(t) /\ \A u \in Targets : Names(u)' = Names(u)
    BY DEF Names, Name
  <2>3. pc' = [pc EXCEPT ![t] = "asking"] /\ record[t] # "downloaded"
    BY DEF PlaceInv
  <2> QED
    BY <1>0, <1>2, <1>3, <2>1, <2>2, <2>3 DEF PlaceInv, Busy, TypeOK
<1>5. InodeInv'
  BY DEF InodeInv
<1>6. KeptInv'
  <2>1. UniquePath(t) \notin kept
    BY <1>0 DEF KeptInv, IsFile, PidName, TypeOK
  <2> QED
    BY <2>1, <1>3 DEF KeptInv, TypeOK, Busy
<1>7. NamesakeInv'
  BY DEF NamesakeInv, TypeOK, Busy, Others
<1>8. FreshInv'
  BY <1>0, <1>3 DEF FreshInv, Alone, TypeOK, IsFile, PidName
<1>9. StreamInv'
  BY <1>3 DEF StreamInv, Alone, TypeOK, IsFile, PidName, Others, Busy
<1>10. RecordInv'
  <2> SUFFICES ASSUME NEW u \in Targets, Alone(u)', record[u] = "downloaded"
               PROVE  TrueRecord(u)' /\ \A v \in Others(u)' : path'[v] # path'[u] /\ inode[v] # dir[path'[u]]
    BY DEF RecordInv
  <2>1. u # t /\ Alone(u) /\ path'[u] = path[u]
    <3>1. u # t
      BY DEF PlaceInv
    <3>2. met \subseteq met' /\ PidName(u)' = PidName(u)
      BY DEF PidName
    <3> QED
      BY <1>3, <3>1, <3>2 DEF Alone
  <2>2. TrueRecord(u)' 
    BY <2>1 DEF RecordInv, TrueRecord, IsFile
  <2>3. UniquePath(t) # path[u]
    <3>1. IsFile(path[u])
      BY <2>1 DEF RecordInv, TrueRecord
    <3>2. CASE UniquePath(t) = PidName(t)
      <4>1. PICK k \in 0 .. (Suffixes + run) : path[u] = Name(u, k)
        BY DEF PlaceInv, Names
      <4> QED
        BY <2>1, <3>2, <4>1 DEF Alone, PidName, Name
    <3> QED
      BY <1>0, <3>1, <3>2
  <2>4. inode[t] # dir[path[u]]
    <3>1. inode[t] = 0
      BY DEF TypeOK
    <3>2. IsFile(path[u])
      BY <2>1 DEF RecordInv, TrueRecord
    <3>3. dir[path[u]] \in 1 .. Len(data)
      BY <3>2 DEF IsFile, TypeOK
    <3> QED
      BY <3>1, <3>3
  <2> QED
    BY <2>1, <2>2, <2>3, <2>4, <1>3 DEF RecordInv, Others, Busy, TypeOK
<1>11. LitterInv'
  <2>1. run # 0
    BY DEF LitterInv, Idle
  <2>2. record[t] # "downloaded"
    BY DEF PlaceInv
  <2>3. \A u \in Targets \ {t} : path'[u] = path[u] /\ pc'[u] = pc[u]
    BY <1>3 DEF TypeOK
  <2> QED
    BY <2>1, <2>2, <2>3 DEF LitterInv
<1> QED
  BY <1>1, <1>4, <1>5, <1>6, <1>7, <1>8, <1>9, <1>10, <1>11

-----------------------------------------------------------------------------
(* Most steps of a thread write nothing: it waits, gives its answer or is   *)
(* stopped, and at most unlinks its own path.                               *)
Ends(u) == UNCHANGED <<pc[u], inode[u], record[u]>> \/ (~Busy(u)' /\ inode'[u] = 0 /\ pc'[u] # "queued")
Quiet ==
    /\ UNCHANGED <<run, data, path, got, met, kept>>
    /\ \A u \in Targets :
          /\ Ends(u) \/ (pc[u] = "asking" /\ pc'[u] = "opening" /\ UNCHANGED <<inode[u], record[u]>>)
          /\ record'[u] = "downloaded" => record[u] = "downloaded"
          /\ pc[u] \in {"streaming", "raised"} \/ record[u] = "downloaded" =>
                \/ pc'[u] \in {"streaming", "raised"} \/ record'[u] = "downloaded"
                \/ path[u] \notin DOMAIN dir'
    /\ \A p \in DOMAIN dir' : p \in DOMAIN dir /\ dir'[p] = dir[p]
    /\ \A p \in DOMAIN dir \ DOMAIN dir' : \E u \in Targets : Busy(u) /\ path[u] = p /\ ~Busy(u)'

(* Two threads at work, one of them without namesakes, have two paths.      *)
LEMMA PathsDiffer ==
  ASSUME NEW t \in Targets, NEW u \in Others(t), PlaceInv, NamesakeInv, Busy(t), t \notin met
  PROVE  path[u] # path[t]
<1>1. Base(u) # Base(t)
  BY DEF NamesakeInv
<1>2. PICK j \in 0 .. (Suffixes + run) : path[t] = Name(t, j)
  BY DEF PlaceInv, Names
<1>3. PICK k \in 0 .. (Suffixes + run) : path[u] = Name(u, k)
  BY DEF PlaceInv, Names, Others
<1> QED
  BY <1>1, <1>2, <1>3 DEF Name

LEMMA QuietIInv ==
  ASSUME IInv, Quiet, TypeOK', inode' \in [Targets -> 0 .. Len(data')]
  PROVE  IInv'
<1> USE DEF IInv
<1>0. /\ UNCHANGED <<run, data, path, got, met, kept>>
      /\ \A p \in DOMAIN dir' : p \in DOMAIN dir /\ dir'[p] = dir[p]
      /\ \A u \in Targets : pc'[u] \in Steps
  BY DEF Quiet, TypeOK
<1>1. \A u \in Targets : Busy(u)' => Busy(u)
  BY DEF Quiet, Ends, Busy
<1>2. \A u \in Targets : pc'[u] = "streaming" => pc[u] = "streaming" /\ inode'[u] = inode[u]
  BY DEF Quiet, Ends, Busy
<1>3. \A u \in Targets : inode'[u] = inode[u] \/ inode'[u] = 0
  BY DEF Quiet, Ends
<1>4. \A u \in Targets : Alone(u)' => Alone(u)
  BY DEF Quiet, Alone, PidName
<1>5. \A u \in Targets : Others(u)' \subseteq Others(u) \cap Targets
  BY <1>1 DEF Others
<1>6. PlaceInv'
  <2>1. \A u \in Targets : Names(u)' = Names(u)
    BY DEF Quiet, Names, Name
  <2>2. \A u \in Targets : record'[u] = "downloaded" => pc'[u] \in {"done", "raised"}
    BY <1>0 DEF Quiet, Ends, PlaceInv, Busy, Steps
  <2> QED
    BY <1>1, <2>1, <2>2 DEF PlaceInv, Quiet
<1>7. InodeInv'
  BY DEF InodeInv, Quiet
<1>8. KeptInv'
  BY <1>1, <1>2 DEF KeptInv, Quiet
<1>9. NamesakeInv'
  BY <1>1, <1>5 DEF NamesakeInv, Quiet
<1>10. FreshInv'
  BY <1>4 DEF FreshInv, Quiet, Ends, Busy, IsFile
<1>11. StreamInv'
  <2> SUFFICES ASSUME NEW t \in Targets, Alone(t)', pc'[t] = "streaming"
               PROVE  /\ path[t] \in DOMAIN dir' /\ dir'[path[t]] = inode'[t]
                      /\ data[inode'[t]] = [j \in 1 .. got[t] |-> t]
                      /\ \A u \in Others(t)' : inode'[u] # inode'[t]
    BY DEF StreamInv, Quiet, IsFile
  <2>1. Alone(t) /\ pc[t] = "streaming" /\ inode'[t] = inode[t] /\ Busy(t) /\ Busy(t)'
    BY <1>2, <1>4 DEF Busy
  <2>2. /\ path[t] \in DOMAIN dir /\ dir[path[t]] = inode[t]
        /\ data[inode[t]] = [j \in 1 .. got[t] |-> t]
        /\ \A u \in Others(t) : inode[u] # inode[t]
    BY <2>1 DEF StreamInv, IsFile
  <2>3. path[t] \in DOMAIN dir'
    BY <2>1, <2>2, PathsDiffer DEF Quiet, Alone, Others
  <2>4. inode[t] # 0
    BY <2>1 DEF TypeOK
  <2> QED
    BY <1>0, <1>3, <1>5, <2>1, <2>2, <2>3, <2>4
<1>12. RecordInv'
  <2> SUFFICES ASSUME NEW t \in Targets, Alone(t)', record'[t] = "downloaded"
               PROVE  /\ path[t] \in DOMAIN dir'
                      /\ data[dir'[path[t]]] = [j \in 1 .. got[t] |-> t]
                      /\ \A u \in Others(t)' : path[u] # path[t] /\ inode'[u] # dir'[path[t]]
    BY DEF RecordInv, TrueRecord, Quiet, IsFile
  <2>1. Alone(t) /\ record[t] = "downloaded"
    BY <1>4 DEF Quiet
  <2>2. /\ path[t] \in DOMAIN dir
        /\ data[dir[path[t]]] = [j \in 1 .. got[t] |-> t]
        /\ \A u \in Others(t) : path[u] # path[t] /\ inode[u] # dir[path[t]]
    BY <2>1 DEF RecordInv, TrueRecord, IsFile
  <2>3. ~Busy(t)
    BY <2>1 DEF PlaceInv, Busy
  <2>4. path[t] \in DOMAIN dir'
    BY <2>2, <2>3 DEF Quiet, Others
  <2>5. dir[path[t]] # 0
    BY <2>2, SMTT(20) DEF TypeOK
  <2> QED
    BY <1>0, <1>3, <1>5, <2>2, <2>4, <2>5
<1>13. LitterInv'
  <2>1. CASE run = 0
    BY <1>0, <2>1, ZenonT(60) DEF LitterInv, Quiet, Idle, Ends, Busy, Steps
  <2>2. CASE run = 1
    BY <2>2 DEF LitterInv, Quiet
  <2> QED
    BY <2>1, <2>2 DEF LitterInv, Quiet
<1> QED
  BY <1>6, <1>7, <1>8, <1>9, <1>10, <1>11, <1>12, <1>13

(* An answer without a record of a file.                                    *)
LEMMA AnswerIInv ==
  ASSUME NEW t \in Targets, NEW r \in {"too_large", "download_failed"}, IInv, Answer(t, r),
         Busy(t), dir' = dir \/ dir' = Unlink(path[t]), pc[t] = "streaming" => dir' = Unlink(path[t]),
         UNCHANGED <<run, data, path, got, history>>
  PROVE  IInv'
<1> USE DEF IInv, Answer, history
<1>1. /\ \A p \in DOMAIN dir' : p \in DOMAIN dir /\ dir'[p] = dir[p]
      /\ \A p \in DOMAIN dir \ DOMAIN dir' : p = path[t]
      /\ pc[t] = "streaming" => path[t] \notin DOMAIN dir'
  BY DEF Unlink
<1>2. /\ \A u \in Targets : pc'[u] = IF u = t THEN "done" ELSE pc[u]
      /\ \A u \in Targets : inode'[u] = IF u = t THEN 0 ELSE inode[u]
      /\ \A u \in Targets : record'[u] = IF u = t THEN r ELSE record[u]
  BY DEF TypeOK, InodeInv
<1>3. TypeOK'
  BY <1>1, <1>2 DEF TypeOK, Steps, Records
<1>4. inode' \in [Targets -> 0 .. Len(data')]
  BY DEF InodeInv, TypeOK
<1>5. Quiet
  BY <1>1, <1>2 DEF Quiet, Ends, Busy, PlaceInv
<1> QED
  BY <1>3, <1>4, <1>5, QuietIInv

LEMMA RespondIInv == ASSUME NEW t \in Targets, IInv, Respond(t) PROVE IInv'
<1> USE DEF IInv, Respond, disk, history
<1>1. TypeOK' /\ inode' \in [Targets -> 0 .. Len(data')]
  BY DEF TypeOK, Steps, InodeInv
<1>2. Quiet
  BY DEF Quiet, Ends, TypeOK
<1> QED
  BY <1>1, <1>2, QuietIInv

LEMMA StopIInv ==
  ASSUME IInv, Kill \/ \E t \in Targets : Escape(t)
  PROVE  IInv'
<1> USE DEF IInv, disk, history
<1>1. CASE Kill
  <2> USE <1>1 DEF Kill
  <2>1. TypeOK' /\ inode' \in [Targets -> 0 .. Len(data')]
    BY DEF TypeOK, Steps, InodeInv
  <2>2. Quiet
    BY DEF Quiet, Ends, Busy
  <2> QED
    BY <2>1, <2>2, QuietIInv
<1>2. ASSUME NEW t \in Targets, Escape(t) PROVE IInv'
  <2> USE <1>2 DEF Escape
  <2>1. TypeOK' /\ inode' \in [Targets -> 0 .. Len(data')]
    BY DEF TypeOK, Steps, InodeInv
  <2>2. Quiet
    BY DEF Quiet, Ends, Busy, TypeOK
  <2> QED
    BY <2>1, <2>2, QuietIInv
<1> QED
  BY <1>1, <1>2

-----------------------------------------------------------------------------
(* The steps that write: the file is created, grows and goes on record.     *)
LEMMA FinishIInv == ASSUME NEW t \in Targets, IInv, Finish(t) PROVE IInv'
<1> USE DEF IInv, Finish, Answer, disk, history
<1>1. /\ pc[t] = "streaming" /\ Busy(t)
      /\ \A u \in Targets : pc'[u] = IF u = t THEN "done" ELSE pc[u]
      /\ \A u \in Targets : inode'[u] = IF u = t THEN 0 ELSE inode[u]
      /\ \A u \in Targets : record'[u] = IF u = t THEN "downloaded" ELSE record[u]
  BY DEF TypeOK, InodeInv, Busy
<1>2. TypeOK'
  BY <1>1 DEF TypeOK, Steps, Records
<1>3. PlaceInv' /\ InodeInv'
  BY <1>1 DEF PlaceInv, InodeInv, Busy, Names, Name
<1>4. KeptInv' /\ NamesakeInv' /\ FreshInv'
  BY <1>1 DEF KeptInv, NamesakeInv, FreshInv, Others, Busy, Alone, PidName, IsFile
<1>5. StreamInv'
  <2>1. \A u \in Targets : Others(u)' \subseteq Others(u) \cap (Targets \ {t})
    BY <1>1 DEF Others, Busy
  <2> QED
    BY <1>1, <2>1 DEF StreamInv, Alone, PidName, IsFile
<1>6. RecordInv'
  <2> SUFFICES ASSUME NEW u \in Targets, Alone(u), record'[u] = "downloaded"
               PROVE  /\ TrueRecord(u)'
                      /\ \A v \in Others(u)' : path[v] # path[u] /\ inode'[v] # dir[path[u]]
    BY DEF RecordInv, Alone, PidName
  <2>1. \A v \in Others(u)' : v \in Others(u) /\ v \in Targets \ {t} /\ inode'[v] = inode[v]
    BY <1>1 DEF Others, Busy
  <2>2. CASE u = t
    BY <1>1, <2>1, <2>2, PathsDiffer DEF StreamInv, TrueRecord, IsFile, Alone
  <2>3. CASE u # t
    BY <1>1, <2>1, <2>3 DEF RecordInv, TrueRecord, IsFile
  <2> QED
    BY <2>2, <2>3
<1>7. LitterInv'
  BY <1>1 DEF LitterInv, Idle
<1> QED
  BY <1>2, <1>3, <1>4, <1>5, <1>6, <1>7

(* What writing at an offset makes of a file, and of one's own at its end.  *)
LEMMA WriteAtType ==
  ASSUME NEW file \in Seq(Targets \cup {Hole}), NEW k \in Nat \ {0}, NEW t \in Targets
  PROVE  WriteAt(file, k, t) \in Seq(Targets \cup {Hole})
<1> DEFINE n == IF k > Len(file) THEN k ELSE Len(file)
<1>1. n \in Nat
  OBVIOUS
<1>2. \A j \in 1 .. n :
        (IF j = k THEN t ELSE IF j <= Len(file) THEN file[j] ELSE Hole) \in Targets \cup {Hole}
  OBVIOUS
<1>3. WriteAt(file, k, t) =
        [j \in 1 .. n |-> IF j = k THEN t ELSE IF j <= Len(file) THEN file[j] ELSE Hole]
  BY DEF WriteAt
<1> HIDE DEF n
<1> QED
  BY <1>1, <1>2, <1>3

LEMMA WriteAtEnd ==
  ASSUME NEW n \in Nat, NEW t \in Targets
  PROVE  WriteAt([j \in 1 .. n |-> t], n + 1, t) = [j \in 1 .. n + 1 |-> t]
<1>1. Len([j \in 1 .. n |-> t]) = n
  OBVIOUS
<1> QED
  BY <1>1 DEF WriteAt

LEMMA ChunkIInv == ASSUME NEW t \in Targets, IInv, Chunk(t) PROVE IInv'
<1> USE DownloadAssumption DEF IInv, Chunk, history
<1>1. /\ Busy(t) /\ inode[t] \in 1 .. Len(data) /\ got[t] \in Nat
      /\ data[inode[t]] \in Seq(Targets \cup {Hole})
      /\ \A u \in Targets : got'[u] = IF u = t THEN got[t] + 1 ELSE got[u]
  BY DEF Busy, TypeOK, InodeInv
<1>2. /\ Len(data') = Len(data)
      /\ \A i \in 1 .. Len(data) : data'[i] = IF i = inode[t] THEN WriteAt(data[i], got[t] + 1, t) ELSE data[i]
  BY <1>1 DEF TypeOK
<1>3. WriteAt(data[inode[t]], got[t] + 1, t) \in Seq(Targets \cup {Hole})
  BY <1>1, WriteAtType, SMTT(20)
<1>4. TypeOK'
  BY <1>1, <1>2, <1>3 DEF TypeOK
<1>5. PlaceInv' /\ InodeInv'
  BY <1>2 DEF PlaceInv, InodeInv, Busy, Names, Name
<1>6. KeptInv' /\ NamesakeInv' /\ FreshInv'
  BY <1>1 DEF KeptInv, NamesakeInv, FreshInv, Others, Busy, Alone, PidName, IsFile
<1>7. StreamInv'
  <2> SUFFICES ASSUME NEW u \in Targets, Alone(u), pc[u] = "streaming"
               PROVE  data'[inode[u]] = [j \in 1 .. got'[u] |-> u]
    BY ZenonT(60) DEF StreamInv, Alone, PidName, Others, Busy, IsFile
  <2>1. data[inode[u]] = [j \in 1 .. got[u] |-> u]
    BY DEF StreamInv
  <2>2. CASE u = t
    <3>1. data'[inode[t]] = WriteAt([j \in 1 .. got[t] |-> t], got[t] + 1, t)
      BY <1>1, <1>2, <2>1, <2>2
    <3>2. WriteAt([j \in 1 .. got[t] |-> t], got[t] + 1, t) = [j \in 1 .. got[t] + 1 |-> t]
      BY <1>1, WriteAtEnd
    <3> QED
      BY <1>1, <2>2, <3>1, <3>2
  <2>3. CASE u # t
    <3>1. inode[t] # inode[u]
      BY <1>1, <2>3 DEF StreamInv, Others
    <3>2. inode[u] \in 1 .. Len(data)
      BY DEF TypeOK, InodeInv
    <3> QED
      BY <1>1, <1>2, <2>1, <2>3, <3>1, <3>2
  <2> QED
    BY <2>2, <2>3
<1>8. RecordInv'
  <2> SUFFICES ASSUME NEW u \in Targets, Alone(u), record[u] = "downloaded"
               PROVE  /\ TrueRecord(u)'
                      /\ \A v \in Others(u)' : path[v] # path[u] /\ inode[v] # dir[path[u]]
    BY DEF RecordInv, Alone, PidName
  <2>1. /\ TrueRecord(u)
        /\ \A v \in Others(u) : path[v] # path[u] /\ inode[v] # dir[path[u]]
    BY DEF RecordInv
  <2>2. u # t
    BY DEF PlaceInv
  <2>3. IsFile(path[u]) /\ dir[path[u]] \in 1 .. Len(data) /\ dir[path[u]] # inode[t]
    BY <1>1, <2>1, <2>2, SMTT(20) DEF TrueRecord, IsFile, TypeOK, Others
  <2>4. TrueRecord(u)'
    BY <1>1, <1>2, <2>1, <2>2, <2>3 DEF TrueRecord, IsFile
  <2>5. Others(u)' = Others(u)
    BY DEF Others, Busy
  <2> QED
    BY <2>1, <2>4, <2>5
<1>9. LitterInv'
  BY DEF LitterInv, Idle
<1> QED
  BY <1>4, <1>5, <1>6, <1>7, <1>8, <1>9

LEMMA OpenIInv == ASSUME NEW t \in Targets, IInv, Open(t) PROVE IInv'
<1> USE DownloadAssumption DEF IInv, history
<1>1. /\ pc[t] = "opening" /\ Busy(t)
      /\ UNCHANGED <<run, path, got, record, met, kept>>
      /\ \A u \in Targets : pc'[u] = IF u = t THEN "streaming" ELSE pc[u]
  BY DEF Open, TypeOK, Busy
<1>2. \A u \in Targets \ {t} : inode'[u] = inode[u]
  BY DEF Open, InodeInv
<1>3. path[t] \in {<<Base(u), k>> : u \in Targets, k \in 0 .. (Suffixes + MaxRuns)}
  <2>1. PICK k \in 0 .. (Suffixes + run) : path[t] = <<Base(t), k>>
    BY <1>1 DEF PlaceInv, Names, Name
  <2> QED
    BY <2>1 DEF TypeOK
<1>4. /\ data' \in Seq(Seq(Targets \cup {Hole}))
      /\ Len(data') >= Len(data) /\ Len(data') \in Nat /\ Len(data) \in Nat
      /\ inode' \in [Targets -> 0 .. Len(data')]
      /\ inode'[t] \in 1 .. Len(data') /\ data'[inode'[t]] = <<>>
      /\ inode'[t] = IF IsFile(path[t]) THEN dir[path[t]] ELSE Len(data) + 1
      /\ \A i \in 1 .. Len(data) : i # inode'[t] => data'[i] = data[i]
      /\ DOMAIN dir' = DOMAIN dir \cup {path[t]}
      /\ \A p \in DOMAIN dir' : dir'[p] = IF p = path[t] THEN inode'[t] ELSE dir[p]
  <2> DEFINE Contents == Seq(Targets \cup {Hole})
  <2>0. /\ data \in Seq(Contents) /\ <<>> \in Contents
        /\ inode \in [Targets -> 0 .. Len(data)] /\ Len(data) \in Nat
    BY DEF TypeOK, InodeInv
  <2> HIDE DEF Contents
  <2>1. CASE IsFile(path[t])
    <3>1. dir' = dir /\ path[t] \in DOMAIN dir /\ dir[path[t]] \in 1 .. Len(data)
      BY <2>1 DEF Open, IsFile, TypeOK
    <3>2. data' = [data EXCEPT ![dir[path[t]]] = <<>>] /\ inode' = [inode EXCEPT ![t] = dir[path[t]]]
      BY <2>1 DEF Open
    <3>3. /\ data' \in Seq(Contents) /\ Len(data') = Len(data) /\ data'[dir[path[t]]] = <<>>
          /\ \A i \in 1 .. Len(data) : i # dir[path[t]] => data'[i] = data[i]
      BY <2>0, <3>1, <3>2
    <3>4. inode' \in [Targets -> 0 .. Len(data')] /\ inode'[t] = dir[path[t]]
      BY <2>0, <3>1, <3>2, <3>3
    <3>5. \A p \in DOMAIN dir' : dir'[p] = IF p = path[t] THEN inode'[t] ELSE dir[p]
      BY <3>1, <3>4
    <3>6. DOMAIN dir' = DOMAIN dir \cup {path[t]}
      BY <3>1
    <3> QED
      BY <2>0, <2>1, <3>1, <3>3, <3>4, <3>5, <3>6 DEF Contents
  <2>2. CASE ~IsFile(path[t])
    <3>1. /\ dir' = [q \in DOMAIN dir \cup {path[t]} |-> IF q = path[t] THEN Len(data) + 1 ELSE dir[q]]
          /\ data' = Append(data, <<>>) /\ inode' = [inode EXCEPT ![t] = Len(data) + 1]
      BY <2>2 DEF Open
    <3>2. /\ data' \in Seq(Contents) /\ Len(data') = Len(data) + 1 /\ data'[Len(data) + 1] = <<>>
          /\ \A i \in 1 .. Len(data) : data'[i] = data[i]
      BY <2>0, <3>1
    <3>3. inode' \in [Targets -> 0 .. Len(data')] /\ inode'[t] = Len(data) + 1
      BY <2>0, <3>1, <3>2
    <3>4. \A p \in DOMAIN dir' : dir'[p] = IF p = path[t] THEN inode'[t] ELSE dir[p]
      BY <3>1, <3>3
    <3>5. DOMAIN dir' = DOMAIN dir \cup {path[t]}
      BY <3>1
    <3> QED
      BY <2>0, <2>2, <3>2, <3>3, <3>4, <3>5 DEF Contents
  <2> QED
    BY <2>1, <2>2
<1>5. \A p \in DOMAIN dir : dir'[p] = dir[p] /\ dir[p] \in 1 .. Len(data)
  <2>1. \A p \in DOMAIN dir : dir[p] \in 1 .. Len(data)
    BY DEF TypeOK
  <2>2. path[t] \in DOMAIN dir => inode'[t] = dir[path[t]]
    BY <1>4 DEF IsFile
  <2> QED
    BY <1>4, <2>1, <2>2
<1>6. TypeOK'
  <2>1. DOMAIN dir' \subseteq {<<Base(u), k>> : u \in Targets, k \in 0 .. (Suffixes + MaxRuns)}
    <3>1. DOMAIN dir \subseteq {<<Base(u), k>> : u \in Targets, k \in 0 .. (Suffixes + MaxRuns)}
      BY DEF TypeOK
    <3> QED
      BY <1>3, <1>4, <3>1
  <2>2. \A p \in DOMAIN dir' : dir'[p] \in 1 .. Len(data')
    BY <1>4, <1>5
  <2>3. pc' \in [Targets -> Steps]
    BY DEF Open, TypeOK, Steps
  <2>4. \A u \in Targets : inode'[u] # 0 <=> pc'[u] = "streaming"
    <3>1. \A u \in Targets : inode[u] # 0 <=> pc[u] = "streaming"
      BY DEF TypeOK
    <3>2. inode'[t] # 0
      BY <1>4
    <3> QED
      BY <1>1, <1>2, <3>1, <3>2
  <2>5. run' \in 0 .. MaxRuns /\ got' \in [Targets -> 0 .. MaxChunks] /\ record' \in [Targets -> Records]
    BY <1>1 DEF TypeOK
  <2>6. data' \in Seq(Seq(Targets \cup {Hole}))
    BY <1>4
  <2> QED
    BY <2>1, <2>2, <2>3, <2>4, <2>5, <2>6 DEF TypeOK
<1>7. PlaceInv'
  BY <1>1 DEF PlaceInv, Busy, Names, Name
<1>8. InodeInv'
  BY <1>4, <1>5 DEF InodeInv, IsFile
<1>9. KeptInv'
  <2>1. \A p \in kept : p \in DOMAIN dir' /\ dir'[p] = dir[p] /\ inode'[t] # dir[p]
    BY <1>1, <1>4, <1>5 DEF KeptInv, InodeInv, IsFile
  <2> QED
    BY <1>1, <1>2, <2>1 DEF KeptInv, Busy
<1>10. NamesakeInv' /\ FreshInv'
  <2>1. \A u \in Targets : Others(u)' = Others(u)
    BY <1>1 DEF Others, Busy
  <2>2. \A u \in Targets \ {t} : Busy(u) /\ u \notin met => path[u] # path[t]
    BY <1>1, PathsDiffer DEF Others
  <2> QED
    BY <1>1, <1>4, <2>1, <2>2 DEF NamesakeInv, FreshInv, Busy, Alone, PidName, IsFile
<1>11. StreamInv'
  <2> SUFFICES ASSUME NEW u \in Targets, Alone(u), pc'[u] = "streaming"
               PROVE  /\ path[u] \in DOMAIN dir' /\ dir'[path[u]] = inode'[u]
                      /\ data'[inode'[u]] = [j \in 1 .. got[u] |-> u]
                      /\ \A v \in Others(u)' : inode'[v] # inode'[u]
    BY <1>1 DEF StreamInv, Alone, PidName, IsFile
  <2>1. \A v \in Others(u)' : v \in Others(u) /\ v \in Targets
    BY <1>1 DEF Others, Busy
  <2>2. CASE u = t
    <3>1. ~IsFile(path[t]) /\ got[t] = 0
      BY <1>1, <2>2 DEF FreshInv
    <3>2. data'[inode'[t]] = [j \in 1 .. 0 |-> t]
      BY <1>4
    <3>3. \A v \in Others(t) : inode'[v] # inode'[t]
      BY <1>2, <1>4, <3>1 DEF InodeInv, Others
    <3> QED
      BY <1>4, <2>1, <2>2, <3>1, <3>2, <3>3
  <2>3. CASE u # t
    <3>1. /\ path[u] \in DOMAIN dir /\ dir[path[u]] = inode[u]
          /\ data[inode[u]] = [j \in 1 .. got[u] |-> u]
          /\ \A v \in Others(u) : inode[v] # inode[u]
      BY <1>1, <2>3 DEF StreamInv, IsFile
    <3>2. path[t] # path[u]
      BY <1>1, <2>3, PathsDiffer DEF Others, Alone, Busy
    <3>3. inode'[t] # inode[u]
      BY <1>4, <1>5, <3>1, <3>2 DEF InodeInv, IsFile
    <3> QED
      BY <1>2, <1>4, <1>5, <2>1, <2>3, <3>1, <3>3
  <2> QED
    BY <2>2, <2>3
<1>12. RecordInv'
  <2> SUFFICES ASSUME NEW u \in Targets, Alone(u), record[u] = "downloaded"
               PROVE  /\ path[u] \in DOMAIN dir'
                      /\ data'[dir'[path[u]]] = [j \in 1 .. got[u] |-> u]
                      /\ \A v \in Others(u)' : path[v] # path[u] /\ inode'[v] # dir'[path[u]]
    BY <1>1 DEF RecordInv, TrueRecord, Alone, PidName, IsFile
  <2>1. /\ path[u] \in DOMAIN dir
        /\ data[dir[path[u]]] = [j \in 1 .. got[u] |-> u]
        /\ \A v \in Others(u) : path[v] # path[u] /\ inode[v] # dir[path[u]]
    BY DEF RecordInv, TrueRecord, IsFile
  <2>2. u # t /\ t \in Others(u)
    BY <1>1 DEF PlaceInv, Others
  <2>3. inode'[t] # dir[path[u]]
    BY <1>4, <1>5, <2>1, <2>2, SMTT(20) DEF InodeInv, IsFile
  <2>4. \A v \in Others(u)' : v \in Others(u) /\ v \in Targets
    BY <1>1 DEF Others, Busy
  <2> QED
    BY <1>2, <1>4, <1>5, <2>1, <2>3, <2>4
<1>13. LitterInv'
  <2>1. run # 0
    BY <1>1 DEF LitterInv, Idle
  <2>2. \A u \in Targets : pc[u] \in {"streaming", "raised"} => pc'[u] = pc[u]
    BY <1>1
  <2> QED
    BY <1>1, <1>4, <2>1, <2>2, SMTT(20) DEF LitterInv
<1> QED
  BY <1>6, <1>7, <1>8, <1>9, <1>10, <1>11, <1>12, <1>13

-----------------------------------------------------------------------------
(* Every step keeps the invariant.                                          *)
LEMMA NextIInv == IInv /\ [Next]_vars => IInv'
<1> SUFFICES ASSUME IInv, [Next]_vars PROVE IInv'
  OBVIOUS
<1>1. CASE StartRun
  BY <1>1, StartRunIInv
<1>2. CASE Kill
  BY <1>2, StopIInv
<1>3. ASSUME NEW t \in Targets, Choose(t) PROVE IInv'
  BY <1>3, ChooseIInv
<1>4. ASSUME NEW t \in Targets, Respond(t) PROVE IInv'
  BY <1>4, RespondIInv
<1>5. ASSUME NEW t \in Targets, RequestFails(t) \/ DeclaredTooLarge(t) PROVE IInv'
  <2>1. \E r \in {"too_large", "download_failed"} : Answer(t, r)
    BY <1>5 DEF RequestFails, DeclaredTooLarge
  <2>2. /\ Busy(t) /\ pc[t] # "streaming" /\ dir' = dir
        /\ UNCHANGED <<run, data, path, got, history>>
    BY <1>5 DEF RequestFails, DeclaredTooLarge, disk, Busy
  <2> QED
    BY <2>1, <2>2, AnswerIInv
<1>6. ASSUME NEW t \in Targets, TooLarge(t) \/ StreamFails(t) PROVE IInv'
  <2>1. \E r \in {"too_large", "download_failed"} : Answer(t, r)
    BY <1>6 DEF TooLarge, StreamFails
  <2>2. /\ Busy(t) /\ dir' = Unlink(path[t])
        /\ UNCHANGED <<run, data, path, got, history>>
    BY <1>6 DEF TooLarge, StreamFails, Busy
  <2> QED
    BY <2>1, <2>2, AnswerIInv
<1>7. ASSUME NEW t \in Targets, Open(t) PROVE IInv'
  BY <1>7, OpenIInv
<1>8. ASSUME NEW t \in Targets, Chunk(t) PROVE IInv'
  BY <1>8, ChunkIInv
<1>9. ASSUME NEW t \in Targets, Finish(t) PROVE IInv'
  BY <1>9, FinishIInv
<1>10. ASSUME NEW t \in Targets, Escape(t) PROVE IInv'
  BY <1>10, StopIInv
<1>11. CASE UNCHANGED vars
  BY <1>11 DEF vars, disk, locals, history, IInv, TypeOK, PlaceInv, InodeInv, KeptInv, NamesakeInv,
     FreshInv, StreamInv, RecordInv, LitterInv, Busy, Others, Alone, PidName, Names, Name, IsFile,
     TrueRecord, Idle
<1> QED
  BY <1>1, <1>2, <1>3, <1>4, <1>5, <1>6, <1>7, <1>8, <1>9, <1>10, <1>11 DEF Next, Thread

(* The inductive invariant of the downloads.                                *)
THEOREM Invariance == Spec => []IInv
  BY InitIInv, NextIInv, PTL DEF Spec

(* The types hold, and a first run that ends by itself leaves no file       *)
(* without a record, however its threads meet in the directory.             *)
THEOREM ConsistentHolds == Spec => []Consistent
<1>1. IInv => Consistent
  BY DEF IInv, LitterInv, Consistent, NoLitter, Downloaded
<1> QED
  BY <1>1, Invariance, PTL

(* A download that met no namesake is recorded truly.                       *)
THEOREM TrueRecordsHolds == Spec => []TrueRecords
<1>1. IInv => TrueRecords
  BY DEF IInv, RecordInv, TrueRecords, TrueRecord, Alone
<1> QED
  BY <1>1, Invariance, PTL

(* No step of a later run touches a file that is on record.                 *)
THEOREM RecordedFilesStayHolds == Spec => RecordedFilesStay
<1> DEFINE Stays == \A p \in kept :
                       /\ p \in DOMAIN dir' /\ dir'[p] = dir[p]
                       /\ data'[dir[p]] = data[dir[p]]
<1>1. IInv /\ [Next]_vars => [Stays]_vars
  <2> SUFFICES ASSUME IInv, Next, NEW p \in kept
               PROVE  p \in DOMAIN dir' /\ dir'[p] = dir[p] /\ data'[dir[p]] = data[dir[p]]
    OBVIOUS
  <2>1. p \in DOMAIN dir /\ dir[p] \in 1 .. Len(data) /\ Len(data) \in Nat /\ data \in Seq(Seq(Targets \cup {Hole}))
    BY DEF IInv, KeptInv, TypeOK
  <2>2. \A t \in Targets : /\ Busy(t) => path[t] # p
                           /\ pc[t] = "streaming" => inode[t] # dir[p]
    BY DEF IInv, KeptInv
  <2>3. CASE UNCHANGED disk
    BY <2>1, <2>3 DEF disk
  <2>4. ASSUME NEW t \in Targets, TooLarge(t) \/ StreamFails(t)
        PROVE  dir' = Unlink(path[t]) /\ data' = data /\ path[t] # p
    BY <2>2, <2>4 DEF TooLarge, StreamFails, Busy
  <2>5. ASSUME NEW t \in Targets, Chunk(t) PROVE dir' = dir /\ data'[dir[p]] = data[dir[p]]
    BY <2>1, <2>2, <2>5 DEF Chunk
  <2>6. ASSUME NEW t \in Targets, Open(t)
        PROVE  p \in DOMAIN dir' /\ dir'[p] = dir[p] /\ data'[dir[p]] = data[dir[p]]
    <3>1. path[t] # p
      BY <2>2, <2>6 DEF Open, Busy
    <3>2. CASE IsFile(path[t])
      <4>1. dir[path[t]] # dir[p]
        BY <2>1, <3>1, <3>2 DEF IInv, InodeInv, IsFile
      <4> QED
        BY <2>1, <2>6, <3>2, <4>1 DEF Open
    <3>3. CASE ~IsFile(path[t])
      BY <2>1, <2>6, <3>1, <3>3 DEF Open
    <3> QED
      BY <3>2, <3>3
  <2>7. \/ UNCHANGED disk
        \/ \E t \in Targets : TooLarge(t) \/ StreamFails(t) \/ Chunk(t) \/ Open(t)
    BY DEF Next, Thread, StartRun, Kill, Choose, Respond, RequestFails, DeclaredTooLarge, Finish, Escape
  <2> QED
    BY <2>1, <2>3, <2>4, <2>5, <2>6, <2>7 DEF Unlink
<1> QED
  BY <1>1, Invariance, PTL DEF Spec, RecordedFilesStay
=============================================================================
