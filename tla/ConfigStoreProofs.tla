------------------------- MODULE ConfigStoreProofs -------------------------
(***************************************************************************)
(* Proofs about AtomicFile for any processes, inodes and contents, and     *)
(* about ConfigStore, which uses it: FileInv is inductive, no save leaves  *)
(* its temporary behind, the file implements CrashRegister whatever step   *)
(* of a save fails or is cut short by a kill or a power cut, and what a    *)
(* run starts with is what one save wrote.                                 *)
(***************************************************************************)
EXTENDS ConfigStore, SequenceTheorems, TLAPS

\* A prefix is a sequence, and one that is as long as the whole is the whole.
LEMMA PrefixType ==
  ASSUME NEW S, NEW s \in Seq(S), NEW n \in Nat
  PROVE  /\ Prefix(s, n) \in Seq(S)
         /\ Len(Prefix(s, n)) = IF n < Len(s) THEN n ELSE Len(s)
         /\ n >= Len(s) => Prefix(s, n) = s
<1> DEFINE m == IF n < Len(s) THEN n ELSE Len(s)
<1>1. m \in Nat /\ m <= Len(s)
  OBVIOUS
<1>2. \A i \in 1 .. m : s[i] \in S
  BY <1>1
<1>3. /\ SubSeq(s, 1, m) \in Seq(S)
      /\ Len(SubSeq(s, 1, m)) = IF 1 <= m THEN m - 1 + 1 ELSE 0
  BY <1>1, <1>2, SubSeqProperties
<1>4. n >= Len(s) => SubSeq(s, 1, m) = s
  BY SubSeqFull
<1> QED
  BY <1>1, <1>3, <1>4 DEF Prefix

\* A file that keeps a name or a reader keeps its contents.
LEMMA FreeKeeps ==
  ASSUME FileTypeOK, Free,
         Live(entry', disk', tmp', held') \subseteq Live(entry, disk, tmp, held)
  PROVE  /\ data' \in [Live(entry', disk', tmp', held') -> Seq(Pieces)]
         /\ \A i \in Live(entry', disk', tmp', held') :
              /\ data'[i] = data[i]
              /\ i \in synced' <=> i \in synced
         /\ synced' \subseteq Inodes
  BY DEF FileTypeOK, Free

\* The temporary of a save that is under way exists, under its own name only.
LEMMA OwnTemporary ==
  ASSUME FileInv, NEW p \in Procs, pc[p] \in Saving
  PROVE  /\ tmp[p] \in Inodes /\ tmp[p] /= NoInode
         /\ tmp[p] \in DOMAIN data /\ data[tmp[p]] \in Seq(Pieces)
         /\ tmp[p] \notin {entry, disk}
         /\ \A q \in Procs : tmp[p] /= held[q] /\ (q /= p => tmp[p] /= tmp[q])
         /\ body[p] \in Bodies /\ body[p] \in Seq(Pieces)
<1>1. tmp[p] \in Inodes /\ tmp[p] /= NoInode
  BY DEF FileInv, NoTemporaryLeft, FileTypeOK
<1>2. tmp[p] \in DOMAIN data /\ data[tmp[p]] \in Seq(Pieces)
  BY <1>1 DEF FileInv, FileTypeOK, Live
<1>3. tmp[p] \notin {entry, disk} /\ \A q \in Procs : tmp[p] /= held[q]
  BY <1>1 DEF FileInv, Private
<1>4. \A q \in Procs : q /= p => tmp[p] /= tmp[q]
  BY <1>1 DEF FileInv, NoTemporaryLeft
<1>5. body[p] \in Bodies /\ body[p] \in Seq(Pieces)
  BY FileAssumption DEF FileInv, Progress, ProgressOf, FileAssumption
<1> QED
  BY <1>1, <1>2, <1>3, <1>4, <1>5

\* A process that a step does not touch, nor the files it has, is where it was.
LEMMA Untouched ==
  ASSUME FileInv, NEW q \in Procs,
         pc'[q] = pc[q], tmp'[q] = tmp[q], body'[q] = body[q],
         held'[q] = held[q], got'[q] = got[q],
         tmp[q] /= NoInode => data'[tmp[q]] = data[tmp[q]] /\ (tmp[q] \in synced => tmp[q] \in synced'),
         held[q] /= NoInode => data'[held[q]] = data[held[q]]
  PROVE  ProgressOf(q)' /\ ReadingOf(q)'
<1>1. ProgressOf(q) /\ ReadingOf(q)
  BY DEF FileInv, Progress, Reading
<1>2. pc[q] \in Saving => tmp[q] /= NoInode
  BY DEF FileInv, NoTemporaryLeft
<1>3. ProgressOf(q)'
  BY <1>1, <1>2 DEF ProgressOf, Saving
<1>4. ReadingOf(q)'
  BY <1>1 DEF ReadingOf
<1> QED
  BY <1>3, <1>4

\* At first the file is settled and nobody is doing anything.
LEMMA InitInv == FileInit => FileInv
<1> SUFFICES ASSUME FileInit PROVE FileInv
  OBVIOUS
<1> USE FileAssumption DEF FileAssumption
<1>1. FileTypeOK
  <2>1. Live(entry, disk, tmp, held) = {entry} \ {NoInode}
    BY DEF FileInit, Live
  <2>2. data \in [{entry} \ {NoInode} -> Seq(Pieces)]
    BY DEF FileInit
  <2> QED
    BY <2>1, <2>2 DEF FileInit, FileTypeOK, Step
<1>2. NoTemporaryLeft /\ EntrySettled /\ Private
  BY DEF FileInit, NoTemporaryLeft, EntrySettled, Private, Saving
<1>3. Progress /\ Reading
  BY DEF FileInit, Progress, ProgressOf, Reading, ReadingOf, Saving
<1> QED
  BY <1>1, <1>2, <1>3 DEF FileInv

LEMMA CreateInv ==
  ASSUME FileInv, NEW p \in Procs, NEW b \in Bodies, Create(p, b)
  PROVE  FileInv'
<1> USE FileAssumption DEF FileAssumption
<1>1. PICK i \in Inodes \ DOMAIN data :
        /\ tmp' = [tmp EXCEPT ![p] = i]
        /\ data' = [j \in DOMAIN data \cup {i} |-> IF j = i THEN <<>> ELSE data[j]]
  BY DEF Create
<1>2. i \notin Live(entry, disk, tmp, held) /\ i /= NoInode
  BY <1>1 DEF FileInv, FileTypeOK
<1>3. tmp[p] = NoInode
  BY DEF FileInv, NoTemporaryLeft, Create, Saving
<1>4. Live(entry, disk, tmp, held)' = Live(entry, disk, tmp, held) \cup {i}
  <2>1. tmp'[p] = i /\ \A q \in Procs : q /= p => tmp'[q] = tmp[q]
    BY <1>1 DEF FileInv, FileTypeOK
  <2> DEFINE T  == {tmp[q] : q \in Procs}
             Tn == {tmp'[q] : q \in Procs}
             H  == {held[q] : q \in Procs}
  <2>2. Tn \cup {NoInode} = T \cup {i, NoInode}
    BY <1>3, <2>1
  <2>3. Live(entry, disk, tmp, held) = ({entry, disk} \cup T \cup H) \ {NoInode}
    BY DEF Live
  <2>4. Live(entry, disk, tmp, held)' = ({entry, disk} \cup Tn \cup H) \ {NoInode}
    BY DEF Live, Create, dirVars
  <2> HIDE DEF T, Tn, H
  <2> QED
    BY <1>2, <2>2, <2>3, <2>4
<1>5. FileTypeOK'
  <2>1. data' \in [Live(entry, disk, tmp, held)' -> Seq(Pieces)]
    <3>1. <<>> \in Seq(Pieces)
      OBVIOUS
    <3>2. data \in [DOMAIN data -> Seq(Pieces)] /\ DOMAIN data = Live(entry, disk, tmp, held)
      BY DEF FileInv, FileTypeOK
    <3>3. data' \in [DOMAIN data \cup {i} -> Seq(Pieces)]
      BY <1>1, <3>1, <3>2
    <3> QED
      BY <1>4, <3>2, <3>3
  <2>2. tmp' \in [Procs -> Inodes \cup {NoInode}]
    BY <1>1 DEF FileInv, FileTypeOK
  <2>4. body' \in [Procs -> Seq(Pieces)]
    <3>1. b \in Seq(Pieces)
      OBVIOUS
    <3> QED
      BY <3>1 DEF FileInv, FileTypeOK, Create
  <2>3. pc' \in [Procs -> Step]
    BY DEF FileInv, FileTypeOK, Create, Goto, Step, Saving
  <2> QED
    BY <2>1, <2>2, <2>3, <2>4 DEF FileInv, FileTypeOK, Create, dirVars
<1>6. NoTemporaryLeft'
  BY <1>1, <1>2, <1>3 DEF FileInv, FileTypeOK, NoTemporaryLeft, Create, Goto, Saving, Live
<1>7. EntrySettled'
  BY DEF FileInv, EntrySettled, Create, dirVars
<1>8. Private'
  BY <1>1, <1>2, <1>3 DEF FileInv, FileTypeOK, Private, Create, dirVars, Live
<1>9. ASSUME NEW q \in Procs PROVE ProgressOf(q)' /\ ReadingOf(q)'
  <2>1. CASE q = p
    <3>1. Len(<<>>) = 0 /\ Prefix(b, 0) = <<>>
      BY SubSeqEmpty DEF Prefix
    <3>2. tmp'[p] = i /\ data'[i] = <<>> /\ pc'[p] = "write" /\ body'[p] = b
      BY <1>1 DEF FileInv, FileTypeOK, Create, Goto
    <3>3. ProgressOf(q)'
      BY <2>1, <3>1, <3>2 DEF ProgressOf, Saving
    <3>4. held[p] = NoInode /\ got[p] = <<>>
      BY DEF FileInv, Reading, ReadingOf, Create
    <3>5. ReadingOf(q)'
      BY <2>1, <3>2, <3>4 DEF ReadingOf, Create
    <3> QED
      BY <3>3, <3>5
  <2>2. CASE q /= p
    <3>1. pc'[q] = pc[q] /\ tmp'[q] = tmp[q] /\ body'[q] = body[q]
      BY <1>1, <2>2 DEF FileInv, FileTypeOK, Create, Goto
    <3>2. \A j \in Live(entry, disk, tmp, held) : data'[j] = data[j]
      BY <1>1, <1>2 DEF FileInv, FileTypeOK
    <3>3. /\ tmp[q] /= NoInode => data'[tmp[q]] = data[tmp[q]]
          /\ held[q] /= NoInode => data'[held[q]] = data[held[q]]
      BY <3>2 DEF Live
    <3> QED
      BY <3>1, <3>3, Untouched DEF Create
  <2> QED
    BY <2>1, <2>2
<1> QED
  BY <1>5, <1>6, <1>7, <1>8, <1>9 DEF FileInv, Progress, Reading

\* A write changes a temporary that nobody else sees.
LEMMA WriteInv ==
  ASSUME FileInv, NEW p \in Procs, Write(p)
  PROVE  FileInv'
<1> DEFINE t == tmp[p]
<1>1. pc[p] = "write" /\ pc[p] \in Saving
  BY DEF Write, Saving
<1>2. \/ pc'[p] = "write" /\ \E n \in Len(data[t]) + 1 .. Len(body[p]) :
                               data' = [data EXCEPT ![t] = Prefix(body[p], n)]
      \/ pc'[p] = "fsync" /\ Len(data[t]) = Len(body[p]) /\ data' = data
      \/ pc'[p] = "unlink" /\ data' = data
  BY <1>1 DEF Write, FileInv, FileTypeOK, Goto
<1>3. pc' \in [Procs -> Step] /\ (\A q \in Procs : q /= p => pc'[q] = pc[q])
  BY DEF Write, FileInv, FileTypeOK, Goto, Step, Saving
<1>4. ProgressOf(p) /\ ReadingOf(p)
  BY DEF FileInv, Progress, Reading
<1>5. data[t] \in Seq(Pieces) /\ body[p] \in Seq(Pieces) /\ t \in DOMAIN data /\ body[p] \in Bodies
  BY <1>1, OwnTemporary
<1>6. \A n \in Len(data[t]) + 1 .. Len(body[p]) :
        /\ n \in Nat
        /\ Prefix(body[p], n) \in Seq(Pieces)
        /\ Len(Prefix(body[p], n)) = n
  BY <1>5, PrefixType
<1>7. data' \in [DOMAIN data -> Seq(Pieces)] /\ \A i \in DOMAIN data : i /= t => data'[i] = data[i]
  <2>1. data \in [DOMAIN data -> Seq(Pieces)]
    BY DEF FileInv, FileTypeOK
  <2>2. CASE data' = data
    BY <2>1, <2>2
  <2>3. ASSUME NEW s \in Seq(Pieces), data' = [data EXCEPT ![t] = s]
        PROVE  data' \in [DOMAIN data -> Seq(Pieces)] /\ \A i \in DOMAIN data : i /= t => data'[i] = data[i]
    BY <1>5, <2>1, <2>3
  <2> HIDE DEF t
  <2> QED
    BY <1>2, <1>6, <2>2, <2>3
<1>8. FileTypeOK'
  BY <1>3, <1>7 DEF Write, FileInv, FileTypeOK, dirVars
<1>9. NoTemporaryLeft' /\ EntrySettled' /\ Private'
  BY <1>1, <1>2, <1>3 DEF Write, FileInv, NoTemporaryLeft, EntrySettled, Private, Saving, dirVars
<1>10. ProgressOf(p)'
  <2>1. data[t] = Prefix(body[p], Len(data[t])) /\ Len(data[t]) <= Len(body[p])
    BY <1>1, <1>4 DEF ProgressOf
  <2>2. Len(data[t]) = Len(body[p]) => data[t] = body[p]
    BY <1>5, <2>1, PrefixType
  <2>3. pc'[p] = "write" =>
          Len(data'[t]) <= Len(body[p]) /\ data'[t] = Prefix(body[p], Len(data'[t]))
    BY <1>2, <1>5, <1>6
  <2>4. pc'[p] = "fsync" => data'[t] = body[p]
    BY <1>2, <2>2
  <2>5. pc'[p] \in {"write", "fsync", "unlink"}
    BY <1>2
  <2> QED
    BY <1>5, <2>3, <2>4, <2>5 DEF Write, ProgressOf
<1>11. ReadingOf(p)'
  BY <1>1, <1>2, <1>4 DEF ReadingOf, Write
<1>12. ASSUME NEW q \in Procs, q /= p PROVE ProgressOf(q)' /\ ReadingOf(q)'
  <2>1. /\ tmp[q] /= NoInode => tmp[q] \in DOMAIN data /\ tmp[q] /= t
        /\ held[q] /= NoInode => held[q] \in DOMAIN data /\ held[q] /= t
    BY <1>1, <1>12, OwnTemporary DEF FileInv, FileTypeOK, Live
  <2> QED
    BY <1>3, <1>7, <1>12, <2>1, Untouched DEF Write
<1> QED
  BY <1>8, <1>9, <1>10, <1>11, <1>12 DEF FileInv, Progress, Reading

\* The steps that change no directory: the data is made durable, and the
\* descriptor closed.
LEMMA FsyncCloseInv ==
  ASSUME FileInv, NEW p \in Procs, Fsync(p) \/ Close(p)
  PROVE  FileInv'
<1>1. pc[p] \in Saving /\ pc'[p] \in {"close", "chmod", "rename", "unlink"}
  BY DEF Fsync, Close, Saving, Goto, FileInv, FileTypeOK
<1>2. pc' \in [Procs -> Step] /\ (\A q \in Procs : q /= p => pc'[q] = pc[q])
  BY DEF Fsync, Close, FileInv, FileTypeOK, Goto, Step, Saving
<1>3. synced \subseteq synced' /\ synced' \subseteq Inodes
  BY <1>1, OwnTemporary DEF Fsync, Close, nodeVars, FileInv, FileTypeOK
<1>4. UNCHANGED <<data, dirVars, tmp, body, held, got>>
  BY DEF Fsync, Close, nodeVars
<1>5. FileTypeOK' /\ NoTemporaryLeft' /\ EntrySettled' /\ Private'
  BY <1>1, <1>2, <1>3, <1>4
  DEF FileInv, FileTypeOK, NoTemporaryLeft, EntrySettled, Private, Saving, dirVars
<1>6. ProgressOf(p) /\ ReadingOf(p)
  BY DEF FileInv, Progress, Reading
<1>7. ProgressOf(p)'
  BY <1>1, <1>3, <1>4, <1>6 DEF ProgressOf, Fsync, Close, Goto, FileInv, FileTypeOK, Saving
<1>8. ReadingOf(p)'
  BY <1>1, <1>4, <1>6 DEF ReadingOf, Saving
<1>9. ASSUME NEW q \in Procs, q /= p PROVE ProgressOf(q)' /\ ReadingOf(q)'
  BY <1>2, <1>3, <1>4, <1>9, Untouched
<1> QED
  BY <1>5, <1>7, <1>8, <1>9 DEF FileInv, Progress, Reading
\* A step that only lets go of names and of open files keeps all of the
\* invariant that is about a process it does not touch.
LEMMA LetGo ==
  ASSUME FileInv, Free,
         entry' \in Inodes \cup {NoInode}, disk' \in Inodes \cup {NoInode},
         tmp' \in [Procs -> Inodes \cup {NoInode}], held' \in [Procs -> Inodes \cup {NoInode}],
         Live(entry', disk', tmp', held') \subseteq Live(entry, disk, tmp, held),
         body' \in [Procs -> Seq(Pieces)], got' \in [Procs -> Seq(Pieces)],
         pc' \in [Procs -> Step]
  PROVE  /\ FileTypeOK'
         /\ \A i \in Live(entry', disk', tmp', held') :
              data'[i] = data[i] /\ (i \in synced' <=> i \in synced)
         /\ \A q \in Procs :
              (pc'[q] = pc[q] /\ tmp'[q] = tmp[q] /\ body'[q] = body[q]
                /\ held'[q] = held[q] /\ got'[q] = got[q])
                => ProgressOf(q)' /\ ReadingOf(q)'
<1>1. /\ data' \in [Live(entry', disk', tmp', held') -> Seq(Pieces)]
      /\ \A i \in Live(entry', disk', tmp', held') :
           data'[i] = data[i] /\ (i \in synced' <=> i \in synced)
      /\ synced' \subseteq Inodes
  BY FreeKeeps DEF FileInv
<1>2. FileTypeOK'
  BY <1>1 DEF FileTypeOK
<1>3. ASSUME NEW q \in Procs,
             pc'[q] = pc[q] /\ tmp'[q] = tmp[q] /\ body'[q] = body[q]
               /\ held'[q] = held[q] /\ got'[q] = got[q]
      PROVE  ProgressOf(q)' /\ ReadingOf(q)'
  <2>1. /\ tmp[q] /= NoInode => tmp[q] \in Live(entry', disk', tmp', held')
        /\ held[q] /= NoInode => held[q] \in Live(entry', disk', tmp', held')
    BY <1>3 DEF Live
  <2> QED
    BY <1>1, <1>3, <2>1, Untouched
<1> QED
  BY <1>1, <1>2, <1>3

\* A temporary gets the name only when its contents are on the disk.
LEMMA RenameInv ==
  ASSUME FileInv, NEW p \in Procs, Rename(p)
  PROVE  FileInv'
<1>1. pc[p] = "rename" /\ pc[p] \in Saving
  BY DEF Rename, Saving
<1>2. CASE pc'[p] = "unlink" /\ UNCHANGED <<nodeVars, dirVars, tmp, body, held, got>> /\ Goto(p, "unlink")
  <2>1. pc' \in [Procs -> Step] /\ (\A q \in Procs : q /= p => pc'[q] = pc[q])
    BY <1>2 DEF FileInv, FileTypeOK, Goto, Step, Saving
  <2>2. FileTypeOK' /\ NoTemporaryLeft' /\ EntrySettled' /\ Private'
    BY <1>1, <1>2, <2>1
    DEF FileInv, FileTypeOK, NoTemporaryLeft, EntrySettled, Private, Saving, dirVars, nodeVars
  <2>3. ProgressOf(p)' /\ ReadingOf(p)'
    BY <1>1, <1>2 DEF FileInv, Progress, Reading, ProgressOf, ReadingOf, Saving
  <2>4. ASSUME NEW q \in Procs, q /= p PROVE ProgressOf(q)' /\ ReadingOf(q)'
    BY <1>2, <2>1, <2>4, Untouched DEF nodeVars
  <2> QED
    BY <2>2, <2>3, <2>4 DEF FileInv, Progress, Reading
<1>3. CASE /\ entry' = tmp[p]
           /\ tmp' = [tmp EXCEPT ![p] = NoInode]
           /\ body' = [body EXCEPT ![p] = <<>>]
           /\ Goto(p, "idle")
           /\ UNCHANGED <<disk, held, got>>
           /\ Free
  <2>1. /\ tmp[p] \in Inodes /\ tmp[p] /= NoInode
        /\ \A q \in Procs : q /= p => tmp[p] /= tmp[q]
        /\ tmp[p] \in synced
    BY <1>1, OwnTemporary DEF FileInv, Progress, ProgressOf
  <2>2. /\ pc' \in [Procs -> Step] /\ pc'[p] = "idle" /\ (\A q \in Procs : q /= p => pc'[q] = pc[q])
        /\ tmp' \in [Procs -> Inodes \cup {NoInode}] /\ tmp'[p] = NoInode
        /\ \A q \in Procs : q /= p => tmp'[q] = tmp[q]
        /\ body' \in [Procs -> Seq(Pieces)] /\ (\A q \in Procs : q /= p => body'[q] = body[q])
    BY <1>3 DEF FileInv, FileTypeOK, Goto, Step
  <2>3. Live(entry', disk', tmp', held') \subseteq Live(entry, disk, tmp, held)
    BY <1>3, <2>2 DEF Live
  <2>4. /\ FileTypeOK'
        /\ \A i \in Live(entry', disk', tmp', held') :
              data'[i] = data[i] /\ (i \in synced' <=> i \in synced)
        /\ \A q \in Procs : q /= p => ProgressOf(q)' /\ ReadingOf(q)'
    BY <1>3, <2>1, <2>2, <2>3, LetGo DEF FileInv, FileTypeOK
  <2>5. NoTemporaryLeft'
    <3>1. \A q \in Procs : tmp'[q] /= NoInode <=> pc'[q] \in Saving
      BY <2>2 DEF FileInv, NoTemporaryLeft, Saving
    <3>2. \A q, r \in Procs : tmp[q] = tmp[r] /\ tmp[q] /= NoInode => q = r
      BY DEF FileInv, NoTemporaryLeft
    <3>3. \A q, r \in Procs : tmp'[q] = tmp'[r] /\ tmp'[q] /= NoInode => q = r
      BY <2>2, <3>2
    <3> QED
      BY <3>1, <3>3 DEF NoTemporaryLeft
  <2>6. EntrySettled'
    BY <1>3, <2>1, <2>4 DEF FileInv, EntrySettled, Live
  <2>7. Private'
    BY <1>3, <2>1, <2>2 DEF FileInv, Private
  <2>8. ProgressOf(p)' /\ ReadingOf(p)'
    BY <1>1, <1>3, <2>2 DEF FileInv, ProgressOf, ReadingOf, Reading, Saving
  <2> QED
    BY <2>4, <2>5, <2>6, <2>7, <2>8 DEF FileInv, Progress, Reading
<1> QED
  BY <1>2, <1>3 DEF Rename, Goto, FileInv, FileTypeOK

\* The steps by which a process lets go of its temporary or of the file it reads.
LEMMA ReleaseInv ==
  ASSUME FileInv, NEW p \in Procs, Unlink(p) \/ CloseRead(p) \/ Exit(p)
  PROVE  FileInv'
<1>1. Free /\ UNCHANGED dirVars
  BY DEF Unlink, CloseRead, Exit
<1>2. /\ tmp' \in [Procs -> Inodes \cup {NoInode}] /\ held' \in [Procs -> Inodes \cup {NoInode}]
      /\ \A q \in Procs : q /= p => tmp'[q] = tmp[q] /\ held'[q] = held[q]
      /\ body' \in [Procs -> Seq(Pieces)] /\ got' \in [Procs -> Seq(Pieces)]
      /\ \A q \in Procs : q /= p => body'[q] = body[q] /\ got'[q] = got[q]
  <2>1. <<>> \in Seq(Pieces)
    OBVIOUS
  <2>2. CASE Unlink(p)
    BY <2>1, <2>2 DEF FileInv, FileTypeOK, Unlink
  <2>3. CASE CloseRead(p)
    BY <2>1, <2>3 DEF FileInv, FileTypeOK, CloseRead
  <2>4. CASE Exit(p)
    BY <2>1, <2>4 DEF FileInv, FileTypeOK, Exit
  <2> QED
    BY <2>2, <2>3, <2>4
<1>3. /\ pc' \in [Procs -> Step] /\ pc'[p] \in {"idle", "off"}
      /\ \A q \in Procs : q /= p => pc'[q] = pc[q]
  BY DEF FileInv, FileTypeOK, Goto, Step, Unlink, CloseRead, Exit
<1>4. tmp'[p] = NoInode /\ held'[p] = NoInode
  BY DEF FileInv, FileTypeOK, NoTemporaryLeft, Reading, ReadingOf, Saving, Unlink, CloseRead, Exit
<1>5. Live(entry', disk', tmp', held') \subseteq Live(entry, disk, tmp, held)
  <2>1. \A q \in Procs : tmp'[q] \in {tmp[q], NoInode} /\ held'[q] \in {held[q], NoInode}
    BY <1>2, <1>4
  <2> QED
    BY <1>1, <2>1 DEF Live, dirVars
<1>6. /\ FileTypeOK'
      /\ \A i \in Live(entry', disk', tmp', held') :
            data'[i] = data[i] /\ (i \in synced' <=> i \in synced)
      /\ \A q \in Procs : q /= p => ProgressOf(q)' /\ ReadingOf(q)'
  BY <1>1, <1>2, <1>3, <1>5, LetGo DEF FileInv, FileTypeOK, dirVars
<1>7. NoTemporaryLeft'
  <2>1. \A q \in Procs : tmp'[q] /= NoInode <=> pc'[q] \in Saving
    BY <1>2, <1>3, <1>4 DEF FileInv, NoTemporaryLeft, Saving
  <2>2. \A q, r \in Procs : tmp[q] = tmp[r] /\ tmp[q] /= NoInode => q = r
    BY DEF FileInv, NoTemporaryLeft
  <2>3. \A q, r \in Procs : tmp'[q] = tmp'[r] /\ tmp'[q] /= NoInode => q = r
    BY <1>2, <1>4, <2>2
  <2> QED
    BY <2>1, <2>3 DEF NoTemporaryLeft
<1>8. EntrySettled'
  BY <1>1, <1>6 DEF FileInv, EntrySettled, Live, dirVars
<1>9. Private'
  BY <1>1, <1>2, <1>4 DEF FileInv, Private, dirVars
<1>10. ProgressOf(p)' /\ ReadingOf(p)'
  <2>1. got'[p] = <<>>
    BY DEF FileInv, FileTypeOK, Reading, ReadingOf, Unlink, CloseRead, Exit
  <2> QED
    BY <1>3, <1>4, <2>1 DEF ProgressOf, ReadingOf, Saving
<1> QED
  BY <1>6, <1>7, <1>8, <1>9, <1>10 DEF FileInv, Progress, Reading

\* A run begins by opening the file.
LEMMA OpenInv ==
  ASSUME FileInv, NEW p \in Procs, Open(p) \/ OpenFails(p)
  PROVE  FileInv'
<1>1. /\ pc[p] = "off" /\ pc'[p] \in {"read", "idle"} /\ tmp[p] = NoInode
      /\ UNCHANGED <<nodeVars, dirVars, tmp, body, got>>
      /\ pc'[p] = "read" => held'[p] = entry /\ entry /= NoInode
      /\ pc'[p] = "idle" => held' = held
  BY DEF FileInv, FileTypeOK, NoTemporaryLeft, Saving, Open, OpenFails, Goto
<1>2. /\ pc' \in [Procs -> Step] /\ held' \in [Procs -> Inodes \cup {NoInode}]
      /\ \A q \in Procs : q /= p => pc'[q] = pc[q] /\ held'[q] = held[q]
  BY DEF FileInv, FileTypeOK, Open, OpenFails, Goto, Step
<1>3. held[p] = NoInode
  BY <1>1 DEF FileInv, Reading, ReadingOf
<1>4. Live(entry, disk, tmp, held)' = Live(entry, disk, tmp, held)
  <2>1. \A q \in Procs : \/ held'[q] = held[q]
                         \/ q = p /\ held[q] = NoInode /\ held'[q] = entry
    BY <1>1, <1>2, <1>3
  <2> QED
    BY <1>1, <1>3, <2>1 DEF Live, dirVars
<1>5. FileTypeOK'
  BY <1>1, <1>2, <1>4 DEF FileInv, FileTypeOK, nodeVars, dirVars
<1>6. NoTemporaryLeft' /\ EntrySettled'
  BY <1>1, <1>2 DEF FileInv, NoTemporaryLeft, EntrySettled, Saving, nodeVars, dirVars
<1>7. Private'
  BY <1>1, <1>2 DEF FileInv, Private, dirVars
<1>8. ProgressOf(p)' /\ ReadingOf(p)'
  <2>1. got'[p] = <<>> /\ Prefix(data[entry], 0) = <<>> /\ Len(<<>>) = 0
    BY <1>1, SubSeqEmpty DEF FileInv, Reading, ReadingOf, Prefix
  <2>2. ReadingOf(p)'
    BY <1>1, <1>3, <2>1 DEF ReadingOf, nodeVars
  <2> QED
    BY <1>1, <2>2 DEF ProgressOf, Saving
<1>9. ASSUME NEW q \in Procs, q /= p PROVE ProgressOf(q)' /\ ReadingOf(q)'
  BY <1>1, <1>2, <1>9, Untouched DEF nodeVars
<1> QED
  BY <1>5, <1>6, <1>7, <1>8, <1>9 DEF FileInv, Progress, Reading

\* What has been read is a prefix of the file that was opened.
LEMMA ReadInv ==
  ASSUME FileInv, NEW p \in Procs, Read(p)
  PROVE  FileInv'
<1>1. /\ pc[p] = "read" /\ held[p] /= NoInode
      /\ UNCHANGED <<nodeVars, dirVars, tmp, body, held, pc>>
  BY DEF Read, FileInv, Reading, ReadingOf
<1>2. data[held[p]] \in Seq(Pieces)
  BY <1>1 DEF FileInv, FileTypeOK, Live
<1>3. PICK n \in Len(got[p]) + 1 .. Len(data[held[p]]) :
        got' = [got EXCEPT ![p] = Prefix(data[held[p]], n)]
  BY DEF Read
<1>4. n \in Nat /\ Prefix(data[held[p]], n) \in Seq(Pieces) /\ Len(Prefix(data[held[p]], n)) = n
  <2>1. Len(got[p]) \in Nat /\ Len(data[held[p]]) \in Nat
    BY <1>2 DEF FileInv, FileTypeOK
  <2> QED
    BY <1>2, <2>1, PrefixType
<1>5. FileTypeOK' /\ NoTemporaryLeft' /\ EntrySettled' /\ Private'
  BY <1>1, <1>3, <1>4
  DEF FileInv, FileTypeOK, NoTemporaryLeft, EntrySettled, Private, nodeVars, dirVars
<1>6. ReadingOf(p)' /\ ProgressOf(p)'
  <2>1. got'[p] = Prefix(data[held[p]], Len(got'[p]))
    BY <1>3, <1>4 DEF FileInv, FileTypeOK
  <2> QED
    BY <1>1, <2>1 DEF FileInv, Progress, ProgressOf, ReadingOf, Saving, nodeVars
<1>7. ASSUME NEW q \in Procs, q /= p PROVE ProgressOf(q)' /\ ReadingOf(q)'
  <2>1. got'[q] = got[q]
    BY <1>3, <1>7 DEF FileInv, FileTypeOK
  <2> QED
    BY <1>1, <1>7, <2>1, Untouched DEF nodeVars
<1> QED
  BY <1>5, <1>6, <1>7 DEF FileInv, Progress, Reading

\* The path is removed, or the cache written back.
LEMMA SystemInv ==
  ASSUME FileInv, RemoveFile \/ WriteBack
  PROVE  FileInv'
<1>1. UNCHANGED <<tmp, body, held, got, pc>>
  BY DEF RemoveFile, WriteBack
<1>2. CASE /\ Free
           /\ \/ entry' = NoInode /\ disk' = disk
              \/ disk' = entry /\ entry' = entry
  <2>1. /\ {entry', disk'} \subseteq {entry, disk, NoInode}
        /\ Live(entry', disk', tmp', held') \subseteq Live(entry, disk, tmp, held)
    BY <1>1, <1>2 DEF Live
  <2>2. /\ FileTypeOK'
        /\ \A i \in Live(entry', disk', tmp', held') :
              data'[i] = data[i] /\ (i \in synced' <=> i \in synced)
        /\ \A q \in Procs : ProgressOf(q)' /\ ReadingOf(q)'
    BY <1>1, <1>2, <2>1, LetGo DEF FileInv, FileTypeOK
  <2>3. EntrySettled'
    BY <2>1, <2>2 DEF FileInv, EntrySettled, Live
  <2>4. NoTemporaryLeft' /\ Private'
    BY <1>1, <2>1 DEF FileInv, NoTemporaryLeft, Private
  <2> QED
    BY <2>2, <2>3, <2>4 DEF FileInv, Progress, Reading
<1>3. CASE /\ UNCHANGED <<data, dirVars>>
           /\ \E i \in DOMAIN data \ synced : synced' = synced \cup {i}
  <2>1. DOMAIN data \subseteq Inodes
    BY DEF FileInv, FileTypeOK, Live
  <2>2. synced \subseteq synced' /\ synced' \subseteq Inodes
    BY <1>3, <2>1 DEF FileInv, FileTypeOK
  <2>3. FileTypeOK' /\ NoTemporaryLeft' /\ EntrySettled' /\ Private'
    BY <1>1, <1>3, <2>2
    DEF FileInv, FileTypeOK, NoTemporaryLeft, EntrySettled, Private, dirVars
  <2>4. ASSUME NEW q \in Procs PROVE ProgressOf(q)' /\ ReadingOf(q)'
    BY <1>1, <1>3, <2>2, Untouched
  <2> QED
    BY <2>3, <2>4 DEF FileInv, Progress, Reading
<1> QED
  BY <1>2, <1>3 DEF RemoveFile, WriteBack, dirVars

\* The disk has a whole file or none.
LEMMA PowerCutInv ==
  ASSUME FileInv, PowerCut
  PROVE  FileInv'
<1> DEFINE left == {disk} \ {NoInode}
<1>1. /\ Live(entry', disk', tmp', held') = left
      /\ left \subseteq DOMAIN data /\ left \subseteq synced /\ left \subseteq Inodes
  BY DEF FileInv, FileTypeOK, EntrySettled, PowerCut, Live
<1>2. data' = [i \in left |-> data[i]]
  BY <1>1 DEF PowerCut
<1>3. data' \in [left -> Seq(Pieces)]
  BY <1>1, <1>2 DEF FileInv, FileTypeOK
<1>4. FileTypeOK'
  <2>1. <<>> \in Seq(Pieces)
    OBVIOUS
  <2>2. /\ tmp' \in [Procs -> Inodes \cup {NoInode}] /\ held' \in [Procs -> Inodes \cup {NoInode}]
        /\ body' \in [Procs -> Seq(Pieces)] /\ got' \in [Procs -> Seq(Pieces)]
        /\ pc' \in [Procs -> Step]
    BY <2>1 DEF PowerCut, Step
  <2>3. entry' \in Inodes \cup {NoInode} /\ disk' \in Inodes \cup {NoInode} /\ synced' \subseteq Inodes
    BY <1>1 DEF PowerCut, FileInv, FileTypeOK
  <2> QED
    BY <1>1, <1>3, <2>2, <2>3 DEF FileTypeOK
<1>5. NoTemporaryLeft' /\ EntrySettled' /\ Private'
  BY DEF PowerCut, NoTemporaryLeft, EntrySettled, Private, Saving
<1>6. Progress' /\ Reading'
  BY DEF PowerCut, Progress, ProgressOf, Reading, ReadingOf, Saving
<1> QED
  BY <1>4, <1>5, <1>6 DEF FileInv

\* FileInv is kept by every step.
LEMMA NextInv == FileInv /\ [FileNext]_fileVars => FileInv'
<1> SUFFICES ASSUME FileInv, [FileNext]_fileVars PROVE FileInv'
  OBVIOUS
<1>1. CASE RemoveFile \/ WriteBack
  BY <1>1, SystemInv
<1>2. CASE PowerCut
  BY <1>2, PowerCutInv
<1>3. ASSUME NEW p \in Procs, NEW b \in Bodies, Create(p, b) PROVE FileInv'
  BY <1>3, CreateInv
<1>4. ASSUME NEW p \in Procs, Write(p) PROVE FileInv'
  BY <1>4, WriteInv
<1>5. ASSUME NEW p \in Procs, Fsync(p) \/ Close(p) PROVE FileInv'
  BY <1>5, FsyncCloseInv
<1>6. ASSUME NEW p \in Procs, Rename(p) PROVE FileInv'
  BY <1>6, RenameInv
<1>7. ASSUME NEW p \in Procs, Unlink(p) \/ CloseRead(p) \/ Exit(p) PROVE FileInv'
  BY <1>7, ReleaseInv
<1>8. ASSUME NEW p \in Procs, Open(p) \/ OpenFails(p) PROVE FileInv'
  BY <1>8, OpenInv
<1>9. ASSUME NEW p \in Procs, Read(p) PROVE FileInv'
  BY <1>9, ReadInv
<1>10. CASE UNCHANGED fileVars
  <2>1. FileTypeOK' /\ NoTemporaryLeft' /\ EntrySettled' /\ Private'
    BY <1>10 DEF fileVars, FileInv, FileTypeOK, NoTemporaryLeft, EntrySettled, Private
  <2>2. Progress' /\ Reading'
    BY <1>10 DEF fileVars, FileInv, Progress, ProgressOf, Reading, ReadingOf
  <2> QED
    BY <2>1, <2>2 DEF FileInv
<1> QED
  BY <1>1, <1>2, <1>3, <1>4, <1>5, <1>6, <1>7, <1>8, <1>9, <1>10 DEF FileNext

\* The inductive invariant of the file.
THEOREM Invariance == FileSpec => []FileInv
  BY InitInv, NextInv, PTL DEF FileSpec

\* No temporary survives its save.
THEOREM TemporariesGo == FileSpec => []NoTemporaryLeft
<1>1. FileInv => NoTemporaryLeft
  BY DEF FileInv
<1> QED
  BY <1>1, Invariance, PTL
-----------------------------------------------------------------------------
(* The refinement.                                                         *)

LEMMA RegisterInit == FileInit => Register!Init
<1> SUFFICES ASSUME FileInit PROVE Register!Init
  OBVIOUS
<1>1. Stored(entry) \in Contents \cup {Absent}
  BY DEF FileInit, Stored
<1>2. [p \in Procs |-> Stored(held[p])] = [p \in Procs |-> Absent]
  BY DEF FileInit, Stored
<1> QED
  BY <1>1, <1>2 DEF FileInit, Register!Init

\* A successful rename replaces the register's value by what was being saved.
LEMMA RenameReplaces ==
  ASSUME FileInv, NEW p \in Procs, Rename(p)
  PROVE  Register!Replace \/ UNCHANGED Register!vars
<1>1. pc[p] = "rename" /\ pc[p] \in Saving
  BY DEF Rename, Saving
<1>2. CASE UNCHANGED <<nodeVars, dirVars, tmp, body, held, got>>
  BY <1>2 DEF Register!vars, Stored, nodeVars, dirVars
<1>3. CASE /\ entry' = tmp[p]
           /\ tmp' = [tmp EXCEPT ![p] = NoInode]
           /\ UNCHANGED <<disk, held>>
           /\ Free
  <2>1. /\ tmp[p] /= NoInode /\ tmp[p] \in Inodes /\ data[tmp[p]] = body[p] /\ body[p] \in Bodies
        /\ DOMAIN data' = Live(entry', disk', tmp', held')
    BY <1>1, <1>3, OwnTemporary DEF FileInv, Progress, ProgressOf, Free
  <2>2. \A i \in Live(entry', disk', tmp', held') : data'[i] = data[i]
    BY <1>3 DEF Free
  <2>3. Stored(entry)' = body[p]
    BY <1>3, <2>1, <2>2 DEF Stored, Live
  <2>4. Stored(disk)' = Stored(disk)
    BY <1>3, <2>2 DEF Stored, Live
  <2>5. \A q \in Procs : Stored(held[q])' = Stored(held[q])
    BY <1>3, <2>2 DEF Stored, Live
  <2> QED
    BY <2>1, <2>3, <2>4, <2>5 DEF Register!Replace
<1> QED
  BY <1>2, <1>3 DEF Rename

\* A step that neither renames nor opens leaves what the path, the disk and the
\* readers have; a process that lets go of its file stops reading.
LEMMA KeptOrReleased ==
  ASSUME FileInv, NEW p \in Procs, UNCHANGED dirVars,
         \A i \in {entry, disk} \ {NoInode} : data'[i] = data[i],
         \A q \in Procs : held'[q] /= NoInode => data'[held'[q]] = data[held'[q]],
         \A q \in Procs \ {p} : held'[q] = held[q],
         held'[p] \in {held[p], NoInode}
  PROVE  Register!StopReading(p) \/ UNCHANGED Register!vars
<1>1. Stored(entry)' = Stored(entry) /\ Stored(disk)' = Stored(disk)
  BY DEF Stored, dirVars
<1>2. \A q \in Procs \ {p} : Stored(held[q])' = Stored(held[q])
  BY DEF Stored
<1>3. Stored(held[p])' = Stored(held[p]) \/ Stored(held[p])' = Absent
  BY DEF Stored
<1> QED
  BY <1>1, <1>2, <1>3 DEF Register!StopReading, Register!vars

\* Every step of the file is a step of the register or none.
LEMMA RegisterStep ==
  ASSUME FileInv, FileNext
  PROVE  Register!Next \/ UNCHANGED Register!vars
<1>1. CASE RemoveFile
  <2>1. /\ entry' = NoInode /\ disk' = disk /\ held' = held
        /\ \A i \in Live(entry', disk', tmp', held') : data'[i] = data[i]
    BY <1>1 DEF RemoveFile, Free
  <2>2. Stored(entry)' = Absent /\ Stored(disk)' = Stored(disk)
    BY <2>1 DEF Stored, Live
  <2>3. \A q \in Procs : Stored(held[q])' = Stored(held[q])
    BY <2>1 DEF Stored, Live
  <2> QED
    BY <2>2, <2>3 DEF Register!Replace, Register!Next
<1>2. CASE WriteBack
  <2>1. CASE UNCHANGED <<dirVars, data, held>>
    BY <2>1 DEF Register!vars, Stored, dirVars
  <2>2. CASE disk' = entry /\ UNCHANGED <<entry, tmp, held>> /\ Free
    <3>1. \A i \in Live(entry', disk', tmp', held') : data'[i] = data[i]
      BY <2>2 DEF Free
    <3>2. Stored(entry)' = Stored(entry) /\ Stored(disk)' = Stored(entry)
      BY <2>2, <3>1 DEF Stored, Live
    <3>3. \A q \in Procs : Stored(held[q])' = Stored(held[q])
      BY <2>2, <3>1 DEF Stored, Live
    <3> QED
      BY <3>2, <3>3 DEF Register!Settle, Register!Next
  <2> QED
    BY <1>2, <2>1, <2>2 DEF WriteBack
<1>3. CASE PowerCut
  <2>1. disk /= NoInode => disk \in synced /\ data'[disk] = data[disk]
    BY <1>3 DEF PowerCut, FileInv, EntrySettled
  <2>2. /\ entry' = disk /\ disk' = disk
        /\ held' = [p \in Procs |-> NoInode]
    BY <1>3 DEF PowerCut
  <2>3. Stored(entry)' = Stored(disk) /\ Stored(disk)' = Stored(disk)
    BY <2>1, <2>2 DEF Stored
  <2>4. \A q \in Procs : Stored(held[q])' = Absent
    BY <2>2 DEF Stored
  <2> QED
    BY <2>3, <2>4 DEF Register!PowerCut, Register!Next
<1>4. ASSUME NEW p \in Procs, NEW b \in Bodies, Create(p, b)
      PROVE  Register!Next \/ UNCHANGED Register!vars
  <2>1. \A i \in DOMAIN data : data'[i] = data[i]
    BY <1>4 DEF Create
  <2>2. UNCHANGED <<dirVars, held>>
    BY <1>4 DEF Create
  <2>3. /\ \A i \in {entry, disk} \ {NoInode} : data'[i] = data[i]
        /\ \A q \in Procs : held'[q] /= NoInode => data'[held'[q]] = data[held'[q]]
    BY <2>1, <2>2 DEF FileInv, FileTypeOK, Live
  <2> QED
    BY <2>2, <2>3, KeptOrReleased DEF Register!Next
<1>5. ASSUME NEW p \in Procs, Write(p) PROVE Register!Next \/ UNCHANGED Register!vars
  <2>1. pc[p] \in Saving
    BY <1>5 DEF Write, Saving
  <2>2. tmp[p] \notin {entry, disk} /\ \A q \in Procs : tmp[p] /= held[q]
    BY <2>1, OwnTemporary
  <2>3. \A i \in DOMAIN data : i /= tmp[p] => data'[i] = data[i]
    BY <1>5 DEF Write
  <2>4. UNCHANGED <<dirVars, held>>
    BY <1>5 DEF Write
  <2>5. /\ \A i \in {entry, disk} \ {NoInode} : data'[i] = data[i]
        /\ \A q \in Procs : held'[q] /= NoInode => data'[held'[q]] = data[held'[q]]
    BY <2>2, <2>3, <2>4 DEF FileInv, FileTypeOK, Live
  <2> QED
    BY <2>4, <2>5, KeptOrReleased DEF Register!Next
<1>6. ASSUME NEW p \in Procs, Fsync(p) \/ Close(p) \/ OpenFails(p) \/ Read(p)
      PROVE  Register!Next \/ UNCHANGED Register!vars
  BY <1>6 DEF Fsync, Close, OpenFails, Read, nodeVars, dirVars, Register!vars, Stored
<1>7. ASSUME NEW p \in Procs, Rename(p) PROVE Register!Next \/ UNCHANGED Register!vars
  BY <1>7, RenameReplaces DEF Register!Next
<1>8. ASSUME NEW p \in Procs, Unlink(p) \/ CloseRead(p) \/ Exit(p)
      PROVE  Register!Next \/ UNCHANGED Register!vars
  <2>1. /\ UNCHANGED dirVars
        /\ \A i \in Live(entry', disk', tmp', held') : data'[i] = data[i]
    BY <1>8 DEF Unlink, CloseRead, Exit, Free
  <2>2. held'[p] \in {held[p], NoInode} /\ \A q \in Procs \ {p} : held'[q] = held[q]
    BY <1>8 DEF Unlink, CloseRead, Exit, FileInv, FileTypeOK
  <2>3. /\ \A i \in {entry, disk} \ {NoInode} : data'[i] = data[i]
        /\ \A q \in Procs : held'[q] /= NoInode => data'[held'[q]] = data[held'[q]]
    BY <2>1 DEF Live, dirVars
  <2> QED
    BY <2>1, <2>2, <2>3, KeptOrReleased DEF Register!Next
<1>9. ASSUME NEW p \in Procs, Open(p) PROVE Register!Next \/ UNCHANGED Register!vars
  <2>1. /\ UNCHANGED <<data, entry, disk>> /\ held' = [held EXCEPT ![p] = entry]
        /\ held[p] = NoInode
    BY <1>9 DEF Open, nodeVars, dirVars, FileInv, Reading, ReadingOf
  <2>2. Stored(held[p]) = Absent /\ Stored(entry)' = Stored(entry) /\ Stored(disk)' = Stored(disk)
    BY <2>1 DEF Stored
  <2>3. \A q \in Procs : Stored(held[q])' = IF q = p THEN Stored(entry) ELSE Stored(held[q])
    BY <2>1 DEF Stored, FileInv, FileTypeOK
  <2> QED
    BY <2>2, <2>3 DEF Register!StartReading, Register!Next
<1> QED
  BY <1>1, <1>2, <1>3, <1>4, <1>5, <1>6, <1>7, <1>8, <1>9 DEF FileNext

\* The file is a register that a crash may set back but never tear.
THEOREM ImplementsRegister == FileSpec => AtomicReplace
<1>1. FileInv /\ [FileNext]_fileVars => [Register!Next]_(Register!vars)
  <2> SUFFICES ASSUME FileInv, [FileNext]_fileVars
               PROVE  Register!Next \/ UNCHANGED Register!vars
    OBVIOUS
  <2>1. CASE UNCHANGED fileVars
    BY <2>1 DEF fileVars, Register!vars, Stored
  <2> QED
    BY <2>1, RegisterStep
<1> QED
  BY <1>1, RegisterInit, Invariance, PTL DEF FileSpec, AtomicReplace, Register!Spec

-----------------------------------------------------------------------------
(* The settings.                                                           *)

\* What is saved is a file of lines, one for each key.
LEMMA SerializeType ==
  ASSUME NEW c \in Settings
  PROVE  /\ Serialize(c) \in Seq(Line)
         /\ DOMAIN Serialize(c) = 1 .. Len(Order)
         /\ Len(Serialize(c)) = Len(Order)
<1>1. Order \in Seq(Keys)
  BY ConfigAssumption DEF ConfigAssumption
<1>2. \A i \in 1 .. Len(Order) : Order[i] \in Keys /\ c[Order[i]] \in Values
  BY <1>1 DEF Settings
<1>3. \A i \in 1 .. Len(Order) : [key |-> Order[i], value |-> c[Order[i]]] \in Line
  BY <1>2 DEF Line
<1>4. Len(Order) \in Nat
  BY <1>1
<1> DEFINE f == [i \in 1 .. Len(Order) |-> [key |-> Order[i], value |-> c[Order[i]]]]
<1>5. f \in [1 .. Len(Order) -> Line]
  BY <1>3
<1>6. f \in Seq(Line) /\ DOMAIN f = 1 .. Len(Order)
  BY <1>4, <1>5
<1>7. Len(f) = Len(Order)
  BY <1>4, <1>5, <1>6
<1> QED
  BY <1>6, <1>7 DEF Serialize

\* Whatever the lines, what is loaded are settings.
LEMMA ParseType ==
  ASSUME NEW text \in Seq(Line)
  PROVE  Parse(text) \in Settings
<1> SUFFICES ASSUME NEW k \in Keys
             PROVE  /\ Parse(text)[k] \in values[k]
                    /\ Parse(text)[k] \in Values
  BY DEF Settings, Parse
<1>1. \A v \in values[k] : v \in Values
  BY DEF Values
<1>2. CASE LastOf(text, k) = {}
  <2>1. Parse(text)[k] = defaults[k]
    BY <1>2 DEF Parse
  <2> QED
    BY <2>1, <1>1, ConfigAssumption DEF ConfigAssumption, Settings
<1>3. CASE LastOf(text, k) /= {}
  <2>1. PICK i \in LastOf(text, k) : Parse(text)[k] = Interpret(k, text[i].value)
    BY <1>3 DEF Parse
  <2>2. text[i] \in Line /\ Usable(k, text[i].value)
    BY <2>1 DEF LastOf, Gives
  <2>3. text[i].value \in Values
    BY <2>2 DEF Line
  <2>4. CASE k \in Flags
    BY <2>1, <2>4, <1>1, ConfigAssumption DEF Interpret, ConfigAssumption
  <2>5. CASE k \in Numbers /\ k \notin Flags
    BY <2>1, <2>2, <2>5, <1>1, ConfigAssumption DEF Interpret, Usable, ConfigAssumption
  <2>6. CASE k \notin Numbers /\ k \notin Flags
    BY <2>1, <2>3, <2>6, <1>1, ConfigAssumption DEF Interpret, ConfigAssumption
  <2> QED
    BY <2>4, <2>5, <2>6
<1> QED
  BY <1>2, <1>3

\* What one save wrote is loaded again, except the numbers that load() rejects.
LEMMA RoundTrip ==
  ASSUME NEW c \in Settings, NEW k \in Keys
  PROVE  Parse(Serialize(c))[k] = IF Usable(k, c[k]) THEN c[k] ELSE defaults[k]
<1> DEFINE text == Serialize(c)
<1>1. /\ Order \in Seq(Keys)
      /\ \A i, j \in DOMAIN Order : Order[i] = Order[j] => i = j
      /\ k \in Flags => values[k] = {"true", "false"}
  BY ConfigAssumption DEF ConfigAssumption
<1>2. PICK n \in DOMAIN Order : Order[n] = k
  BY DEF Keys, ToSet
<1>3. n \in 1 .. Len(Order) /\ DOMAIN Order = 1 .. Len(Order)
  BY <1>1, <1>2
<1>4. /\ DOMAIN text = 1 .. Len(Order) /\ Len(text) = Len(Order)
      /\ \A i \in 1 .. Len(Order) : text[i].key = Order[i] /\ text[i].value = c[Order[i]]
  BY SerializeType DEF Serialize
<1>5. \A i \in 1 .. Len(Order) : Gives(text[i], k) <=> i = n /\ Usable(k, c[k])
  BY <1>1, <1>2, <1>3, <1>4 DEF Gives
<1>6. CASE Usable(k, c[k])
  <2>1. n \in LastOf(text, k)
    BY <1>3, <1>4, <1>5, <1>6 DEF LastOf
  <2>2. \A i \in LastOf(text, k) : i = n
    BY <1>4, <1>5 DEF LastOf
  <2>3. Parse(text)[k] = Interpret(k, text[n].value)
    BY <2>1, <2>2 DEF Parse
  <2>4. text[n].value = c[k] /\ c[k] \in values[k]
    BY <1>2, <1>3, <1>4 DEF Settings
  <2>5. Interpret(k, c[k]) = c[k]
    BY <1>1, <2>4 DEF Interpret
  <2> QED
    BY <1>6, <2>3, <2>4, <2>5
<1>7. CASE ~Usable(k, c[k])
  <2>1. LastOf(text, k) = {}
    BY <1>4, <1>5, <1>7 DEF LastOf
  <2> QED
    BY <1>7, <2>1 DEF Parse
<1> QED
  BY <1>6, <1>7

\* Every step of the settings is a step of the file or leaves it alone.
LEMMA ConfigUsesFile ==
  ASSUME ConfigInv, Next
  PROVE  FileNext \/ UNCHANGED fileVars
<1>1. ASSUME NEW p \in Procs, Load(p) PROVE FileNext
  BY <1>1 DEF Load, FileNext
<1>2. ASSUME NEW p \in Procs, Set(p) PROVE UNCHANGED fileVars
  BY <1>2 DEF Set
<1>3. ASSUME NEW p \in Procs, Save(p) PROVE FileNext
  <2>1. mem[p] \in Settings
    BY DEF ConfigInv
  <2>2. Serialize(mem[p]) \in Bodies
    BY <2>1, ConfigAssumption DEF ConfigAssumption
  <2> QED
    BY <1>3, <2>2 DEF Save, FileNext
<1>4. ASSUME NEW p \in Procs, SaveStep(p) PROVE FileNext
  BY <1>4 DEF SaveStep, FileNext
<1>5. ASSUME NEW p \in Procs, Quit(p) PROVE FileNext
  BY <1>5 DEF Quit, FileNext
<1>6. ASSUME PowerFails \/ Environment PROVE FileNext
  BY <1>6 DEF PowerFails, Environment, FileNext
<1> QED
  BY <1>1, <1>2, <1>3, <1>4, <1>5, <1>6 DEF Next

\* A file that had a name or a reader, and keeps what it holds.
LEMMA WholeKept ==
  ASSUME WholeFiles,
         \A i \in ({entry', disk'} \cup {held'[p] : p \in Procs}) \ {NoInode} :
           /\ i \in {entry, disk} \cup {held[p] : p \in Procs}
           /\ data'[i] = data[i]
  PROVE  WholeFiles'
  BY DEF WholeFiles

LEMMA WholeInv ==
  ASSUME FileInv, WholeFiles, FileNext
  PROVE  WholeFiles'
<1>1. CASE RemoveFile \/ WriteBack
  <2>1. /\ entry' \in {entry, NoInode} /\ disk' \in {entry, disk} /\ held' = held
        /\ \A i \in Live(entry', disk', tmp', held') : data'[i] = data[i]
    BY <1>1 DEF RemoveFile, WriteBack, Free, dirVars, FileInv, FileTypeOK
  <2> QED
    BY <2>1, WholeKept DEF Live
<1>2. CASE PowerCut
  <2>1. disk /= NoInode => disk \in synced /\ data'[disk] = data[disk]
    BY <1>2 DEF PowerCut, FileInv, EntrySettled
  <2>2. entry' = disk /\ disk' = disk /\ held' = [p \in Procs |-> NoInode]
    BY <1>2 DEF PowerCut
  <2> QED
    BY <2>1, <2>2, WholeKept
<1>3. ASSUME NEW p \in Procs, NEW b \in Bodies, Create(p, b) PROVE WholeFiles'
  <2>1. UNCHANGED <<entry, disk, held>> /\ \A i \in DOMAIN data : data'[i] = data[i]
    BY <1>3 DEF Create, dirVars
  <2>2. \A i \in ({entry, disk} \cup {held[q] : q \in Procs}) \ {NoInode} : i \in DOMAIN data
    BY DEF FileInv, FileTypeOK, Live
  <2> QED
    BY <2>1, <2>2, WholeKept
<1>4. ASSUME NEW p \in Procs, Write(p) PROVE WholeFiles'
  <2>1. tmp[p] \notin {entry, disk} /\ \A q \in Procs : tmp[p] /= held[q]
    BY <1>4, OwnTemporary DEF Write, Saving
  <2>2. UNCHANGED <<entry, disk, held>> /\ \A i \in DOMAIN data : i /= tmp[p] => data'[i] = data[i]
    BY <1>4 DEF Write, dirVars
  <2>3. \A i \in ({entry, disk} \cup {held[q] : q \in Procs}) \ {NoInode} : i \in DOMAIN data
    BY DEF FileInv, FileTypeOK, Live
  <2> QED
    BY <2>1, <2>2, <2>3, WholeKept
<1>5. ASSUME NEW p \in Procs, Fsync(p) \/ Close(p) \/ OpenFails(p) \/ Read(p)
      PROVE  WholeFiles'
  <2>1. UNCHANGED <<data, entry, disk, held>>
    BY <1>5 DEF Fsync, Close, OpenFails, Read, nodeVars, dirVars
  <2> QED
    BY <2>1, WholeKept
<1>6. ASSUME NEW p \in Procs, Rename(p) PROVE WholeFiles'
  <2>1. CASE UNCHANGED <<data, entry, disk, held>>
    BY <2>1, WholeKept
  <2>2. CASE entry' = tmp[p] /\ UNCHANGED <<disk, held>> /\ Free
    <3>1. data[tmp[p]] \in Bodies /\ tmp[p] /= NoInode
      BY <1>6, OwnTemporary DEF Rename, FileInv, Progress, ProgressOf, Saving
    <3>2. \A i \in ({entry', disk'} \cup {held'[q] : q \in Procs}) \ {NoInode} : data'[i] = data[i]
      BY <2>2 DEF Free, Live
    <3> QED
      BY <2>2, <3>1, <3>2 DEF WholeFiles
  <2> QED
    BY <1>6, <2>1, <2>2 DEF Rename, nodeVars, dirVars
<1>7. ASSUME NEW p \in Procs, Unlink(p) \/ CloseRead(p) \/ Exit(p) PROVE WholeFiles'
  <2>1. /\ UNCHANGED <<entry, disk>>
        /\ \A i \in Live(entry', disk', tmp', held') : data'[i] = data[i]
    BY <1>7 DEF Unlink, CloseRead, Exit, Free, dirVars
  <2>2. \A q \in Procs : held'[q] \in {held[q], NoInode}
    BY <1>7 DEF Unlink, CloseRead, Exit, FileInv, FileTypeOK
  <2> QED
    BY <2>1, <2>2, WholeKept DEF Live
<1>8. ASSUME NEW p \in Procs, Open(p) PROVE WholeFiles'
  <2>1. UNCHANGED <<data, entry, disk>> /\ \A q \in Procs : held'[q] \in {held[q], entry}
    BY <1>8 DEF Open, nodeVars, dirVars, FileInv, FileTypeOK
  <2> QED
    BY <2>1, WholeKept
<1> QED
  BY <1>1, <1>2, <1>3, <1>4, <1>5, <1>6, <1>7, <1>8 DEF FileNext

\* What a process reads to the end is the file it opened.
LEMMA ReadWhole ==
  ASSUME FileInv, NEW p \in Procs, pc[p] = "read", AtEnd(p)
  PROVE  got[p] = data[held[p]]
<1>1. held[p] \in Inodes /\ held[p] /= NoInode
  BY DEF FileInv, FileTypeOK, Reading, ReadingOf
<1>2. data[held[p]] \in Seq(Pieces)
  BY <1>1 DEF FileInv, FileTypeOK, Live
<1>3. got[p] = Prefix(data[held[p]], Len(got[p])) /\ Len(got[p]) = Len(data[held[p]])
  BY DEF AtEnd, FileInv, Reading, ReadingOf
<1>4. Len(data[held[p]]) \in Nat /\ Len(data[held[p]]) >= Len(data[held[p]])
  BY <1>2
<1> QED
  BY <1>2, <1>3, <1>4, PrefixType

\* The settings a step leaves, and that they are the defaults until the file has
\* been read.
LEMMA MemInv ==
  ASSUME ConfigInv, Next
  PROVE  mem' \in [Procs -> Settings] /\ Unloaded'
<1> USE DEF ConfigInv
<1>0. defaults \in Settings /\ Pieces = Line
  BY ConfigAssumption DEF ConfigAssumption
<1>1. ASSUME NEW p \in Procs, Load(p) PROVE mem' \in [Procs -> Settings] /\ Unloaded'
  <2>1. CASE (Open(p) \/ OpenFails(p) \/ Read(p)) /\ UNCHANGED mem
    <3>1. pc[p] \in {"off", "read"} /\ \A q \in Procs : q /= p => pc'[q] = pc[q]
      BY <2>1 DEF Open, OpenFails, Read, Goto, FileInv, FileTypeOK
    <3> QED
      BY <2>1, <3>1 DEF Unloaded
  <2>2. CASE CloseRead(p) /\ UNCHANGED mem
    <3>1. pc[p] = "read" /\ \A q \in Procs : q /= p => pc'[q] = pc[q]
      BY <2>2 DEF CloseRead, Goto, FileInv, FileTypeOK
    <3> QED
      BY <2>2, <3>1 DEF Unloaded
  <2>3. CASE CloseRead(p) /\ AtEnd(p) /\ mem' = [mem EXCEPT ![p] = Parse(got[p])]
    <3>1. pc'[p] = "idle" /\ \A q \in Procs : q /= p => pc'[q] = pc[q]
      BY <2>3 DEF CloseRead, Goto, FileInv, FileTypeOK
    <3>2. got[p] \in Seq(Line)
      BY <1>0 DEF FileInv, FileTypeOK
    <3>3. Parse(got[p]) \in Settings
      BY <3>2, ParseType
    <3> QED
      BY <2>3, <3>1, <3>3 DEF Unloaded
  <2> QED
    BY <1>1, <2>1, <2>2, <2>3 DEF Load
<1>2. ASSUME NEW p \in Procs, Set(p) PROVE mem' \in [Procs -> Settings] /\ Unloaded'
  <2>0. PICK k \in Keys : \E v \in values[k] : mem' = [mem EXCEPT ![p][k] = v]
    BY <1>2 DEF Set
  <2>1. PICK v \in values[k] : mem' = [mem EXCEPT ![p][k] = v]
    BY <2>0
  <2>2. v \in Values
    BY <2>1 DEF Values
  <2>3. [mem[p] EXCEPT ![k] = v] \in Settings
    BY <2>2 DEF Settings
  <2>4. mem' \in [Procs -> Settings] /\ \A q \in Procs : q /= p => mem'[q] = mem[q]
    BY <2>1, <2>3
  <2>5. pc[p] = "idle" /\ pc' = pc
    BY <1>2 DEF Set, fileVars
  <2> QED
    BY <2>4, <2>5 DEF Unloaded
<1>3. ASSUME NEW p \in Procs, Save(p) PROVE mem' \in [Procs -> Settings] /\ Unloaded'
  <2>1. mem' = mem /\ pc'[p] = "write" /\ \A q \in Procs : q /= p => pc'[q] = pc[q]
    BY <1>3 DEF Save, Create, Goto, FileInv, FileTypeOK
  <2> QED
    BY <2>1 DEF Unloaded
<1>4. ASSUME NEW p \in Procs, SaveStep(p) PROVE mem' \in [Procs -> Settings] /\ Unloaded'
  <2>1. mem' = mem /\ pc'[p] \in Saving \cup {"idle"} /\ \A q \in Procs : q /= p => pc'[q] = pc[q]
    BY <1>4 DEF SaveStep, Write, Fsync, Close, Rename, Unlink, Goto, Saving, FileInv, FileTypeOK
  <2> QED
    BY <2>1 DEF Unloaded, Saving
<1>5. ASSUME NEW p \in Procs, Quit(p) PROVE mem' \in [Procs -> Settings] /\ Unloaded'
  <2>1. /\ mem' \in [Procs -> Settings] /\ mem'[p] = defaults
        /\ \A q \in Procs : q /= p => pc'[q] = pc[q] /\ mem'[q] = mem[q]
    BY <1>0, <1>5 DEF Quit, Exit, Goto, FileInv, FileTypeOK
  <2> QED
    BY <2>1 DEF Unloaded
<1>6. CASE PowerFails
  BY <1>0, <1>6 DEF PowerFails, Unloaded
<1>7. CASE Environment
  BY <1>7 DEF Environment, RemoveFile, WriteBack, Unloaded
<1> QED
  BY <1>1, <1>2, <1>3, <1>4, <1>5, <1>6, <1>7 DEF Next

LEMMA ConfigInitInv == Init => ConfigInv
<1> SUFFICES ASSUME Init PROVE ConfigInv
  OBVIOUS
<1>1. FileInv
  BY InitInv DEF Init
<1>2. mem \in [Procs -> Settings] /\ Unloaded
  BY ConfigAssumption DEF Init, ConfigAssumption, Unloaded
<1>3. WholeFiles
  BY DEF Init, FileInit, WholeFiles
<1> QED
  BY <1>1, <1>2, <1>3 DEF ConfigInv

LEMMA ConfigNextInv == ConfigInv /\ [Next]_vars => ConfigInv'
<1> SUFFICES ASSUME ConfigInv, [Next]_vars PROVE ConfigInv'
  OBVIOUS
<1>1. CASE Next
  <2>1. FileInv /\ WholeFiles
    BY DEF ConfigInv
  <2>2. FileInv'
    BY <1>1, <2>1, ConfigUsesFile, NextInv
  <2>3. WholeFiles'
    <3>1. CASE FileNext
      BY <2>1, <3>1, WholeInv
    <3>2. CASE UNCHANGED fileVars
      BY <2>1, <3>2 DEF WholeFiles, fileVars
    <3> QED
      BY <1>1, <3>1, <3>2, ConfigUsesFile
  <2> QED
    BY <1>1, <2>2, <2>3, MemInv DEF ConfigInv
<1>2. CASE UNCHANGED vars
  <2>1. FileInv'
    BY <1>2, NextInv DEF vars, ConfigInv
  <2>2. (mem \in [Procs -> Settings] /\ WholeFiles /\ Unloaded)'
    BY <1>2 DEF vars, fileVars, ConfigInv, WholeFiles, Unloaded
  <2> QED
    BY <2>1, <2>2 DEF ConfigInv
<1> QED
  BY <1>1, <1>2

\* The step that loads the settings of p, and what it loads them from.
LEMMA OneSaveStep ==
  ASSUME ConfigInv, Next, NEW p \in Procs, pc[p] = "read", pc'[p] = "idle"
  PROVE  \/ mem'[p] = defaults
         \/ data[held[p]] \in Contents
         \/ \E c \in Settings :
              /\ data[held[p]] = Serialize(c)
              /\ \A k \in Keys : mem'[p][k] = IF Usable(k, c[k]) THEN c[k] ELSE defaults[k]
<1> USE DEF ConfigInv
<1>1. pc[p] \in Step /\ pc \in [Procs -> Step]
  BY DEF FileInv, FileTypeOK
<1>2. ASSUME NEW q \in Procs, Load(q) PROVE q = p /\ CloseRead(p)
  BY <1>1, <1>2 DEF Load, Open, OpenFails, Read, CloseRead, Goto
<1>3. ~PowerFails /\ ~Environment
  BY DEF PowerFails, PowerCut, Environment, RemoveFile, WriteBack
<1>4. \A q \in Procs : ~Set(q) /\ ~Save(q) /\ ~SaveStep(q) /\ ~Quit(q)
  BY <1>1 DEF Set, Save, SaveStep, Quit, Create, Write, Fsync, Close, Rename, Unlink,
              Exit, Goto, fileVars
<1>5. Load(p)
  BY <1>2, <1>3, <1>4 DEF Next
<1>6. CASE UNCHANGED mem
  BY <1>6 DEF Unloaded
<1>7. CASE AtEnd(p) /\ mem' = [mem EXCEPT ![p] = Parse(got[p])]
  <2>1. got[p] = data[held[p]]
    BY <1>7, ReadWhole
  <2>2. mem'[p] = Parse(data[held[p]])
    BY <1>7, <2>1
  <2>3. data[held[p]] \in Contents \cup Bodies
    BY DEF WholeFiles, FileInv, Reading, ReadingOf
  <2>4. data[held[p]] \notin Contents => \E c \in Settings : data[held[p]] = Serialize(c)
    BY <2>3, ConfigAssumption DEF ConfigAssumption
  <2> QED
    BY <2>2, <2>4, RoundTrip
<1> QED
  BY <1>5, <1>6, <1>7 DEF Load

\* The inductive invariant of the settings and their file.
THEOREM ConfigInvariance == Spec => []ConfigInv
  BY ConfigInitInv, ConfigNextInv, PTL DEF Spec

\* The settings in memory, and the state of the file, are always what they should
\* be, whatever the file holds.
THEOREM ConfigTypes == Spec => []TypeOK
<1>1. ConfigInv => TypeOK
  BY DEF ConfigInv, FileInv, TypeOK
<1> QED
  BY <1>1, ConfigInvariance, PTL

\* The program uses the file as AtomicFile says.
THEOREM ConfigIsFile == Spec => FileSpec
<1>1. Init => FileInit
  BY DEF Init
<1>2. ConfigInv /\ [Next]_vars => [FileNext]_fileVars
  BY ConfigUsesFile DEF vars
<1> QED
  BY <1>1, <1>2, ConfigInvariance, PTL DEF Spec, FileSpec

\* No save of the settings leaves its temporary in the directory, whichever of its
\* steps fails.
THEOREM ConfigTemporariesGo == Spec => []NoTemporaryLeft
  BY ConfigIsFile, TemporariesGo, PTL

\* The settings' file is a register that a crash may set back but never tear.
THEOREM ConfigIsRegister == Spec => AtomicReplace
  BY ConfigIsFile, ImplementsRegister, PTL

\* A run starts with its defaults or with what one save wrote.
THEOREM OneSave == Spec => StartsWithOneSave
<1>1. ConfigInv /\ [Next]_vars =>
        [\A p \in Procs : pc[p] = "read" /\ pc'[p] = "idle" =>
           \/ mem'[p] = defaults
           \/ data[held[p]] \in Contents
           \/ \E c \in Settings :
                /\ data[held[p]] = Serialize(c)
                /\ \A k \in Keys : mem'[p][k] = IF Usable(k, c[k]) THEN c[k] ELSE defaults[k]]_vars
  BY OneSaveStep
<1> QED
  BY <1>1, ConfigInvariance, PTL DEF Spec, StartsWithOneSave
=============================================================================
