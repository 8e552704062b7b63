----------------------------- MODULE AtomicFile -----------------------------
(***************************************************************************)
(* platform/fs.cpp: one file that processes read with readFile, replace    *)
(* with writeFileAtomic and remove with removeFile, down to the system     *)
(* calls, on a file system that loses what it has not been made to write.  *)
(*                                                                         *)
(* A file is an inode.  It has contents, which are on the disk or only in  *)
(* the page cache; the path is a directory entry, which is also in the     *)
(* cache or on the disk.  Contents are sequences of pieces, of which a     *)
(* write() or fread() transfers one or more.                               *)
(*                                                                         *)
(* Assumed of the system: rename() is atomic, mkstemp() makes a new file,  *)
(* and unlink() of a temporary succeeds.  The temporary of a process that  *)
(* is killed stays in the directory for ever, where nothing reads it.      *)
(***************************************************************************)
EXTENDS Naturals, Sequences

CONSTANTS Procs,
          Inodes,
          NoInode,
          Pieces,     \* what contents are made of
          Contents,   \* what the file may hold at first
          Bodies,     \* what processes save
          Absent      \* the contents of no file

ASSUME FileAssumption ==
  /\ NoInode \notin Inodes
  /\ Contents \subseteq Seq(Pieces)
  /\ Bodies \subseteq Seq(Pieces)

VARIABLES data,     \* inode that has a name or is open -> its contents
          synced,   \* the inodes whose contents are on the disk
          entry,    \* the path: its inode, for the processes and on the disk
          disk,
          tmp,      \* process -> its temporary file
          body,     \* process -> what it is saving
          held,     \* process -> the file it is reading
          got,      \* process -> what it has read of it
          pc        \* process -> where it is

nodeVars == <<data, synced>>
dirVars  == <<entry, disk>>
fileVars == <<data, synced, entry, disk, tmp, body, held, got, pc>>

Saving == {"write", "fsync", "close", "chmod", "rename", "unlink"}
Step   == {"off", "read", "idle"} \cup Saving

Live(e, d, t, h) == ({e, d} \cup {t[p] : p \in Procs} \cup {h[p] : p \in Procs}) \ {NoInode}

FileTypeOK ==
  /\ data \in [Live(entry, disk, tmp, held) -> Seq(Pieces)]
  /\ synced \subseteq Inodes
  /\ entry \in Inodes \cup {NoInode} /\ disk \in Inodes \cup {NoInode}
  /\ tmp  \in [Procs -> Inodes \cup {NoInode}]
  /\ held \in [Procs -> Inodes \cup {NoInode}]
  /\ body \in [Procs -> Seq(Pieces)]
  /\ got  \in [Procs -> Seq(Pieces)]
  /\ pc   \in [Procs -> Step]

FileInit ==
  /\ entry \in Inodes \cup {NoInode}
  /\ disk = entry
  /\ synced = {entry} \ {NoInode}
  /\ \E c \in Contents : data = [i \in synced |-> c]
  /\ tmp  = [p \in Procs |-> NoInode]
  /\ held = [p \in Procs |-> NoInode]
  /\ body = [p \in Procs |-> <<>>]
  /\ got  = [p \in Procs |-> <<>>]
  /\ pc   = [p \in Procs |-> "off"]

-----------------------------------------------------------------------------
\* An inode that has neither a name nor a reader is freed.
Free ==
  /\ data' = [i \in Live(entry', disk', tmp', held') |-> data[i]]
  /\ synced' = synced \cap Live(entry', disk', tmp', held')

\* The first n pieces of s, of which there may be fewer.
Prefix(s, n) == SubSeq(s, 1, IF n < Len(s) THEN n ELSE Len(s))

Goto(p, l) == pc' = [pc EXCEPT ![p] = l]

-----------------------------------------------------------------------------
(* writeFileAtomic.                                                        *)

\* makeDirs and mkstemp.
Create(p, b) ==
  /\ pc[p] = "idle"
  /\ \E i \in Inodes \ DOMAIN data :
       /\ tmp' = [tmp EXCEPT ![p] = i]
       /\ data' = [j \in DOMAIN data \cup {i} |-> IF j = i THEN <<>> ELSE data[j]]
  /\ body' = [body EXCEPT ![p] = b]
  /\ Goto(p, "write")
  /\ UNCHANGED <<synced, dirVars, held, got>>

\* write() takes at least one of the bytes that are left, or fails; EINTR
\* leaves everything as it is.
Write(p) ==
  /\ pc[p] = "write"
  /\ LET done == Len(data[tmp[p]])
     IN \/ /\ \E n \in done + 1 .. Len(body[p]) :
                data' = [data EXCEPT ![tmp[p]] = Prefix(body[p], n)]
           /\ UNCHANGED pc
        \/ /\ done = Len(body[p])
           /\ Goto(p, "fsync")
           /\ UNCHANGED data
        \/ /\ done < Len(body[p])
           /\ Goto(p, "unlink")
           /\ UNCHANGED data
  /\ UNCHANGED <<synced, dirVars, tmp, body, held, got>>

Mutant_NoFsync(p) ==              \* the contents are left to the page cache
  /\ pc[p] = "fsync"
  /\ Goto(p, "close")
  /\ UNCHANGED <<synced, data, dirVars, tmp, body, held, got>>

Fsync(p) ==
  /\ pc[p] = "fsync"
  /\ \/ /\ synced' = synced \cup {tmp[p]}
        /\ Goto(p, "close")
     \/ /\ Goto(p, "unlink")
        /\ UNCHANGED synced
  /\ UNCHANGED <<data, dirVars, tmp, body, held, got>>

\* close() and then chmod(), either of which may fail.
Close(p) ==
  /\ \/ pc[p] = "close" /\ (Goto(p, "chmod") \/ Goto(p, "unlink"))
     \/ pc[p] = "chmod" /\ (Goto(p, "rename") \/ Goto(p, "unlink"))
  /\ UNCHANGED <<nodeVars, dirVars, tmp, body, held, got>>

\* The save has succeeded with it, or the temporary has to go.
Rename(p) ==
  /\ pc[p] = "rename"
  /\ \/ /\ entry' = tmp[p]
        /\ tmp' = [tmp EXCEPT ![p] = NoInode]
        /\ body' = [body EXCEPT ![p] = <<>>]
        /\ Goto(p, "idle")
        /\ UNCHANGED <<disk, held>>
        /\ Free
     \/ /\ Goto(p, "unlink")
        /\ UNCHANGED <<nodeVars, dirVars, tmp, body, held>>
  /\ UNCHANGED got

Mutant_KeepTemporary(p) ==        \* a save that fails leaves its temporary
  /\ pc[p] = "unlink"
  /\ body' = [body EXCEPT ![p] = <<>>]
  /\ Goto(p, "idle")
  /\ UNCHANGED <<nodeVars, dirVars, tmp, held, got>>

Unlink(p) ==
  /\ pc[p] = "unlink"
  /\ tmp' = [tmp EXCEPT ![p] = NoInode]
  /\ body' = [body EXCEPT ![p] = <<>>]
  /\ Goto(p, "idle")
  /\ UNCHANGED <<dirVars, held, got>>
  /\ Free

-----------------------------------------------------------------------------
(* readFile and removeFile.                                                *)

Open(p) ==
  /\ pc[p] = "off"
  /\ entry /= NoInode
  /\ held' = [held EXCEPT ![p] = entry]
  /\ Goto(p, "read")
  /\ UNCHANGED <<nodeVars, dirVars, tmp, body, got>>

Mutant_AtEnd(p) == TRUE           \* a short read is taken for the end

\* readFile goes on reading until there is nothing left.
AtEnd(p) == Len(got[p]) = Len(data[held[p]])

Read(p) ==
  /\ pc[p] = "read"
  /\ \E n \in Len(got[p]) + 1 .. Len(data[held[p]]) :
       got' = [got EXCEPT ![p] = Prefix(data[held[p]], n)]
  /\ UNCHANGED <<nodeVars, dirVars, tmp, body, held, pc>>

\* fclose(), at the end of the file or after an error.
CloseRead(p) ==
  /\ pc[p] = "read"
  /\ held' = [held EXCEPT ![p] = NoInode]
  /\ got' = [got EXCEPT ![p] = <<>>]
  /\ Goto(p, "idle")
  /\ UNCHANGED <<dirVars, tmp, body>>
  /\ Free

\* There is no file, or it cannot be opened.
OpenFails(p) ==
  /\ pc[p] = "off"
  /\ Goto(p, "idle")
  /\ UNCHANGED <<nodeVars, dirVars, tmp, body, held, got>>

RemoveFile ==
  /\ entry' = NoInode
  /\ UNCHANGED <<disk, tmp, held>>
  /\ Free
  /\ UNCHANGED <<body, got, pc>>

-----------------------------------------------------------------------------
(* The system.                                                             *)

\* The cache is written back, in any order.
WriteBack ==
  /\ \/ /\ \E i \in DOMAIN data \ synced : synced' = synced \cup {i}
        /\ UNCHANGED <<dirVars, data>>
     \/ /\ disk' = entry
        /\ UNCHANGED <<entry, tmp, held>>
        /\ Free
  /\ UNCHANGED <<tmp, body, held, got, pc>>

\* The process ends, or is killed wherever it is.
Exit(p) ==
  /\ tmp'  = [tmp EXCEPT ![p] = NoInode]
  /\ held' = [held EXCEPT ![p] = NoInode]
  /\ body' = [body EXCEPT ![p] = <<>>]
  /\ got'  = [got EXCEPT ![p] = <<>>]
  /\ Goto(p, "off")
  /\ UNCHANGED dirVars
  /\ Free

\* What comes back is what the disk has: the directory as it was written last,
\* and of a file that was not, any part of its contents.
PowerCut ==
  /\ entry' = disk
  /\ \E n \in UNION {0 .. Len(data[i]) : i \in DOMAIN data} \cup {0} :
       data' = [i \in {disk} \ {NoInode} |->
                  IF i \in synced THEN data[i] ELSE Prefix(data[i], n)]
  /\ synced' = {disk} \ {NoInode}
  /\ tmp'  = [p \in Procs |-> NoInode]
  /\ held' = [p \in Procs |-> NoInode]
  /\ body' = [p \in Procs |-> <<>>]
  /\ got'  = [p \in Procs |-> <<>>]
  /\ pc'   = [p \in Procs |-> "off"]
  /\ UNCHANGED disk

FileNext ==
  \/ RemoveFile \/ WriteBack \/ PowerCut
  \/ \E p \in Procs :
       \/ \E b \in Bodies : Create(p, b)
       \/ Write(p) \/ Fsync(p) \/ Close(p) \/ Rename(p) \/ Unlink(p)
       \/ Open(p) \/ OpenFails(p) \/ Read(p) \/ CloseRead(p)
       \/ Exit(p)

FileSpec == FileInit /\ [][FileNext]_fileVars

-----------------------------------------------------------------------------
\* No save that has returned leaves its temporary behind: one exists only while
\* its own save is under way, and no two saves share one.
NoTemporaryLeft ==
  /\ \A p \in Procs : tmp[p] /= NoInode <=> pc[p] \in Saving
  /\ \A p, q \in Procs : tmp[p] = tmp[q] /\ tmp[p] /= NoInode => p = q

\* The file as its readers see it: a register whose value a crash may set back
\* but never tear.  What the file holds is always the work of one save, or what
\* it held before the program ever ran, also for a reader that has opened it just
\* before it is replaced ("so a crash mid-write leaves the previous config rather
\* than an empty one", Config.cpp).
Stored(i) == IF i = NoInode THEN Absent ELSE data[i]

Register == INSTANCE CrashRegister WITH
  value   <- Stored(entry),
  durable <- Stored(disk),
  reading <- [p \in Procs |-> Stored(held[p])]

AtomicReplace == Register!Spec

\* The inductive invariant.  A file that has the name, in the cache or on the
\* disk, is on the disk whole, and is nobody's temporary.
EntrySettled ==
  \A i \in {entry, disk} \ {NoInode} : i \in synced

Private ==
  \A p, q \in Procs : tmp[p] /= NoInode => tmp[p] \notin {entry, disk, held[q]}

\* How far the save of p has got shows in its temporary.
ProgressOf(p) ==
  /\ pc[p] \in Saving => body[p] \in Bodies
  /\ pc[p] = "write" => /\ Len(data[tmp[p]]) <= Len(body[p])
                        /\ data[tmp[p]] = Prefix(body[p], Len(data[tmp[p]]))
  /\ pc[p] \in {"fsync", "close", "chmod", "rename"} => data[tmp[p]] = body[p]
  /\ pc[p] \in {"close", "chmod", "rename"} => tmp[p] \in synced

Progress == \A p \in Procs : ProgressOf(p)

ReadingOf(p) ==
  /\ held[p] /= NoInode <=> pc[p] = "read"
  /\ pc[p] = "read" => got[p] = Prefix(data[held[p]], Len(got[p]))
  /\ pc[p] /= "read" => got[p] = <<>>

Reading == \A p \in Procs : ReadingOf(p)

FileInv ==
  /\ FileTypeOK
  /\ NoTemporaryLeft
  /\ EntrySettled
  /\ Private
  /\ Progress
  /\ Reading
=============================================================================
