------------------------------ MODULE FileStorage ------------------------------
(***************************************************************************)
(* keypair/storage/file.ex on a POSIX file system, used through            *)
(* Keypair.save and Keypair.load (keypair.ex): write goes to <path>.tmp in *)
(* several system calls, chmod and rename follow, any step may fail and a  *)
(* writer may be killed between any two.  Names lead to inodes; an open    *)
(* file is an inode, whatever becomes of its name.                         *)
(***************************************************************************)
EXTENDS Naturals, Sequences, FiniteSets

CONSTANTS Writers, Readers,
          Values,    \* keypairs
          Inodes,
          Blocks,    \* write and read calls it takes to transfer a file
          MaxWrites, \* bound on calls of write
          None, Hole

ASSUME StorageAssumption ==
  /\ Blocks \in Nat \ {0}
  /\ MaxWrites \in Nat
  /\ None \notin Values /\ Hole \notin Values /\ None \notin Inodes
  /\ {"file_not_found", "posix_error", "invalid_keypair"} \cap (Values \cup {None}) = {}
  /\ IsFiniteSet(Writers) /\ IsFiniteSet(Readers) /\ IsFiniteSet(Inodes)
  /\ Cardinality(Inodes) >= 2 + Cardinality(Writers) + Cardinality(Readers)

VARIABLES
  dir,      \* the inode of each name, or None
  bytes,    \* the blocks of each inode
  mode,     \* the permissions of each inode
  wpc,      \* what each writer does next
  value,    \* what it writes
  wfd,      \* its open file
  written,  \* blocks it has written
  writes,   \* calls of write so far
  residue,  \* a .tmp may be left: a writer was killed, or rm failed
  rfd,      \* the open file of each reader, or None
  read,     \* the blocks it has read
  got       \* the result of its last load

files   == <<dir, bytes, mode>>
writers == <<wpc, value, wfd, written, writes, residue>>
readers == <<rfd, read, got>>
vars    == <<files, writers, readers>>

to_protobuf(v) == [i \in 1 .. Blocks |-> v]

\* keypair_from_protobuf accepts a keypair's bytes and nothing else.
from_protobuf(b) ==
  IF \E v \in Values : b = to_protobuf(v)
    THEN CHOOSE v \in Values : b = to_protobuf(v)
    ELSE "invalid_keypair"

\* The path is empty or holds a keypair saved before.
Init ==
  /\ LET i == CHOOSE i \in Inodes : TRUE
     IN  /\ dir \in {[tmp |-> None, path |-> p] : p \in {i, None}}
         /\ \E v \in Values : bytes = [j \in Inodes |-> IF j = dir.path
                                                       THEN to_protobuf(v) ELSE <<>>]
         /\ mode = [j \in Inodes |-> IF j = dir.path THEN "0600" ELSE "default"]
  /\ wpc = [w \in Writers |-> "idle"]
  /\ value = [w \in Writers |-> None]
  /\ wfd = [w \in Writers |-> None]
  /\ written = [w \in Writers |-> 0]
  /\ writes = 0
  /\ residue = FALSE
  /\ rfd = [r \in Readers |-> None]
  /\ read = [r \in Readers |-> <<>>]
  /\ got = [r \in Readers |-> None]

\* An inode is free when it has neither a name nor an open file.
Unused(i) ==
  /\ i # dir.tmp /\ i # dir.path
  /\ \A w \in Writers : wfd[w] # i
  /\ \A r \in Readers : rfd[r] # i

Goto(w, l) == wpc' = [wpc EXCEPT ![w] = l]

-----------------------------------------------------------------------------
(* write/2.                                                                *)

save(w, v) ==
  /\ wpc[w] = "idle"
  /\ writes < MaxWrites
  /\ writes' = writes + 1
  /\ value' = [value EXCEPT ![w] = v]
  /\ Goto(w, "open")
  /\ UNCHANGED <<files, wfd, written, residue, readers>>

\* Mutant: the bytes are written under the final name.
TmpName_Final == "path"

TmpName == "tmp"

\* File.write opens with O_CREAT and O_TRUNC: an existing file is emptied and
\* keeps its mode.
Open(w) ==
  /\ wpc[w] = "open"
  /\ LET i == IF dir[TmpName] # None THEN dir[TmpName]
                                     ELSE CHOOSE j \in Inodes : Unused(j)
     IN  /\ dir' = [dir EXCEPT ![TmpName] = i]
         /\ bytes' = [bytes EXCEPT ![i] = <<>>]
         /\ mode' = [mode EXCEPT ![i] = IF dir[TmpName] # None THEN @ ELSE "default"]
         /\ wfd' = [wfd EXCEPT ![w] = i]
  /\ written' = [written EXCEPT ![w] = 0]
  /\ Goto(w, "write")
  /\ UNCHANGED <<value, writes, residue, readers>>

\* The file at one block more, at the writer's own position.
WriteAt(b, k, v) ==
  [j \in 1 .. IF k > Len(b) THEN k ELSE Len(b) |->
     IF j = k THEN v ELSE IF j <= Len(b) THEN b[j] ELSE Hole]

WriteBlock(w) ==
  /\ wpc[w] = "write"
  /\ written' = [written EXCEPT ![w] = @ + 1]
  /\ bytes' = [bytes EXCEPT ![wfd[w]] = WriteAt(@, written'[w], value[w])]
  /\ \/ written'[w] < Blocks /\ UNCHANGED <<wpc, wfd>>
     \/ /\ written'[w] = Blocks
        /\ wfd' = [wfd EXCEPT ![w] = None]
        /\ Goto(w, "chmod")
  /\ UNCHANGED <<dir, mode, value, writes, residue, readers>>

\* Mutant: the mode is left to the umask.
Chmod_Umask(w) ==
  /\ wpc[w] = "chmod"
  /\ Goto(w, "rename")
  /\ UNCHANGED <<files, value, wfd, written, writes, residue, readers>>

\* By name: it changes whatever is .tmp by now.
Chmod(w) ==
  /\ wpc[w] = "chmod"
  /\ dir[TmpName] # None
  /\ mode' = [mode EXCEPT ![dir[TmpName]] = "0600"]
  /\ Goto(w, "rename")
  /\ UNCHANGED <<dir, bytes, value, wfd, written, writes, residue, readers>>

Return(w) ==
  /\ Goto(w, "idle")
  /\ value' = [value EXCEPT ![w] = None]
  /\ UNCHANGED <<bytes, mode, wfd, written, writes, readers>>

Rename(w) ==
  /\ wpc[w] = "rename"
  /\ dir[TmpName] # None
  /\ dir' = [tmp |-> None, path |-> dir[TmpName]]
  /\ residue' = FALSE
  /\ Return(w)

\* A full disk, a missing directory, no permission, or a .tmp that is gone.
Fail(w) ==
  /\ wpc[w] \in {"open", "write", "chmod", "rename"}
  /\ wfd' = [wfd EXCEPT ![w] = None]
  /\ Goto(w, "rm")
  /\ UNCHANGED <<files, value, written, writes, residue, readers>>

\* Best effort: the result of rm is ignored.
Rm(w) ==
  /\ wpc[w] = "rm"
  /\ \/ dir' = [dir EXCEPT !.tmp = None] /\ residue' = FALSE
     \/ dir' = dir /\ residue' = TRUE
  /\ Return(w)

Kill(w) ==
  /\ wpc[w] # "idle"
  /\ Goto(w, "idle")
  /\ value' = [value EXCEPT ![w] = None]
  /\ wfd' = [wfd EXCEPT ![w] = None]
  /\ residue' = TRUE
  /\ UNCHANGED <<files, written, writes, readers>>

-----------------------------------------------------------------------------
(* read/1 through load/1.                                                  *)

OpenRead(r) ==
  /\ rfd[r] = None
  /\ \/ /\ dir.path # None
        /\ rfd' = [rfd EXCEPT ![r] = dir.path]
        /\ UNCHANGED got
     \/ /\ dir.path = None
        /\ got' = [got EXCEPT ![r] = "file_not_found"]
        /\ UNCHANGED rfd
  /\ read' = [read EXCEPT ![r] = <<>>]
  /\ UNCHANGED <<files, writers>>

\* The file cannot be opened, or a read call fails: any reason but enoent.
ReadFails(r) ==
  /\ got' = [got EXCEPT ![r] = "posix_error"]
  /\ rfd' = [rfd EXCEPT ![r] = None]
  /\ read' = [read EXCEPT ![r] = <<>>]
  /\ UNCHANGED <<files, writers>>

\* A block, or at the end of the file the result.
ReadBlock(r) ==
  /\ rfd[r] # None
  /\ LET b == bytes[rfd[r]]
         k == Len(read[r]) + 1
     IN  \/ /\ k <= Len(b)
            /\ read' = [read EXCEPT ![r] = Append(@, b[k])]
            /\ UNCHANGED <<rfd, got>>
         \/ /\ k > Len(b)
            /\ got' = [got EXCEPT ![r] = from_protobuf(read[r])]
            /\ rfd' = [rfd EXCEPT ![r] = None]
            /\ UNCHANGED read
  /\ UNCHANGED <<files, writers>>

-----------------------------------------------------------------------------
Next ==
  \/ \E w \in Writers, v \in Values : save(w, v)
  \/ \E w \in Writers :
       Open(w) \/ WriteBlock(w) \/ Chmod(w) \/ Rename(w) \/ Fail(w) \/ Rm(w) \/ Kill(w)
  \/ \E r \in Readers : OpenRead(r) \/ ReadFails(r) \/ ReadBlock(r)

Spec == Init /\ [][Next]_vars

-----------------------------------------------------------------------------
(* Properties.                                                             *)

\* What a file may hold.
Content == UNION {[1 .. n -> Values \cup {Hole}] : n \in 0 .. Blocks}

TypeOK ==
  /\ dir \in [{"tmp", "path"} -> Inodes \cup {None}]
  /\ bytes \in [Inodes -> Content]
  /\ mode \in [Inodes -> {"default", "0600"}]
  /\ wpc \in [Writers -> {"idle", "open", "write", "chmod", "rename", "rm"}]
  /\ value \in [Writers -> Values \cup {None}]
  /\ wfd \in [Writers -> Inodes \cup {None}]
  /\ written \in [Writers -> 0 .. Blocks]
  /\ residue \in BOOLEAN
  /\ rfd \in [Readers -> Inodes \cup {None}]
  /\ got \in [Readers -> Values \cup {None, "file_not_found", "posix_error",
                                        "invalid_keypair"}]

\* The mapping onto AtomicFile: the file is what is under the path, a write is
\* pending until its rename or its failure, and a reader has begun with the
\* inode it opened.
Held(i) == IF i = None THEN "file_not_found" ELSE from_protobuf(bytes[i])

Atomic == INSTANCE AtomicFile
  WITH Absent  <- "file_not_found",
       Error   <- "posix_error",
       file    <- Held(dir.path),
       pending <- [w \in Writers |-> IF wpc[w] = "rm" THEN None ELSE value[w]],
       snap    <- [r \in Readers |-> IF rfd[r] = None THEN {} ELSE {Held(rfd[r])}],
       got     <- got

\* The atomic write contract (storage.ex): whatever fails or is killed, the
\* value under the path changes only by a whole write, and a load returns what
\* the path held when it opened it, also when the file is replaced meanwhile,
\* or an error.
\* For any number of concurrent readers and ONE writer of a path.
AtomicSpec == Atomic!Spec

\* "concurrent readers never observe a partial file" (file.ex:6): a load never
\* finds anything but a whole keypair that somebody saved.
NoPartialRead == \A r \in Readers : got[r] # "invalid_keypair"

\* "chmod-before-rename ensures perms are correct on first sight"
\* (file.ex:17): whatever is under the path is 0600, at every instant.
ModeRestrictive == dir.path # None => mode[dir.path] = "0600"

\* No .tmp outlives the writes, whichever step failed, unless a writer was
\* killed or the cleanup itself failed.
NoLeftover ==
  (\A w \in Writers : wpc[w] = "idle") /\ dir.tmp # None => residue

\* The file system at any moment: the path is restrictive, and .tmp is there
\* only while somebody writes or after a kill.
FilesSound == TypeOK /\ ModeRestrictive /\ NoLeftover
===============================================================================
