-------------------------- MODULE FileStorageProofs --------------------------
(***************************************************************************)
(* What holds of the file storage for files of any length, any number of   *)
(* readers and any number of calls of write.                               *)
(*                                                                         *)
(* Types, program counters and left-over files need no more than           *)
(* themselves (Types), however many write at once.  The contract holds for *)
(* one writer (OneWriter; with two it does not): then .tmp is the writer's *)
(* own (InProgress), nobody reads it (Apart), and every file under the     *)
(* path or still open in a reader is whole (WholeFiles).  The last also    *)
(* gives the step by step refinement of AtomicFile.                        *)
(***************************************************************************)
EXTENDS FileStorage, FiniteSetTheorems, TLAPS

\* n blocks of the same keypair.
Filled(n, v) == [i \in 1 .. n |-> v]

\* What a writer's program counter says of the rest of its state.
WriterStates ==
  \A w \in Writers :
    /\ wpc[w] = "idle" <=> value[w] = None
    /\ wpc[w] = "write" <=> wfd[w] # None
    /\ wpc[w] = "write" => written[w] < Blocks

Types == TypeOK /\ WriterStates /\ NoLeftover

\* The path has one writer at a time, as AtomicSpec demands.
OneWriter == \A u, w \in Writers : u = w

\* .tmp is the writer's own: the blocks it has written so far, and no others.
InProgress ==
  \A w \in Writers :
    /\ wpc[w] = "write" => wfd[w] = dir.tmp /\ bytes[dir.tmp] = Filled(written[w], value[w])
    /\ wpc[w] \in {"chmod", "rename"} =>
         dir.tmp # None /\ bytes[dir.tmp] = Filled(Blocks, value[w])
    /\ wpc[w] = "rename" => mode[dir.tmp] = "0600"

\* Nobody reads .tmp, and it is not what is under the path.
Apart ==
  dir.tmp # None => dir.tmp # dir.path /\ \A r \in Readers : rfd[r] # dir.tmp

\* The path, and every file a reader has open although its name may have gone,
\* hold a whole keypair, of which the reader has read the beginning.
WholeFiles ==
  /\ read \in [Readers -> Content]
  /\ dir.path # None => \E v \in Values : bytes[dir.path] = to_protobuf(v)
  /\ \A r \in Readers : rfd[r] # None =>
       \E v \in Values, k \in 0 .. Blocks : bytes[rfd[r]] = to_protobuf(v) /\ read[r] = Filled(k, v)

IInv == Types /\ InProgress /\ Apart /\ WholeFiles /\ ModeRestrictive

-----------------------------------------------------------------------------
(* Lemmas on files.                                                        *)

\* The blocks of a file are a sequence.
LEMMA ContentSeq ==
  ASSUME NEW b \in Content
  PROVE  /\ Len(b) \in 0 .. Blocks /\ DOMAIN b = 1 .. Len(b)
         /\ \A i \in 1 .. Len(b) : b[i] \in Values \cup {Hole}
<1>1. PICK n \in 0 .. Blocks : b \in [1 .. n -> Values \cup {Hole}]
  BY DEF Content
<1>2. n \in Nat /\ Len(b) = n
  BY <1>1, StorageAssumption
<1>. QED  BY <1>1, <1>2

\* The empty file.
LEMMA EmptyContent == <<>> \in Content
<1>1. <<>> \in [1 .. 0 -> Values \cup {Hole}]
  OBVIOUS
<1>2. 0 \in 0 .. Blocks
  BY StorageAssumption
<1>. QED  BY <1>1, <1>2 DEF Content

\* A whole file.
LEMMA WholeContent == ASSUME NEW v \in Values PROVE to_protobuf(v) \in Content
<1>1. to_protobuf(v) \in [1 .. Blocks -> Values \cup {Hole}]
  BY DEF to_protobuf
<1>2. Blocks \in 0 .. Blocks
  BY StorageAssumption
<1>. QED  BY <1>1, <1>2 DEF Content

\* A block written at any position leaves a file of at most Blocks blocks.
LEMMA WriteAtContent ==
  ASSUME NEW b \in Content, NEW k \in 1 .. Blocks, NEW v \in Values
  PROVE  WriteAt(b, k, v) \in Content
<1>1. /\ Len(b) \in 0 .. Blocks
      /\ \A i \in 1 .. Len(b) : b[i] \in Values \cup {Hole}
  BY ContentSeq
<1> DEFINE n == IF k > Len(b) THEN k ELSE Len(b)
<1>2. n \in 0 .. Blocks
  BY <1>1, StorageAssumption
<1>3. WriteAt(b, k, v) \in [1 .. n -> Values \cup {Hole}]
  BY <1>1, <1>2, StorageAssumption DEF WriteAt
<1>. QED  BY <1>2, <1>3 DEF Content

\* from_protobuf returns a keypair or an error.
LEMMA DecodedType == \A b : from_protobuf(b) \in Values \cup {"invalid_keypair"}
  BY DEF from_protobuf

\* from_protobuf takes back what to_protobuf made: a file has a first block.
LEMMA Decoded == ASSUME NEW v \in Values PROVE from_protobuf(to_protobuf(v)) = v
<1>1. ASSUME NEW u \in Values, to_protobuf(v) = to_protobuf(u) PROVE u = v
  <2>1. 1 \in 1 .. Blocks
    BY StorageAssumption
  <2>2. to_protobuf(v)[1] = v /\ to_protobuf(u)[1] = u
    BY <2>1 DEF to_protobuf
  <2>. QED  BY <1>1, <2>2
<1> HIDE DEF to_protobuf
<1>. QED  BY <1>1 DEF from_protobuf

\* There are inodes enough: when .tmp does not exist, one is free.
LEMMA FreeInode ==
  ASSUME TypeOK, dir.tmp = None
  PROVE  \E j \in Inodes : Unused(j)
<1> DEFINE W == {wfd[w] : w \in Writers}
           R == {rfd[r] : r \in Readers}
           U == {dir.path} \cup W \cup R
<1>1. IsFiniteSet(W) /\ Cardinality(W) <= Cardinality(Writers)
  <2>1. wfd \in Surjection(Writers, W)
    BY DEF Surjection, TypeOK
  <2> HIDE DEF W
  <2>. QED  BY <2>1, FS_Surjection, StorageAssumption
<1>2. IsFiniteSet(R) /\ Cardinality(R) <= Cardinality(Readers)
  <2>1. rfd \in Surjection(Readers, R)
    BY DEF Surjection, TypeOK
  <2> HIDE DEF R
  <2>. QED  BY <2>1, FS_Surjection, StorageAssumption
<1>3. IsFiniteSet(U) /\ Cardinality(U) <= 1 + Cardinality(Writers) + Cardinality(Readers)
  <2> HIDE DEF W, R
  <2>1. IsFiniteSet(W \cup R) /\ Cardinality(W \cup R) <= Cardinality(W) + Cardinality(R)
    <3>1. IsFiniteSet(W \cap R) /\ Cardinality(W \cap R) \in Nat
      BY <1>1, FS_Subset, FS_CardinalityType
    <3>2. /\ IsFiniteSet(W \cup R)
          /\ Cardinality(W \cup R) = Cardinality(W) + Cardinality(R) - Cardinality(W \cap R)
      BY <1>1, <1>2, FS_Union, Zenon
    <3>3. Cardinality(W) \in Nat /\ Cardinality(R) \in Nat
      BY <1>1, <1>2, FS_CardinalityType
    <3>. QED  BY <3>1, <3>2, <3>3
  <2>2. U = (W \cup R) \cup {dir.path}
    OBVIOUS
  <2>3. IsFiniteSet(U) /\ Cardinality(U) <= Cardinality(W \cup R) + 1
    <3>1. IsFiniteSet(U) /\ Cardinality(U) =
            IF dir.path \in W \cup R THEN Cardinality(W \cup R) ELSE Cardinality(W \cup R) + 1
      <4> HIDE DEF U
      <4>. QED  BY <2>1, <2>2, FS_AddElement
    <3>2. Cardinality(W \cup R) \in Nat
      BY <2>1, FS_CardinalityType
    <3> HIDE DEF U
    <3>. QED  BY <3>1, <3>2
  <2>4. /\ Cardinality(U) \in Nat /\ Cardinality(W \cup R) \in Nat
        /\ Cardinality(W) \in Nat /\ Cardinality(R) \in Nat
        /\ Cardinality(Writers) \in Nat /\ Cardinality(Readers) \in Nat
    BY <1>1, <1>2, <2>1, <2>3, FS_CardinalityType, StorageAssumption
  <2> HIDE DEF U
  <2>. QED  BY <1>1, <1>2, <2>1, <2>3, <2>4
<1>4. ~(Inodes \subseteq U)
  <2> HIDE DEF U
  <2>1. SUFFICES ASSUME Inodes \subseteq U PROVE FALSE
    OBVIOUS
  <2>2. Cardinality(Inodes) <= Cardinality(U)
    BY <1>3, <2>1, FS_Subset
  <2>3. /\ Cardinality(U) \in Nat /\ Cardinality(Inodes) \in Nat
        /\ Cardinality(Writers) \in Nat /\ Cardinality(Readers) \in Nat
    BY <1>3, FS_CardinalityType, StorageAssumption
  <2>. QED  BY <1>3, <2>2, <2>3, StorageAssumption
<1>5. PICK j \in Inodes : j \notin U
  BY <1>4
<1>. QED  BY <1>5, StorageAssumption DEF Unused

-----------------------------------------------------------------------------
(* Types, for any number of writers.                                       *)

\* A writer that opens .tmp finds an inode for it: that of .tmp, or one that
\* nobody uses.
LEMMA OpenedInode ==
  ASSUME TypeOK, NEW w \in Writers, Open(w)
  PROVE  \E i \in Inodes :
           /\ i = dir.tmp \/ (dir.tmp = None /\ Unused(i))
           /\ dir' = [dir EXCEPT !.tmp = i]
           /\ bytes' = [bytes EXCEPT ![i] = <<>>]
           /\ mode' \in [Inodes -> {"default", "0600"}]
           /\ \A j \in Inodes : j # i => mode'[j] = mode[j]
           /\ wfd' = [wfd EXCEPT ![w] = i]
<1>1. CASE dir.tmp # None
  <2>1. dir.tmp \in Inodes
    BY <1>1 DEF TypeOK
  <2>. QED  BY <1>1, <2>1 DEF Open, TmpName, TypeOK
<1>2. CASE dir.tmp = None
  <2> DEFINE i == CHOOSE j \in Inodes : Unused(j)
  <2>1. i \in Inodes /\ Unused(i)
    BY <1>2, FreeInode
  <2>2. /\ dir' = [dir EXCEPT !.tmp = i]
        /\ bytes' = [bytes EXCEPT ![i] = <<>>]
        /\ mode' = [mode EXCEPT ![i] = "default"]
        /\ wfd' = [wfd EXCEPT ![w] = i]
    BY <1>2 DEF Open, TmpName
  <2> HIDE DEF i
  <2>. QED  BY <1>2, <2>1, <2>2 DEF TypeOK
<1>. QED  BY <1>1, <1>2

\* The write calls: open, write, chmod and rename.
LEMMA WriteTypes ==
  ASSUME Types, NEW w \in Writers, Open(w) \/ WriteBlock(w) \/ Chmod(w) \/ Rename(w)
  PROVE  Types'
<1> USE DEF Types
<1>1. CASE Open(w)
  <2>1. PICK i \in Inodes :
           /\ dir' = [dir EXCEPT !.tmp = i]
           /\ bytes' = [bytes EXCEPT ![i] = <<>>]
           /\ mode' \in [Inodes -> {"default", "0600"}]
           /\ wfd' = [wfd EXCEPT ![w] = i]
    BY <1>1, OpenedInode
  <2>2. /\ wpc[w] = "open" /\ wpc' = [wpc EXCEPT ![w] = "write"]
        /\ written' = [written EXCEPT ![w] = 0]
        /\ UNCHANGED <<value, residue, rfd, got>>
    BY <1>1 DEF Open, Goto, readers
  <2>3. bytes' \in [Inodes -> Content]
    BY <2>1, EmptyContent DEF TypeOK
  <2>4. 0 \in 0 .. Blocks /\ 0 < Blocks
    BY StorageAssumption
  <2>5. TypeOK'
    BY <2>1, <2>2, <2>3, <2>4 DEF TypeOK
  <2>6. WriterStates'
    BY <2>1, <2>2, <2>4, StorageAssumption DEF WriterStates, TypeOK
  <2>7. wpc'[w] # "idle"
    BY <2>2 DEF TypeOK
  <2>. QED  BY <2>5, <2>6, <2>7 DEF NoLeftover
<1>2. CASE WriteBlock(w)
  <2>1. /\ wpc[w] = "write"
        /\ written' = [written EXCEPT ![w] = written[w] + 1]
        /\ bytes' = [bytes EXCEPT ![wfd[w]] = WriteAt(bytes[wfd[w]], written[w] + 1, value[w])]
        /\ UNCHANGED <<dir, mode, value, residue, rfd, got>>
    BY <1>2 DEF WriteBlock, readers, TypeOK
  <2>2. /\ wfd[w] \in Inodes /\ value[w] \in Values
        /\ written[w] \in Nat /\ written[w] + 1 \in 1 .. Blocks
    BY <2>1, StorageAssumption DEF WriterStates, TypeOK
  <2>3. \/ written[w] + 1 < Blocks /\ UNCHANGED <<wpc, wfd>>
        \/ /\ wfd' = [wfd EXCEPT ![w] = None] /\ wpc' = [wpc EXCEPT ![w] = "chmod"]
    BY <1>2, <2>1 DEF WriteBlock, Goto, TypeOK
  <2>4. bytes' \in [Inodes -> Content]
    BY <2>1, <2>2, WriteAtContent DEF TypeOK
  <2>5. written' \in [Writers -> 0 .. Blocks]
    BY <2>1, <2>2, StorageAssumption DEF TypeOK
  <2>6. TypeOK'
    BY <2>1, <2>3, <2>4, <2>5 DEF TypeOK
  <2>7. WriterStates'
    BY <2>1, <2>2, <2>3, StorageAssumption DEF WriterStates, TypeOK
  <2>8. wpc'[w] # "idle"
    BY <2>1, <2>3 DEF TypeOK
  <2>. QED  BY <2>6, <2>7, <2>8 DEF NoLeftover
<1>3. CASE Chmod(w)
  <2>1. /\ wpc[w] = "chmod" /\ wpc' = [wpc EXCEPT ![w] = "rename"]
        /\ dir.tmp # None /\ mode' = [mode EXCEPT ![dir.tmp] = "0600"]
        /\ UNCHANGED <<dir, bytes, value, wfd, written, residue, rfd, got>>
    BY <1>3 DEF Chmod, Goto, TmpName, readers
  <2>2. TypeOK'
    BY <2>1 DEF TypeOK
  <2>3. WriterStates'
    BY <2>1 DEF WriterStates, TypeOK
  <2>4. wpc'[w] # "idle"
    BY <2>1 DEF TypeOK
  <2>. QED  BY <2>2, <2>3, <2>4 DEF NoLeftover
<1>4. CASE Rename(w)
  <2>1. /\ wpc[w] = "rename" /\ wpc' = [wpc EXCEPT ![w] = "idle"]
        /\ value' = [value EXCEPT ![w] = None]
        /\ dir' = [tmp |-> None, path |-> dir.tmp] /\ residue' = FALSE
        /\ UNCHANGED <<bytes, mode, wfd, written, rfd, got>>
    BY <1>4 DEF Rename, Return, Goto, TmpName, readers
  <2>2. dir' \in [{"tmp", "path"} -> Inodes \cup {None}] /\ dir'.tmp = None
    BY <2>1 DEF TypeOK
  <2>3. TypeOK'
    BY <2>1, <2>2 DEF TypeOK
  <2>4. WriterStates'
    BY <2>1 DEF WriterStates, TypeOK
  <2>. QED  BY <2>2, <2>3, <2>4 DEF NoLeftover
<1>. QED  BY <1>1, <1>2, <1>3, <1>4

\* A write begins, fails, cleans up, or is killed.
LEMMA AroundTypes ==
  ASSUME Types, NEW w \in Writers,
         (\E v \in Values : save(w, v)) \/ Fail(w) \/ Rm(w) \/ Kill(w)
  PROVE  Types'
<1> USE DEF Types
<1>1. ASSUME NEW v \in Values, save(w, v) PROVE Types'
  <2>1. /\ wpc[w] = "idle" /\ wpc' = [wpc EXCEPT ![w] = "open"]
        /\ value' = [value EXCEPT ![w] = v]
        /\ UNCHANGED <<dir, bytes, mode, wfd, written, residue, rfd, got>>
    BY <1>1 DEF save, Goto, files, readers
  <2>2. TypeOK'
    BY <2>1 DEF TypeOK
  <2>3. WriterStates'
    BY <2>1, StorageAssumption DEF WriterStates, TypeOK
  <2>4. wpc'[w] # "idle"
    BY <2>1 DEF TypeOK
  <2>. QED  BY <2>2, <2>3, <2>4 DEF NoLeftover
<1>2. CASE Fail(w)
  <2>1. /\ wpc[w] # "idle" /\ wpc' = [wpc EXCEPT ![w] = "rm"]
        /\ wfd' = [wfd EXCEPT ![w] = None]
        /\ UNCHANGED <<dir, bytes, mode, value, written, residue, rfd, got>>
    BY <1>2 DEF Fail, Goto, files, readers
  <2>2. TypeOK'
    BY <2>1 DEF TypeOK
  <2>3. WriterStates'
    BY <2>1 DEF WriterStates, TypeOK
  <2>4. wpc'[w] # "idle"
    BY <2>1 DEF TypeOK
  <2>. QED  BY <2>2, <2>3, <2>4 DEF NoLeftover
<1>3. CASE Rm(w)
  <2>1. /\ wpc[w] = "rm" /\ wpc' = [wpc EXCEPT ![w] = "idle"]
        /\ value' = [value EXCEPT ![w] = None]
        /\ UNCHANGED <<bytes, mode, wfd, written, rfd, got>>
    BY <1>3 DEF Rm, Return, Goto, readers
  <2>2. \/ dir' = [dir EXCEPT !.tmp = None] /\ residue' = FALSE
        \/ dir' = dir /\ residue' = TRUE
    BY <1>3 DEF Rm
  <2>3. TypeOK'
    BY <2>1, <2>2 DEF TypeOK
  <2>4. WriterStates'
    BY <2>1 DEF WriterStates, TypeOK
  <2>5. NoLeftover'
    BY <2>2 DEF NoLeftover, TypeOK
  <2>. QED  BY <2>3, <2>4, <2>5
<1>4. CASE Kill(w)
  <2>1. /\ wpc' = [wpc EXCEPT ![w] = "idle"]
        /\ value' = [value EXCEPT ![w] = None] /\ wfd' = [wfd EXCEPT ![w] = None]
        /\ residue' = TRUE
        /\ UNCHANGED <<dir, bytes, mode, written, rfd, got>>
    BY <1>4 DEF Kill, Goto, files, readers
  <2>2. TypeOK'
    BY <2>1 DEF TypeOK
  <2>3. WriterStates'
    BY <2>1 DEF WriterStates, TypeOK
  <2>. QED  BY <2>1, <2>2, <2>3 DEF NoLeftover
<1>. QED  BY <1>1, <1>2, <1>3, <1>4

\* A load opens the file, reads a block, fails or ends.
LEMMA ReadTypes ==
  ASSUME Types, NEW r \in Readers, OpenRead(r) \/ ReadFails(r) \/ ReadBlock(r)
  PROVE  Types'
<1> USE DEF Types
<1>1. UNCHANGED <<dir, bytes, mode, wpc, value, wfd, written, residue>>
  BY DEF OpenRead, ReadFails, ReadBlock, files, writers
<1>2. rfd' \in [Readers -> Inodes \cup {None}]
  BY DEF OpenRead, ReadFails, ReadBlock, TypeOK
<1>3. got' \in [Readers -> Values \cup {None, "file_not_found", "posix_error",
                                       "invalid_keypair"}]
  <2>1. \/ UNCHANGED got
        \/ got' = [got EXCEPT ![r] = "file_not_found"]
        \/ got' = [got EXCEPT ![r] = "posix_error"]
        \/ got' = [got EXCEPT ![r] = from_protobuf(read[r])]
    BY DEF OpenRead, ReadFails, ReadBlock
  <2>2. from_protobuf(read[r]) \in Values \cup {"invalid_keypair"}
    BY DecodedType
  <2>. QED  BY <2>1, <2>2 DEF TypeOK
<1>. QED  BY <1>1, <1>2, <1>3 DEF TypeOK, WriterStates, NoLeftover

\* Nobody writes or reads at first.
LEMMA InitTypes == ASSUME Init PROVE Types
<1> DEFINE i0 == CHOOSE i \in Inodes : TRUE
<1>1. i0 \in Inodes
  <2>1. Inodes # {}
    <3>1. Cardinality(Writers) \in Nat /\ Cardinality(Readers) \in Nat
      BY FS_CardinalityType, StorageAssumption
    <3>. QED  BY <3>1, FS_EmptySet, StorageAssumption
  <2>. QED  BY <2>1
<1>2. dir \in {[tmp |-> None, path |-> p] : p \in {i0, None}}
  BY DEF Init
<1> HIDE DEF i0
<1>3. dir \in [{"tmp", "path"} -> Inodes \cup {None}] /\ dir.tmp = None
  BY <1>1, <1>2
<1>4. bytes \in [Inodes -> Content]
  BY EmptyContent, WholeContent DEF Init
<1>5. written \in [Writers -> 0 .. Blocks]
  BY StorageAssumption DEF Init
<1>6. residue \in BOOLEAN
  BY Zenon DEF Init
<1>7. mode \in [Inodes -> {"default", "0600"}]
  BY DEF Init
<1>8. TypeOK
  BY <1>3, <1>4, <1>5, <1>6, <1>7 DEF Init, TypeOK
<1>. QED  BY <1>3, <1>8 DEF Init, Types, WriterStates, NoLeftover

\* Types, program counters and left-over files, however many write at once.
THEOREM TypesHold == Spec => []Types
<1>1. Init => Types
  BY InitTypes
<1>2. Types /\ [Next]_vars => Types'
  <2>1. Types /\ UNCHANGED vars => Types'
    BY DEF vars, files, writers, readers, Types, TypeOK, WriterStates, NoLeftover
  <2>. QED  BY <2>1, WriteTypes, AroundTypes, ReadTypes DEF Next
<1>. QED  BY <1>1, <1>2, PTL DEF Spec

-----------------------------------------------------------------------------
(* One writer.                                                             *)

\* A file of equal blocks.
LEMMA FilledContent ==
  ASSUME NEW k \in 0 .. Blocks, NEW v \in Values
  PROVE  Filled(k, v) \in Content /\ Len(Filled(k, v)) = k
<1>1. Filled(k, v) \in [1 .. k -> Values \cup {Hole}] /\ k \in Nat
  BY StorageAssumption DEF Filled
<1>. QED  BY <1>1 DEF Content, Filled

\* The next block of the same keypair.
LEMMA FilledMore ==
  ASSUME NEW k \in 0 .. Blocks, NEW v \in Values, k < Blocks
  PROVE  /\ WriteAt(Filled(k, v), k + 1, v) = Filled(k + 1, v)
         /\ Append(Filled(k, v), v) = Filled(k + 1, v)
<1>1. Len(Filled(k, v)) = k /\ k \in Nat
  BY FilledContent, StorageAssumption
<1>2. WriteAt(Filled(k, v), k + 1, v) = Filled(k + 1, v)
  BY <1>1 DEF WriteAt, Filled
<1>3. Append(Filled(k, v), v) = Filled(k + 1, v)
  BY <1>1 DEF Filled
<1>. QED  BY <1>2, <1>3

\* A writer's step leaves the path's file and the readers' open files as they
\* are, and the readers alone; only a rename changes what the path leads to.
LEMMA WriterKeeps ==
  ASSUME IInv, OneWriter, NEW w \in Writers,
         \/ Open(w) \/ WriteBlock(w) \/ Chmod(w) \/ Rename(w)
         \/ Fail(w) \/ Rm(w) \/ Kill(w) \/ \E v \in Values : save(w, v)
  PROVE  /\ UNCHANGED <<rfd, read, got>>
         /\ dir.path # None => bytes'[dir.path] = bytes[dir.path]
         /\ \A r \in Readers : rfd[r] # None => bytes'[rfd[r]] = bytes[rfd[r]]
         /\ Rename(w) \/ dir'.path = dir.path
<1> USE DEF IInv, Types
<1>1. UNCHANGED <<rfd, read, got>>
  BY DEF Open, WriteBlock, Chmod, Rename, Return, Fail, Rm, Kill, save, readers
<1>2. CASE Open(w)
  <2>1. PICK i \in Inodes :
           /\ i = dir.tmp \/ (dir.tmp = None /\ Unused(i))
           /\ dir' = [dir EXCEPT !.tmp = i]
           /\ bytes' = [bytes EXCEPT ![i] = <<>>]
    BY <1>2, OpenedInode
  <2>2. i # dir.path /\ \A r \in Readers : rfd[r] # i
    BY <2>1, StorageAssumption DEF Apart, Unused
  <2>. QED  BY <1>1, <2>1, <2>2 DEF TypeOK
<1>3. CASE WriteBlock(w)
  <2>1. /\ wpc[w] = "write" /\ dir' = dir
        /\ bytes' = [bytes EXCEPT ![wfd[w]] = WriteAt(bytes[wfd[w]], written'[w], value[w])]
    BY <1>3 DEF WriteBlock
  <2>2. wfd[w] = dir.tmp /\ dir.tmp # None
    BY <2>1 DEF InProgress, WriterStates
  <2>. QED  BY <1>1, <2>1, <2>2 DEF TypeOK, Apart
<1>4. CASE bytes' = bytes /\ (Rename(w) \/ dir'.path = dir.path)
  BY <1>1, <1>4
<1>5. ~(Open(w) \/ WriteBlock(w)) => bytes' = bytes /\ (Rename(w) \/ dir'.path = dir.path)
  BY DEF Chmod, Rename, Return, Fail, Rm, Kill, save, files, TypeOK
<1>. QED  BY <1>2, <1>3, <1>4, <1>5

\* The steps of the writer before the rename.
LEMMA WriteStep ==
  ASSUME IInv, OneWriter, NEW w \in Writers,
         \/ Open(w) \/ WriteBlock(w) \/ Chmod(w)
         \/ Fail(w) \/ Rm(w) \/ Kill(w) \/ \E v \in Values : save(w, v)
  PROVE  IInv'
<1> USE DEF IInv
<1>1. Types'
  BY WriteTypes, AroundTypes
<1>2. /\ UNCHANGED <<rfd, read, got>>
      /\ dir.path # None => bytes'[dir.path] = bytes[dir.path]
      /\ \A r \in Readers : rfd[r] # None => bytes'[rfd[r]] = bytes[rfd[r]]
      /\ dir'.path = dir.path
  <2>1. ~Rename(w) \/ dir'.path = dir.path
    BY DEF Rename, Open, WriteBlock, Chmod, Fail, Rm, Kill, save, files
  <2>. QED  BY <2>1, WriterKeeps
<1>3. WholeFiles'
  BY <1>2 DEF WholeFiles
<1>4. Apart' /\ ModeRestrictive' /\ InProgress'
  <2>0. \A u \in Writers : u = w
    BY DEF OneWriter
  <2>1. CASE Open(w)
    <3>1. PICK i \in Inodes :
             /\ i = dir.tmp \/ (dir.tmp = None /\ Unused(i))
             /\ dir' = [dir EXCEPT !.tmp = i]
             /\ bytes' = [bytes EXCEPT ![i] = <<>>]
             /\ \A j \in Inodes : j # i => mode'[j] = mode[j]
             /\ wfd' = [wfd EXCEPT ![w] = i]
      BY <2>1, OpenedInode DEF Types
    <3>2. i # dir.path /\ \A r \in Readers : rfd[r] # i
      BY <3>1, StorageAssumption DEF Apart, Unused
    <3>3. dir'.tmp = i /\ dir'.path = dir.path /\ bytes'[i] = <<>> /\ wfd'[w] = i
      BY <3>1 DEF Types, TypeOK
    <3>4. wpc'[w] = "write" /\ written'[w] = 0
      BY <2>1 DEF Open, Goto, Types, TypeOK
    <3>5. \A v : Filled(0, v) = <<>>
      BY DEF Filled
    <3>6. Apart'
      BY <1>2, <3>2, <3>3 DEF Apart
    <3>7. ModeRestrictive'
      BY <3>1, <3>2, <3>3 DEF ModeRestrictive, Types, TypeOK
    <3>8. InProgress'
      BY <2>0, <3>3, <3>4, <3>5 DEF InProgress
    <3>. QED  BY <3>6, <3>7, <3>8
  <2>2. CASE WriteBlock(w)
    <3>1. /\ wpc[w] = "write"
          /\ written' = [written EXCEPT ![w] = written[w] + 1]
          /\ bytes' = [bytes EXCEPT ![wfd[w]] = WriteAt(bytes[wfd[w]], written[w] + 1, value[w])]
          /\ UNCHANGED <<dir, mode, value>>
      BY <2>2 DEF WriteBlock, Types, TypeOK
    <3>2. /\ wfd[w] = dir.tmp /\ wfd[w] \in Inodes /\ wfd[w] # None
          /\ bytes[dir.tmp] = Filled(written[w], value[w])
          /\ value[w] \in Values /\ written[w] \in 0 .. Blocks /\ written[w] < Blocks
      BY <3>1 DEF InProgress, Types, WriterStates, TypeOK
    <3>3. bytes'[dir.tmp] = Filled(written'[w], value[w])
      BY <3>1, <3>2, FilledMore DEF Types, TypeOK
    <3>4. \/ wpc'[w] = "write" /\ wfd' = wfd
          \/ wpc'[w] = "chmod" /\ written'[w] = Blocks
      BY <2>2, <3>1 DEF WriteBlock, Goto, Types, TypeOK
    <3>5. InProgress'
      BY <2>0, <3>1, <3>2, <3>3, <3>4 DEF InProgress
    <3>. QED  BY <1>2, <3>1, <3>5 DEF Apart, ModeRestrictive
  <2>3. CASE Chmod(w)
    <3>1. /\ wpc[w] = "chmod" /\ wpc'[w] = "rename" /\ dir.tmp \in Inodes
          /\ mode' = [mode EXCEPT ![dir.tmp] = "0600"]
          /\ UNCHANGED <<dir, bytes, value>>
      BY <2>3 DEF Chmod, Goto, TmpName, Types, TypeOK
    <3>2. InProgress'
      BY <2>0, <3>1 DEF InProgress, Types, TypeOK
    <3>3. ModeRestrictive'
      BY <3>1 DEF ModeRestrictive, Types, TypeOK
    <3>. QED  BY <1>2, <3>1, <3>2, <3>3 DEF Apart
  <2>4. CASE Fail(w) \/ Rm(w) \/ Kill(w) \/ \E v \in Values : save(w, v)
    <3>1. /\ wpc'[w] \in {"idle", "rm", "open"} /\ mode' = mode
          /\ dir' = dir \/ dir'.tmp = None
      BY <2>4 DEF Fail, Rm, Return, Kill, save, Goto, files, Types, TypeOK
    <3>2. InProgress'
      BY <2>0, <3>1 DEF InProgress
    <3>. QED  BY <1>2, <3>1, <3>2 DEF Apart, ModeRestrictive
  <2>. QED  BY <2>1, <2>2, <2>3, <2>4
<1>. QED  BY <1>1, <1>3, <1>4

\* The rename puts the whole file under the path, its mode set.
LEMMA RenameStep ==
  ASSUME IInv, OneWriter, NEW w \in Writers, Rename(w)
  PROVE  /\ IInv'
         /\ dir'.path \in Inodes /\ bytes'[dir'.path] = to_protobuf(value[w])
<1> USE DEF IInv
<1>1. Types'
  BY WriteTypes
<1>2. /\ wpc[w] = "rename" /\ wpc'[w] = "idle"
      /\ dir' = [tmp |-> None, path |-> dir.tmp] /\ dir.tmp \in Inodes
      /\ UNCHANGED <<bytes, mode, rfd, read>>
  BY DEF Rename, Return, Goto, TmpName, readers, Types, TypeOK
<1>3. /\ bytes[dir.tmp] = to_protobuf(value[w]) /\ mode[dir.tmp] = "0600"
      /\ value[w] \in Values
  BY <1>2 DEF InProgress, Filled, to_protobuf, Types, WriterStates, TypeOK
<1>4. InProgress'
  BY <1>2 DEF InProgress, OneWriter
<1>5. WholeFiles'
  BY <1>2, <1>3 DEF WholeFiles
<1>6. Apart' /\ ModeRestrictive'
  BY <1>2, <1>3 DEF Apart, ModeRestrictive
<1>. QED  BY <1>1, <1>2, <1>3, <1>4, <1>5, <1>6

\* A reader's step; a load that ends has read what its file holds.
LEMMA ReadStep ==
  ASSUME IInv, NEW r \in Readers, OpenRead(r) \/ ReadBlock(r)
  PROVE  /\ IInv'
         /\ rfd[r] # None /\ rfd'[r] = None => read[r] = bytes[rfd[r]]
<1> USE DEF IInv
<1>1. Types'
  BY ReadTypes
<1>2. UNCHANGED <<dir, bytes, mode, wpc, value, wfd, written>>
  BY DEF OpenRead, ReadBlock, files, writers
<1>3. InProgress' /\ ModeRestrictive'
  BY <1>2 DEF InProgress, ModeRestrictive
<1>4. CASE OpenRead(r)
  <2>1. /\ rfd[r] = None
        /\ rfd' = rfd \/ (rfd' = [rfd EXCEPT ![r] = dir.path] /\ dir.path # None)
        /\ read' = [read EXCEPT ![r] = <<>>]
    BY <1>4 DEF OpenRead
  <2>2. /\ rfd'[r] = None \/ (rfd'[r] = dir.path /\ dir.path # None)
        /\ read'[r] = <<>> /\ read' \in [Readers -> Content]
        /\ \A q \in Readers : q # r => rfd'[q] = rfd[q] /\ read'[q] = read[q]
    BY <2>1, EmptyContent DEF Types, TypeOK, WholeFiles
  <2>3. Apart'
    BY <1>2, <2>2 DEF Apart
  <2>4. WholeFiles'
    <3>1. \A v : <<>> = Filled(0, v)
      BY DEF Filled
    <3>2. 0 \in 0 .. Blocks
      BY StorageAssumption
    <3>3. rfd'[r] # None =>
            \E v \in Values, k \in 0 .. Blocks :
              bytes[rfd'[r]] = to_protobuf(v) /\ read'[r] = Filled(k, v)
      BY <2>2, <3>1, <3>2 DEF WholeFiles
    <3>. QED  BY <1>2, <2>2, <3>3 DEF WholeFiles
  <2>. QED  BY <1>1, <1>3, <2>1, <2>3, <2>4
<1>5. CASE ReadBlock(r)
  <2>0. rfd[r] # None
    BY <1>5 DEF ReadBlock
  <2>1. PICK v \in Values, k \in 0 .. Blocks :
          bytes[rfd[r]] = to_protobuf(v) /\ read[r] = Filled(k, v)
    BY <2>0 DEF WholeFiles
  <2>2. to_protobuf(v) = Filled(Blocks, v) /\ Blocks \in 0 .. Blocks
    BY StorageAssumption DEF to_protobuf, Filled
  <2>3. Len(bytes[rfd[r]]) = Blocks /\ Len(read[r]) = k
    BY <2>1, <2>2, FilledContent
  <2>4. CASE k < Blocks
    <3>1. k + 1 \in 1 .. Blocks /\ k + 1 \in 0 .. Blocks /\ bytes[rfd[r]][k + 1] = v
      BY <2>1, <2>2, <2>4, StorageAssumption DEF Filled
    <3>2. read' = [read EXCEPT ![r] = Append(read[r], v)] /\ rfd' = rfd
      BY <1>5, <2>3, <3>1, StorageAssumption DEF ReadBlock, WholeFiles
    <3>3. read' = [read EXCEPT ![r] = Filled(k + 1, v)]
      BY <2>1, <2>4, <3>2, FilledMore
    <3>4. WholeFiles'
      <4>1. read' \in [Readers -> Content] /\ read'[r] = Filled(k + 1, v)
        BY <3>1, <3>3, FilledContent DEF WholeFiles
      <4>2. \A q \in Readers : q # r => read'[q] = read[q]
        BY <3>3 DEF WholeFiles
      <4>. QED  BY <1>2, <2>1, <3>1, <3>2, <4>1, <4>2 DEF WholeFiles
    <3>. QED  BY <1>1, <1>2, <1>3, <2>0, <3>2, <3>4 DEF Apart
  <2>5. CASE ~(k < Blocks)
    <3>1. k = Blocks
      BY <2>5, StorageAssumption
    <3>2. rfd' = [rfd EXCEPT ![r] = None] /\ read' = read
      BY <1>5, <2>3, <3>1, StorageAssumption DEF ReadBlock
    <3>3. rfd'[r] = None /\ \A q \in Readers : q # r => rfd'[q] = rfd[q]
      BY <3>2 DEF Types, TypeOK
    <3>4. WholeFiles' /\ Apart'
      BY <1>2, <3>2, <3>3 DEF WholeFiles, Apart
    <3>. QED  BY <1>1, <1>3, <2>1, <2>2, <3>1, <3>4
  <2>. QED  BY <2>4, <2>5
<1>. QED  BY <1>4, <1>5

\* A load that fails gives its file up.
LEMMA ReadFailsStep ==
  ASSUME IInv, NEW r \in Readers, ReadFails(r)
  PROVE  IInv'
<1> USE DEF IInv
<1>1. Types'
  BY ReadTypes
<1>2. UNCHANGED <<dir, bytes, mode, wpc, value, wfd, written>>
  BY DEF ReadFails, files, writers
<1>3. InProgress' /\ ModeRestrictive'
  BY <1>2 DEF InProgress, ModeRestrictive
<1>4. /\ rfd'[r] = None /\ read' \in [Readers -> Content]
      /\ \A q \in Readers : q # r => rfd'[q] = rfd[q] /\ read'[q] = read[q]
  BY EmptyContent DEF ReadFails, Types, TypeOK, WholeFiles
<1>5. Apart' /\ WholeFiles'
  BY <1>2, <1>4 DEF Apart, WholeFiles
<1>. QED  BY <1>1, <1>3, <1>5

-----------------------------------------------------------------------------
(* Theorems.                                                               *)

\* The inductive invariant, for one writer and any number of readers.
THEOREM StorageInvariant == ASSUME OneWriter PROVE Spec => []IInv
<1>1. Init => IInv
  <2> SUFFICES ASSUME Init PROVE IInv
    OBVIOUS
  <2>1. Types
    BY InitTypes
  <2>2. dir.tmp = None
    BY DEF Init
  <2>3. InProgress /\ Apart
    BY <2>2 DEF Init, InProgress, Apart
  <2>4. WholeFiles
    BY <2>1, EmptyContent DEF Init, WholeFiles, Types, TypeOK
  <2>5. ModeRestrictive
    BY <2>1 DEF Init, ModeRestrictive, Types, TypeOK
  <2>. QED  BY <2>1, <2>3, <2>4, <2>5 DEF IInv
<1>2. IInv /\ [Next]_vars => IInv'
  <2>1. IInv /\ UNCHANGED vars => IInv'
    BY DEF vars, files, writers, readers, IInv, Types, TypeOK, WriterStates, NoLeftover,
           InProgress, Apart, WholeFiles, ModeRestrictive
  <2>. QED  BY <2>1, WriteStep, RenameStep, ReadStep, ReadFailsStep DEF Next
<1>. QED  BY <1>1, <1>2, PTL DEF Spec

\* "chmod-before-rename ensures perms are correct on first sight" (file.ex):
\* with one writer what is under the path is 0600 at every instant, and .tmp
\* stays behind only after a kill or a failed rm.
THEOREM StorageSound == ASSUME OneWriter PROVE Spec => []FilesSound
<1>1. IInv => FilesSound
  BY DEF IInv, Types, FilesSound
<1>. QED  BY <1>1, StorageInvariant, PTL

\* "concurrent readers never observe a partial file" (file.ex:6): with one
\* writer no load ever finds anything but a whole keypair, whichever write was
\* killed halfway and whenever the file was replaced under the reader.
THEOREM LoadsWhole == ASSUME OneWriter PROVE Spec => []NoPartialRead
<1>1. Init => NoPartialRead
  BY StorageAssumption DEF Init, NoPartialRead
<1>2. IInv /\ NoPartialRead /\ [Next]_vars => NoPartialRead'
  <2> SUFFICES ASSUME IInv, NoPartialRead, [Next]_vars PROVE NoPartialRead'
    OBVIOUS
  <2>1. CASE got' = got
    BY <2>1 DEF NoPartialRead
  <2>2. ASSUME NEW r \in Readers, OpenRead(r), got' # got PROVE NoPartialRead'
    <3>1. got' = [got EXCEPT ![r] = "file_not_found"]
      BY <2>2 DEF OpenRead
    <3>. QED  BY <3>1 DEF NoPartialRead, IInv, Types, TypeOK
  <2>3. ASSUME NEW r \in Readers, ReadBlock(r), got' # got PROVE NoPartialRead'
    <3>1. /\ rfd[r] # None /\ rfd' = [rfd EXCEPT ![r] = None]
          /\ got' = [got EXCEPT ![r] = from_protobuf(read[r])]
      BY <2>3 DEF ReadBlock
    <3>2. read[r] = bytes[rfd[r]]
      BY <2>3, <3>1, ReadStep DEF IInv, Types, TypeOK
    <3>3. from_protobuf(read[r]) \in Values
      BY <3>1, <3>2, Decoded DEF IInv, WholeFiles
    <3>. QED  BY <3>1, <3>3, StorageAssumption DEF NoPartialRead, IInv, Types, TypeOK
  <2>4. ASSUME NEW w \in Writers,
               \/ Open(w) \/ WriteBlock(w) \/ Chmod(w) \/ Rename(w)
               \/ Fail(w) \/ Rm(w) \/ Kill(w) \/ \E v \in Values : save(w, v)
        PROVE  got' = got
    BY <2>4, WriterKeeps
  <2>5. ASSUME NEW r \in Readers, ReadFails(r) PROVE NoPartialRead'
    BY <2>5 DEF ReadFails, NoPartialRead, IInv, Types, TypeOK
  <2>. QED  BY <2>1, <2>2, <2>3, <2>4, <2>5 DEF Next, vars, readers
<1>. QED  BY <1>1, <1>2, StorageInvariant, PTL DEF Spec

-----------------------------------------------------------------------------
(* The refinement.                                                         *)

\* The variables of AtomicFile.
Pending == [w \in Writers |-> IF wpc[w] = "rm" THEN None ELSE value[w]]
Snap == [r \in Readers |-> IF rfd[r] = None THEN {} ELSE {Held(rfd[r])}]

\* What a file holds is a keypair, when it was written as a whole.
LEMMA HeldWhole ==
  ASSUME NEW i \in Inodes, NEW v \in Values, bytes[i] = to_protobuf(v)
  PROVE  Held(i) = v
  BY Decoded, StorageAssumption DEF Held

\* Files that are left as they are look to a reader as they did.
LEMMA SnapKept ==
  ASSUME UNCHANGED rfd, \A r \in Readers : rfd[r] # None => bytes'[rfd[r]] = bytes[rfd[r]]
  PROVE  Snap' = Snap
  BY DEF Snap, Held

\* So does the path.
LEMMA PathKept ==
  ASSUME dir'.path = dir.path, dir.path # None => bytes'[dir.path] = bytes[dir.path]
  PROVE  Held(dir.path)' = Held(dir.path)
  BY DEF Held

\* save begins a write, a rename installs its value, Fail and Kill give it up,
\* and the other steps of a writer are not to be seen.
LEMMA WriterRefines ==
  ASSUME IInv, OneWriter, NEW w \in Writers,
         \/ Open(w) \/ WriteBlock(w) \/ Chmod(w) \/ Rename(w)
         \/ Fail(w) \/ Rm(w) \/ Kill(w) \/ \E v \in Values : save(w, v)
  PROVE  Atomic!Next \/ UNCHANGED Atomic!vars
<1> USE DEF IInv, Types
<1>1. /\ UNCHANGED <<rfd, got>>
      /\ dir.path # None => bytes'[dir.path] = bytes[dir.path]
      /\ \A r \in Readers : rfd[r] # None => bytes'[rfd[r]] = bytes[rfd[r]]
      /\ Rename(w) \/ dir'.path = dir.path
  BY WriterKeeps
<1>2. Snap' = Snap
  BY <1>1, SnapKept
<1>3. CASE Rename(w)
  <2>1. /\ wpc[w] = "rename" /\ wpc' = [wpc EXCEPT ![w] = "idle"]
        /\ value' = [value EXCEPT ![w] = None] /\ value[w] \in Values
    BY <1>3 DEF Rename, Return, Goto, WriterStates, TypeOK
  <2>2. Held(dir.path)' = value[w]
    BY <1>3, <2>1, RenameStep, Decoded, StorageAssumption DEF Held
  <2>3. Pending[w] = value[w] /\ Pending' = [Pending EXCEPT ![w] = None]
    BY <2>1 DEF Pending, TypeOK
  <2>4. Atomic!Install(w)
    BY <1>1, <1>2, <2>1, <2>2, <2>3, StorageAssumption DEF Atomic!Install, Pending, Snap
  <2>. QED  BY <2>4 DEF Atomic!Next
<1>4. CASE dir'.path = dir.path
  <2>1. Held(dir.path)' = Held(dir.path)
    BY <1>1, <1>4, PathKept
  <2>2. ASSUME NEW v \in Values, save(w, v)
        PROVE  Pending[w] = None /\ Pending' = [Pending EXCEPT ![w] = v]
    BY <2>2 DEF save, Goto, Pending, WriterStates, TypeOK
  <2>3. ASSUME Fail(w) \/ Kill(w)
        PROVE  \/ Pending[w] # None /\ Pending' = [Pending EXCEPT ![w] = None]
               \/ Pending' = Pending
    <3>1. /\ wpc[w] # "idle" /\ value[w] # None
          /\ Pending'[w] = None /\ \A u \in Writers : u # w => Pending'[u] = Pending[u]
      BY <2>3 DEF Fail, Kill, Goto, Pending, WriterStates, TypeOK
    <3>2. CASE wpc[w] = "rm"
      BY <3>1, <3>2 DEF Pending
    <3>3. CASE wpc[w] # "rm"
      BY <3>1, <3>3 DEF Pending
    <3>. QED  BY <3>2, <3>3
  <2>4. ASSUME Open(w) \/ WriteBlock(w) \/ Chmod(w) \/ Rm(w)
        PROVE  Pending' = Pending
    BY <2>4 DEF Open, WriteBlock, Chmod, Rm, Return, Goto, Pending, WriterStates, TypeOK
  <2>5. CASE Pending' = Pending
    BY <1>1, <1>2, <2>1, <2>5 DEF Atomic!vars, Pending, Snap
  <2>6. ASSUME Pending[w] # None, Pending' = [Pending EXCEPT ![w] = None]
        PROVE  Atomic!Next
    <3>1. Atomic!GiveUp(w)
      BY <1>1, <1>2, <2>1, <2>6 DEF Atomic!GiveUp, Pending, Snap
    <3>. QED  BY <3>1 DEF Atomic!Next
  <2>7. ASSUME NEW v \in Values, save(w, v) PROVE Atomic!Next
    <3>1. Atomic!Begin(w, v)
      BY <1>1, <1>2, <2>1, <2>2, <2>7 DEF Atomic!Begin, Pending, Snap
    <3>. QED  BY <3>1 DEF Atomic!Next
  <2>8. CASE Rename(w)
    BY <1>3, <2>8
  <2>. QED  BY <2>3, <2>4, <2>5, <2>6, <2>7, <2>8
<1>. QED  BY <1>1, <1>3, <1>4

\* Opening the file is the instant at which a load reads it, also when the file
\* has been replaced, and its inode lost its name, before the last block.
LEMMA ReaderRefines ==
  ASSUME IInv, NEW r \in Readers, OpenRead(r) \/ ReadFails(r) \/ ReadBlock(r)
  PROVE  Atomic!Next \/ UNCHANGED Atomic!vars
<1> USE DEF IInv, Types
<1>1. /\ UNCHANGED <<dir, bytes, wpc, value>>
  BY DEF OpenRead, ReadFails, ReadBlock, files, writers
<1>2. Held(dir.path)' = Held(dir.path) /\ Pending' = Pending
  BY <1>1 DEF Held, Pending
<1>3. CASE OpenRead(r) /\ dir.path # None
  <2>1. rfd[r] = None /\ rfd' = [rfd EXCEPT ![r] = dir.path] /\ got' = got
    BY <1>3 DEF OpenRead
  <2>2. Snap[r] = {} /\ Snap' = [Snap EXCEPT ![r] = {Held(dir.path)}]
    BY <1>1, <1>3, <2>1 DEF Snap, Held, TypeOK
  <2>3. Atomic!Look(r)
    BY <1>2, <2>1, <2>2 DEF Atomic!Look, Pending, Snap
  <2>. QED  BY <2>3 DEF Atomic!Next
<1>4. CASE OpenRead(r) /\ dir.path = None
  <2>1. rfd[r] = None /\ rfd' = rfd /\ got' = [got EXCEPT ![r] = "file_not_found"]
    BY <1>4 DEF OpenRead
  <2>2. Snap[r] = {} /\ Snap' = Snap /\ Held(dir.path) = "file_not_found"
    BY <1>1, <1>4, <2>1 DEF Snap, Held, TypeOK
  <2>3. Atomic!ReadAbsent(r)
    BY <1>2, <2>1, <2>2 DEF Atomic!ReadAbsent, Pending, Snap
  <2>. QED  BY <2>3 DEF Atomic!Next
<1>5. CASE ReadBlock(r) /\ rfd' = rfd
  <2>1. got' = got
    <3>1. rfd[r] # None
      BY <1>5 DEF ReadBlock
    <3>2. rfd' # [rfd EXCEPT ![r] = None]
      BY <1>5, <3>1 DEF TypeOK
    <3>. QED  BY <1>5, <3>2 DEF ReadBlock
  <2>2. Snap' = Snap
    BY <1>1, <1>5 DEF Snap, Held
  <2>. QED  BY <1>2, <2>1, <2>2 DEF Atomic!vars, Pending, Snap
<1>6. CASE ReadBlock(r) /\ rfd' # rfd
  <2>1. /\ rfd[r] # None /\ rfd' = [rfd EXCEPT ![r] = None]
        /\ got' = [got EXCEPT ![r] = from_protobuf(read[r])]
    BY <1>6 DEF ReadBlock
  <2>2. read[r] = bytes[rfd[r]]
    BY <1>6, <2>1, ReadStep DEF TypeOK
  <2>3. /\ Snap[r] = {from_protobuf(read[r])}
        /\ Snap' = [Snap EXCEPT ![r] = {}]
    BY <1>1, <2>1, <2>2 DEF Snap, Held, TypeOK
  <2>4. Atomic!Return(r)
    BY <1>2, <2>1, <2>3 DEF Atomic!Return, Pending, Snap
  <2>. QED  BY <2>4 DEF Atomic!Next
<1>7. CASE ReadFails(r)
  <2>1. rfd' = [rfd EXCEPT ![r] = None] /\ got' = [got EXCEPT ![r] = "posix_error"]
    BY <1>7 DEF ReadFails
  <2>2. Snap' = [Snap EXCEPT ![r] = {}]
    BY <1>1, <2>1 DEF Snap, Held, TypeOK
  <2>3. Atomic!ReadFails(r)
    BY <1>2, <2>1, <2>2 DEF Atomic!ReadFails, Pending, Snap
  <2>. QED  BY <2>3 DEF Atomic!Next
<1>. QED  BY <1>3, <1>4, <1>5, <1>6, <1>7

\* The atomic write contract (storage.ex): with one writer, any number of
\* readers and files of any length, the detailed file system implements a file
\* that is written and read at one instant, whatever fails or is killed.
THEOREM StorageAtomic == ASSUME OneWriter PROVE Spec => AtomicSpec
<1>1. Init => Atomic!Init
  <2> SUFFICES ASSUME Init PROVE Atomic!Init
    OBVIOUS
  <2>1. Held(dir.path) \in Values \cup {"file_not_found"}
    <3>1. CASE dir.path = None
      BY <3>1 DEF Held
    <3>2. CASE dir.path # None
      <4>1. TypeOK
        BY InitTypes DEF Types
      <4>2. dir.path \in Inodes /\ \E v \in Values : bytes[dir.path] = to_protobuf(v)
        BY <3>2, <4>1 DEF Init, TypeOK
      <4>. QED  BY <4>2, HeldWhole
    <3>. QED  BY <3>1, <3>2
  <2>2. Pending = [w \in Writers |-> None] /\ Snap = [r \in Readers |-> {}]
    BY DEF Init, Pending, Snap
  <2>3. got = [r \in Readers |-> None]
    BY DEF Init
  <2>. QED  BY <2>1, <2>2, <2>3 DEF Atomic!Init, Pending, Snap
<1>2. IInv /\ [Next]_vars => [Atomic!Next]_(Atomic!vars)
  <2> SUFFICES ASSUME IInv, [Next]_vars PROVE Atomic!Next \/ UNCHANGED Atomic!vars
    OBVIOUS
  <2>1. CASE \/ \E w \in Writers, v \in Values : save(w, v)
             \/ \E w \in Writers :
                  Open(w) \/ WriteBlock(w) \/ Chmod(w) \/ Rename(w) \/ Fail(w) \/ Rm(w) \/ Kill(w)
    BY <2>1, WriterRefines
  <2>2. CASE \E r \in Readers : OpenRead(r) \/ ReadFails(r) \/ ReadBlock(r)
    BY <2>2, ReaderRefines
  <2>3. CASE UNCHANGED vars
    BY <2>3 DEF vars, files, writers, readers, Atomic!vars, Held
  <2>. QED  BY <2>1, <2>2, <2>3 DEF Next
<1>. QED  BY <1>1, <1>2, StorageInvariant, PTL DEF Spec, AtomicSpec, Atomic!Spec
=============================================================================
