------------------------------- MODULE DhtState -------------------------------
(***************************************************************************)
(* The wire format of DHT routing-table snapshots (dht_state.rs): encode,  *)
(* and decode as the walk of its Cursor over the input, one action per     *)
(* read.  DhtSnapshot runs it on the file that a node finds at its start:  *)
(* the encoding of some routing table, intact, cut short, with a damaged   *)
(* byte, or with something after its end.                                  *)
(*                                                                         *)
(* A byte is a digit in base Base, so that a u16 ranges over Base^2 values *)
(* and a u32 over Base^4.  A small Base brings the ends of these ranges    *)
(* within reach of small inputs.                                           *)
(***************************************************************************)
EXTENDS Naturals, Sequences, SequencesExt

CONSTANTS Base,       \* values of a byte (256 in the code)
          MAX_DHT_EXPORT_BYTES

ASSUME WidthAssumption == Base \in Nat \ {0, 1} /\ MAX_DHT_EXPORT_BYTES \in Nat

VARIABLES
  source,   \* the entries that were encoded last (history)
  data,     \* the input of decode
  pc,       \* the next read, done, or idle between calls
  offset,   \* of the Cursor
  count,    \* entries still to read
  addrs,    \* addresses of the current entry still to read
  entries,  \* what has been decoded, the current entry last
  result    \* ok, or the error

input   == <<source, data>>
decoder == <<input, pc, offset, count, addrs, entries, result>>

Byte == 0 .. Base - 1

\* The ranges of a u16 and of a u32.
Values16 == 0 .. Base * Base - 1
Values32 == 0 .. (Base * Base) * (Base * Base) - 1

-----------------------------------------------------------------------------
(* encode.                                                                 *)

\* "as u16" keeps the low half of the length.  Big-endian.
U16(n) == <<(n \div Base) % Base, n % Base>>
U32(n) == U16(n \div (Base * Base)) \o U16(n)

MAGIC   == <<1, 0, 1, 1>>
VERSION == 1

Bytes(v) == U16(Len(v)) \o v

EncodeEntry(e) ==
  Bytes(e.peer_id) \o U16(Len(e.addresses))
    \o FlattenSeq([i \in DOMAIN e.addresses |-> Bytes(e.addresses[i])])

Header(n) == MAGIC \o <<VERSION>> \o U32(n)

Body(es) == FlattenSeq([i \in DOMAIN es |-> EncodeEntry(es[i])])

encode(es) == Header(Len(es)) \o Body(es)

\* Every length fits its field.
Fits(es) ==
  /\ Len(es) \in Values32
  /\ \A i \in DOMAIN es :
       /\ Len(es[i].peer_id) \in Values16
       /\ Len(es[i].addresses) \in Values16
       /\ \A j \in DOMAIN es[i].addresses : Len(es[i].addresses[j]) \in Values16

\* What can become of a file: nothing, a cut, a changed byte, a longer file.
Damaged(file) ==
  {file}
    \cup {SubSeq(file, 1, n) : n \in 0 .. Len(file) - 1}
    \cup {[file EXCEPT ![i] = b] : i \in DOMAIN file, b \in Byte}
    \cup {Append(file, b) : b \in Byte}

DecoderInit ==
  /\ source = <<>>
  /\ data = <<>>
  /\ pc = "idle"
  /\ offset = 0
  /\ count = 0
  /\ addrs = 0
  /\ entries = <<>>
  /\ result = "none"

\* A call of decode, and its end.
Enter(bytes) ==
  /\ pc' = "size"
  /\ data' = bytes
  /\ UNCHANGED <<source, offset, count, addrs, entries, result>>

Leave ==
  /\ data' = <<>> /\ pc' = "idle" /\ offset' = 0 /\ count' = 0 /\ addrs' = 0
  /\ entries' = <<>> /\ result' = "none"
  /\ UNCHANGED source

-----------------------------------------------------------------------------
(* decode: the Cursor.                                                     *)

Finish(r) == pc' = "done" /\ result' = r

Fail(error) ==
  /\ Finish(error)
  /\ UNCHANGED <<input, offset, count, addrs, entries>>

\* The bounds check of read_array and read_vec.
Fetches(n) == offset + n <= Len(data)

\* The n bytes at the offset, after k others.
Peek(k, n) == SubSeq(data, offset + k + 1, offset + k + n)

PeekU16(k) == data[offset + k + 1] * Base + data[offset + k + 2]

\* Mutant: a short read is tried again, as from a stream that may go on.
Truncated_Retries == UNCHANGED <<input, pc, offset, count, addrs, entries, result>>

Truncated == Fail("Truncated")

CheckSize ==
  /\ pc = "size"
  /\ \/ /\ Len(data) > MAX_DHT_EXPORT_BYTES
        /\ Fail("InputTooLarge")
     \/ /\ Len(data) <= MAX_DHT_EXPORT_BYTES
        /\ pc' = "magic"
        /\ UNCHANGED <<input, offset, count, addrs, entries, result>>

ReadMagic ==
  /\ pc = "magic"
  /\ \/ ~Fetches(4) /\ Truncated
     \/ Fetches(4) /\ Peek(0, 4) # MAGIC /\ Fail("BadMagic")
     \/ /\ Fetches(4) /\ Peek(0, 4) = MAGIC
        /\ offset' = offset + 4
        /\ pc' = "version"
        /\ UNCHANGED <<input, count, addrs, entries, result>>

ReadVersion ==
  /\ pc = "version"
  /\ \/ ~Fetches(1) /\ Truncated
     \/ Fetches(1) /\ data[offset + 1] # VERSION /\ Fail("UnsupportedVersion")
     \/ /\ Fetches(1) /\ data[offset + 1] = VERSION
        /\ offset' = offset + 1
        /\ pc' = "count"
        /\ UNCHANGED <<input, count, addrs, entries, result>>

\* The tests of the inner and the outer for loop.
NextRead(addressesLeft, entriesLeft) ==
  \/ addressesLeft > 0 /\ pc' = "addr" /\ UNCHANGED result
  \/ addressesLeft = 0 /\ entriesLeft > 0 /\ pc' = "peer" /\ UNCHANGED result
  \/ addressesLeft = 0 /\ entriesLeft = 0 /\ Finish("ok")

ReadCount ==
  /\ pc = "count"
  /\ \/ ~Fetches(4) /\ Truncated
     \/ /\ Fetches(4)
        /\ count' = PeekU16(0) * (Base * Base) + PeekU16(2)
        /\ offset' = offset + 4
        /\ NextRead(0, count')
        /\ UNCHANGED <<input, addrs, entries>>

\* The length field at the offset, when there is one.
PeekLen == IF Fetches(2) THEN PeekU16(0) ELSE 0

\* peer_id_len, peer_id and addr_count.
TakePeer(len) ==
  /\ Fetches(2 + len + 2)
  /\ entries' = Append(entries, [peer_id |-> Peek(2, len), addresses |-> <<>>])
  /\ addrs' = PeekU16(2 + len)
  /\ offset' = offset + 2 + len + 2
  /\ count' = count - 1
  /\ NextRead(addrs', count')
  /\ UNCHANGED input

\* Mutant: the end of the input ends the table.
ReadPeer_StopsAtEnd ==
  /\ pc = "peer"
  /\ \/ ~Fetches(2) /\ Finish("ok") /\ UNCHANGED <<input, offset, count, addrs, entries>>
     \/ Fetches(2) /\ ~Fetches(2 + PeekLen + 2) /\ Truncated
     \/ TakePeer(PeekLen)

ReadPeer ==
  /\ pc = "peer"
  /\ \/ ~Fetches(2 + PeekLen + 2) /\ Truncated
     \/ TakePeer(PeekLen)

ReadAddr ==
  /\ pc = "addr"
  /\ LET len == PeekLen
     IN  \/ ~Fetches(2 + len) /\ Truncated
         \/ /\ Fetches(2 + len)
            /\ entries' = [entries EXCEPT ![Len(entries)].addresses =
                             Append(@, Peek(2, len))]
            /\ addrs' = addrs - 1
            /\ offset' = offset + 2 + len
            /\ NextRead(addrs', count)
            /\ UNCHANGED <<input, count>>

-----------------------------------------------------------------------------
Decode ==
  \/ CheckSize
  \/ ReadMagic
  \/ ReadVersion
  \/ ReadCount
  \/ ReadPeer
  \/ ReadAddr

-----------------------------------------------------------------------------
(* Properties.                                                             *)

Entry == [peer_id : Seq(Byte), addresses : Seq(Seq(Byte))]

DecoderTypeOK ==
  /\ data \in Seq(Byte)
  /\ pc \in {"size", "magic", "version", "count", "peer", "addr", "done", "idle"}
  /\ offset \in 0 .. Len(data)
  /\ count \in Values32
  /\ addrs \in Values16
  /\ entries \in Seq(Entry)
  /\ result \in {"none", "ok", "InputTooLarge", "Truncated", "BadMagic",
                 "UnsupportedVersion"}

\* A table whose lengths fit the fields and whose file is within the limit
\* comes back from an intact file, and from one with bytes after its end
\* (decode does not look past the last entry).
RoundTrip ==
  pc = "done" /\ IsPrefix(encode(source), data) /\ Fits(source)
    /\ Len(data) <= MAX_DHT_EXPORT_BYTES
  => result = "ok" /\ entries = source

\* Whatever the input, what decode accepts is what encode writes: the bytes it
\* has consumed are the encoding of the entries it returns.  So no entry comes
\* from nowhere, and a file that a crash or a full disk has cut short, or whose
\* counts promise more than it holds, is an error and never a smaller table.
OnlyEncodings ==
  result = "ok" =>
    encode(entries) = SubSeq(data, 1, offset)
===============================================================================
