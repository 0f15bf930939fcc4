----------------------------- MODULE DhtSnapshot -----------------------------
(***************************************************************************)
(* The Kademlia routing table across restarts: terminate/2 exports it to a *)
(* file before the swarm is stopped, init/1 decodes and imports it again   *)
(* (node.ex, the export and import NIFs of lib.rs and their arms in        *)
(* node.rs).  The file holds the bytes of DhtState's encode, read back by  *)
(* the steps of its decode; it is replaced whole or not at all, as         *)
(* FileStorage shows for one writer.                                       *)
(***************************************************************************)
EXTENDS DhtState, FiniteSets

CONSTANTS Entries,   \* what k-buckets hold: entries whose bytes are a peer id
                     \* and addresses
          Absent,    \* no file
          MaxBoots,  \* bound: starts of the node
          MaxFaults  \* bound: kills, panics, damaged files, failed I/O

ASSUME BoundsAssumption ==
  /\ Entries \subseteq Entry
  /\ Absent \notin Seq(Byte)
  /\ MaxBoots \in Nat /\ MaxFaults \in Nat

VARIABLES
  node,      \* where the GenServer is in init/1, its life and terminate/2
  config,    \* [kademlia, path]: enable_kademlia, and dht_state_path is set
  loop,      \* the swarm loop: "running" or "ended"
  table,     \* entries in the k-buckets of the running loop
  export,    \* the entries exported, until they are written
  file,      \* the bytes at the path, or Absent
  boots, faults,
  kept       \* entries the next node must know (history)

vars == <<decoder, node, config, loop, table, export, file, boots, faults, kept>>

Booting     == {"reading", "decoding", "importing"}
Terminating == {"exporting", "writing", "stopping"}
Config      == [kademlia : BOOLEAN, path : BOOLEAN]

Init ==
  /\ DecoderInit
  /\ node = "down" /\ config \in Config /\ loop = "ended" /\ table = {}
  /\ export = <<>> /\ file = Absent
  /\ boots = 0 /\ faults = 0 /\ kept = {}

Fault == faults < MaxFaults /\ faults' = faults + 1

-----------------------------------------------------------------------------
(* init/1                                                                  *)

\* The swarm is built and its loop runs; the table is empty.
Start(c) ==
  /\ node = "down" /\ boots < MaxBoots
  /\ boots' = boots + 1
  /\ config' = c
  /\ loop' = "running"
  /\ node' = IF c.path THEN "reading" ELSE "up"
  /\ UNCHANGED <<decoder, table, export, file, faults, kept>>

\* Without a file the node goes on with an empty table.
ReadFile ==
  /\ node = "reading"
  /\ \/ file = Absent /\ node' = "up" /\ UNCHANGED decoder
     \/ file # Absent /\ node' = "decoding" /\ Enter(file)
  /\ UNCHANGED <<config, loop, table, export, file, boots, faults, kept>>

\* storage.read fails for another reason: what the file holds is not loaded.
ReadFails ==
  /\ node = "reading" /\ Fault
  /\ node' = "up"
  /\ kept' = kept \cap table
  /\ UNCHANGED <<decoder, config, loop, table, export, file, boots>>

DecodeStep ==
  /\ node = "decoding" /\ Decode
  /\ UNCHANGED <<node, config, loop, table, export, file, boots, faults, kept>>

\* Bytes that do not decode are logged and leave the table empty.
Decoded ==
  /\ node = "decoding" /\ pc = "done"
  /\ \/ result = "ok" /\ node' = "importing" /\ UNCHANGED decoder
     \/ result # "ok" /\ node' = "up" /\ Leave
  /\ UNCHANGED <<config, loop, table, export, file, boots, faults, kept>>

\* The import query: add_address for every entry that is a peer id and
\* addresses, an error without Kademlia, and an error from the channel when
\* the loop has ended.  The channel is never full: before it comes only the
\* registration, and nobody else has the handle yet.
Import ==
  /\ node = "importing"
  /\ node' = "up"
  /\ table' = IF loop = "running" /\ config.kademlia
                THEN table \cup (Range(entries) \cap Entries) ELSE table
  /\ Leave
  /\ UNCHANGED <<config, loop, export, file, boots, faults, kept>>

-----------------------------------------------------------------------------
(* terminate/2                                                             *)

Exports == config.path /\ config.kademlia /\ loop = "running"

\* What a file of these entries gives back: when it is too large, or when a
\* length does not fit its field, nobody can import it.
Survives(es) ==
  IF Fits(es) /\ Len(encode(es)) <= MAX_DHT_EXPORT_BYTES THEN Range(es) ELSE {}

\* What the file at the path still gives.
Saved ==
  IF file # Absent /\ file = encode(source) THEN Survives(source) ELSE {}

\* Mutant: stop_node before the export.
Terminate_StopsFirst ==
  /\ node = "up"
  /\ node' = IF config.path THEN "exporting" ELSE "stopping"
  /\ kept' = IF Exports THEN table ELSE kept
  /\ loop' = "ended" /\ table' = {}
  /\ UNCHANGED <<decoder, config, export, file, boots, faults>>

\* stop/1, a shutdown by the supervisor, or an exception in a callback; the
\* HandlerRegistry answers cleanup_node.
Terminate ==
  /\ node = "up"
  /\ node' = IF config.path THEN "exporting" ELSE "stopping"
  /\ kept' = IF Exports THEN table ELSE kept
  /\ UNCHANGED <<decoder, config, loop, table, export, file, boots, faults>>

\* cleanup_node comes before the export and exits when the HandlerRegistry is
\* down or does not answer in time: neither the export nor stop_node runs, and
\* the loop ends with the handle's Drop.
CleanupExits ==
  /\ node = "up"
  /\ node' = "down" /\ loop' = "ended" /\ table' = {}
  /\ kept' = kept \cap Saved
  /\ UNCHANGED <<decoder, config, export, file, boots, faults>>

\* The export query: the k-buckets, in any order, or an error that is logged.
Export ==
  /\ node = "exporting"
  /\ \/ /\ Exports
        /\ node' = "writing"
        /\ export' \in SetToSeqs(table)
        /\ kept' = kept \cap Survives(export')
     \/ /\ ~Exports
        /\ node' = "stopping"
        /\ UNCHANGED <<export, kept>>
  /\ UNCHANGED <<decoder, config, loop, table, file, boots, faults>>

\* The loop runs, but its command channel is full, or the binary cannot be
\* allocated: the error is logged, and nothing is written.
ExportRefused ==
  /\ node = "exporting" /\ Exports
  /\ node' = "stopping"
  /\ kept' = kept \cap Saved
  /\ UNCHANGED <<decoder, config, loop, table, export, file, boots, faults>>

Write ==
  /\ node = "writing"
  /\ node' = "stopping"
  /\ file' = encode(export) /\ source' = export /\ export' = <<>>
  /\ UNCHANGED <<data, pc, offset, count, addrs, entries, result>>
  /\ UNCHANGED <<config, loop, table, boots, faults, kept>>

\* A failed write is logged and leaves the file as it was.
WriteFails ==
  /\ node = "writing" /\ Fault
  /\ node' = "stopping" /\ export' = <<>>
  /\ kept' = kept \cap Saved
  /\ UNCHANGED <<decoder, config, loop, table, file, boots>>

StopNode ==
  /\ node = "stopping"
  /\ node' = "down" /\ loop' = "ended" /\ table' = {}
  /\ UNCHANGED <<decoder, config, export, file, boots, faults, kept>>

-----------------------------------------------------------------------------
(* The environment.                                                        *)

\* Peers come into the k-buckets and leave them.  What is learned while init/1
\* runs is as if learned just after it, since the import only adds; what happens
\* after the export has no effect.
Observes == node \in {"up", "exporting"} /\ loop = "running" /\ config.kademlia

Learn(e) ==
  /\ Observes
  /\ table' = table \cup {e}
  /\ UNCHANGED <<decoder, node, config, loop, export, file, boots, faults, kept>>

Forget(e) ==
  /\ Observes /\ e \in table
  /\ table' = table \ {e} /\ kept' = kept \ {e}
  /\ UNCHANGED <<decoder, node, config, loop, export, file, boots, faults>>

\* The loop panics; the GenServer goes on.
Panic ==
  /\ loop = "running" /\ Fault
  /\ loop' = "ended" /\ table' = {}
  /\ kept' = kept \cap Saved
  /\ UNCHANGED <<decoder, node, config, export, file, boots>>

\* The GenServer is killed; the handle's Drop ends the loop.
Kill ==
  /\ node # "down" /\ Fault
  /\ node' = "down" /\ loop' = "ended" /\ table' = {} /\ export' = <<>>
  /\ kept' = kept \cap Saved
  /\ Leave
  /\ UNCHANGED <<config, file, boots>>

\* The file is cut or changed by someone else.
Damage ==
  /\ file # Absent /\ node = "down" /\ Fault
  /\ file' \in Damaged(file) \ {file}
  /\ kept' = {}
  /\ UNCHANGED <<decoder, node, config, loop, table, export, boots>>

-----------------------------------------------------------------------------
NodeStep ==
  ReadFile \/ DecodeStep \/ Decoded \/ Import \/ Export \/ ExportRefused \/ Write \/ StopNode

Next ==
  \/ \E c \in Config : Start(c)
  \/ NodeStep \/ ReadFails \/ Terminate \/ CleanupExits \/ WriteFails
  \/ \E e \in Entries : Learn(e) \/ Forget(e)
  \/ Panic \/ Kill \/ Damage

\* The GenServer runs on; a query is answered or refused (SwarmLoop).
Spec == Init /\ [][Next]_vars /\ WF_vars(NodeStep)

-----------------------------------------------------------------------------
(* Properties.                                                             *)

TypeOK ==
  /\ DecoderTypeOK
  /\ node \in {"down", "up"} \cup Booting \cup Terminating
  /\ config \in Config
  /\ loop \in {"running", "ended"}
  /\ table \subseteq Entries /\ (loop = "ended" => table = {})
  /\ export \in Seq(Entries)
  /\ file # Absent => file \in Seq(Byte)
  /\ boots \in 0 .. MaxBoots /\ faults \in 0 .. MaxFaults
  /\ kept \subseteq Entries

\* On every file that a node can find at its start, decode returns what encode
\* was given or an error, and never anything that encode has not written.
CodecExact == TypeOK /\ RoundTrip /\ OnlyEncodings

\* "Re-import the persisted routing table so a freshly-booted node skips
\* rediscovery" (node.ex:157-159): a node with Kademlia and a path knows, once
\* it is up, what the last predecessor that saved its table knew when it began
\* to terminate, whatever came in between that did not destroy the file: kills,
\* panics, and lives without Kademlia or without a path.  A predecessor does
\* not save its table when the export is refused (a full command channel),
\* when cleanup_node exits before it, when the write fails, and when nobody can
\* import the snapshot because it exceeds the limit or a length does not fit its
\* field (Survives); but for this last case, what the file held before is then
\* still there.  A node whose read of the file fails starts without it.
RestartKeepsTable ==
  node = "up" /\ loop = "running" /\ config.kademlia /\ config.path =>
    kept \subseteq table

\* No file and no failing step of export or import holds up a start or a
\* shutdown ("Failure is non-fatal", node.ex:159; "shutdown completes
\* cleanly", node.ex:292).
BootAndStopComplete ==
  /\ node \in Booting ~> node \in {"up", "down"}
  /\ node \in Terminating ~> node = "down"
=============================================================================
