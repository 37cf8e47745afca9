------------------------------- MODULE Stores -------------------------------
(***************************************************************************)
(* The index and the catalog of a topic each on its own, used by callers   *)
(* that need not be a topic: offsets come in any order, and logs of any    *)
(* number of segments are indexed.                                         *)
(***************************************************************************)
EXTENDS OffsetIndex, OffsetCatalog

CONSTANTS
  Offsets,     \* offsets and positions that callers pass
  MaxEntries,  \* bound on the length of the index
  Logs         \* the logs a Rebuild may scan

\* A log lists segments in the order of their numbers; the positions of the
\* frames of a segment increase, and stay in the segment's span.
WellFormed(log) ==
  /\ \A k \in DOMAIN log : \A i, j \in DOMAIN log[k].positions :
       i < j => log[k].positions[i] < log[k].positions[j]
  /\ \A k, l \in DOMAIN log : k < l =>
       \A i \in DOMAIN log[k].positions : log[k].base + log[k].positions[i] < log[l].base

ASSUME StoresAssumption ==
  /\ Offsets \subseteq Nat
  /\ MaxEntries \in Nat
  /\ \A log \in Logs : log \in Seq([base : Nat, positions : Seq(Nat)]) /\ WellFormed(log)

IndexNext ==
  \/ \E o, p \in Offsets :
       /\ Len(Inserted(indexEntries, o, p)) <= MaxEntries
       /\ AddEntry(o, p)
  \/ IndexSync
  \/ \E n \in 0 .. Len(indexEntries) : IndexSyncFails(n)
  \/ \E log \in Logs : Rebuild(log)
  \/ \E log \in Logs : \E n \in 0 .. Len(Scanned(log)) : RebuildFails(log, n)
  \/ \E log \in Logs : \E n \in 0 .. Len(Scanned(log)) : RebuildScanFails(log, n)
  \/ IndexLoad

IndexSpec == IndexInit /\ [][IndexNext]_indexVars

Maps == UNION {[S -> Offsets] : S \in SUBSET Consumers}

CatalogNext ==
  \/ \E c \in Consumers, o \in Offsets : UpdateOffset(c, o)
  \/ \E c \in Consumers : CommitOffset(c)
  \/ \E S \in SUBSET Consumers : RemoveConsumers(S)
  \/ CatalogSync
  \/ \E map \in Maps : ReplaceMap(map)
  \/ CatalogLoad

CatalogSpec == CatalogInit /\ [][CatalogNext]_catalogVars

-----------------------------------------------------------------------------
(* Properties *)

\* AddEntry is the update of a map: whatever was at that offset is replaced,
\* everything else stays, and the order is kept (index.go:50-76).
AddEntryUpdatesMap == \A o, p \in Offsets : EntryReplaced(o, p)

\* The lookups find what a scan of all entries would (index.go:79-137):
\* GetPosition the entry at the offset, GetRange those in the range, and
\* GetClosestPosition the last one not above the target, if there is any.
LookupsMatchScan ==
  \A o \in Offsets :
    /\ PositionFound(o)
    /\ ClosestFound(o)
    /\ \A last \in Offsets : RangeFound(o, last)
=============================================================================
