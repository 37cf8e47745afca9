--------------------------- MODULE CatalogPersist ---------------------------
(***************************************************************************)
(* How the catalog replaces its file: persist in pkg/storage/catalog.go.   *)
(*                                                                         *)
(* Sync, Close, Reset and Import write the map to consumers.json.tmp and   *)
(* then rename that file.  The process may end at any point of this, and   *)
(* what it leaves behind is met by the next one.  c.mu is held from the    *)
(* operation to the end of its persist, so no other one comes in between.  *)
(* OffsetCatalog has all of it in one step, CatalogSync;                   *)
(* SavesAtomically says that this is what the steps amount to.             *)
(***************************************************************************)
EXTENDS Stores

VARIABLES
  catalogTemp,  \* what was written to consumers.json.tmp; empty if there is none
  saving        \* persist: "no", "writing" to the temporary file, or "written"

persistVars == <<catalogVars, catalogTemp, saving>>

PersistInit ==
  /\ CatalogInit
  /\ catalogTemp = NoConsumers
  /\ saving = "no"

\* os.WriteFile creates or truncates the temporary file, whatever it held.
PersistBegins ==
  /\ saving' = "writing"
  /\ catalogTemp' = NoConsumers

\* Sync and Close of a catalog that is dirty.
SyncBegins ==
  /\ saving = "no"
  /\ catalogDirty
  /\ PersistBegins
  /\ UNCHANGED catalogVars

\* Reset and Import.
ReplaceBegins(map) ==
  /\ saving = "no"
  /\ ReplaceMap(map)
  /\ PersistBegins

\* Variant: the error of a write that stopped is not looked at.
WriteTempUnchecked(S) ==
  /\ saving = "writing"
  /\ catalogTemp' = Restrict(consumers, S)
  /\ saving' = "written"
  /\ UNCHANGED catalogVars

\* The temporary file holds what was written so far, the part for S.
WriteTemp(S) ==
  /\ saving = "writing"
  /\ catalogTemp' = Restrict(consumers, S)
  /\ saving' = IF S = DOMAIN consumers THEN "written" ELSE "writing"
  /\ UNCHANGED catalogVars

\* The write fails and leaves the file as it is, or the rename, and it is
\* removed.
PersistFails ==
  /\ saving # "no"
  /\ saving' = "no"
  /\ catalogTemp' = IF saving = "written" THEN NoConsumers ELSE catalogTemp
  /\ UNCHANGED catalogVars

RenameTemp ==
  /\ saving = "written"
  /\ catalogFile' = catalogTemp
  /\ catalogTemp' = NoConsumers
  /\ catalogDirty' = FALSE
  /\ saving' = "no"
  /\ UNCHANGED consumers

\* The process ends, within a persist or not, and another one starts.
PersistRestarts ==
  /\ CatalogLoad
  /\ saving' = "no"
  /\ UNCHANGED catalogTemp

PersistNext ==
  \/ /\ saving = "no"
     /\ \/ \E c \in Consumers, o \in Offsets : UpdateOffset(c, o)
        \/ \E c \in Consumers : CommitOffset(c)
        \/ \E S \in SUBSET Consumers : RemoveConsumers(S)
     /\ UNCHANGED <<catalogTemp, saving>>
  \/ SyncBegins
  \/ \E map \in Maps : ReplaceBegins(map)
  \/ \E S \in SUBSET DOMAIN consumers : WriteTemp(S)
  \/ PersistFails
  \/ RenameTemp
  \/ PersistRestarts

PersistSpec == PersistInit /\ [][PersistNext]_persistVars

-----------------------------------------------------------------------------
(* Properties *)

\* catalog.go:276-282: whatever moment a write, a rename or the process fails
\* at, and whatever an earlier process left in the temporary file, the offsets
\* on disk are those before the persist or all of those in memory, and only the
\* latter count as saved.  This is what lets Topic take a save for one step.
SavesAtomically == CatalogSpec
=============================================================================
