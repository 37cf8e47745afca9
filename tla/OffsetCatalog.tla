--------------------------- MODULE OffsetCatalog ---------------------------
(***************************************************************************)
(* The consumer offsets of one topic: pkg/storage/catalog.go.              *)
(*                                                                         *)
(* A map from consumer to the offset of its next message, in memory, and   *)
(* consumers.json.  To replace that file is one step here; CatalogPersist  *)
(* has the steps of it, the failures and the ends of the process between   *)
(* them, and shows that together they do what CatalogSync says.            *)
(***************************************************************************)
EXTENDS Integers, FiniteSets, Functions

CONSTANT
  Consumers  \* consumer ids

VARIABLES
  consumers,     \* c.consumers: consumer -> Offset
  catalogDirty,  \* c.dirty
  catalogFile    \* the map in consumers.json

catalogVars == <<consumers, catalogDirty, catalogFile>>

NoConsumers == [c \in {} |-> 0]

CatalogInit ==
  /\ consumers = NoConsumers
  /\ catalogDirty = FALSE
  /\ catalogFile = NoConsumers

\* 0 for a consumer the catalog does not know.
OffsetIn(map, c) == IF c \in DOMAIN map THEN map[c] ELSE 0
GetOffset(c) == OffsetIn(consumers, c)

UpdateOffset(c, offset) ==
  /\ consumers' = [d \in DOMAIN consumers \cup {c} |->
                     IF d = c THEN offset ELSE consumers[d]]
  /\ catalogDirty' = TRUE
  /\ UNCHANGED catalogFile

\* CommitOffset changes the time of the last commit only.
CommitOffset(c) ==
  /\ c \in DOMAIN consumers
  /\ catalogDirty' = TRUE
  /\ UNCHANGED <<consumers, catalogFile>>

\* Variant: the removal does not mark the catalog dirty.
RemoveConsumersClean(S) ==
  /\ consumers' = Restrict(consumers, DOMAIN consumers \ S)
  /\ UNCHANGED <<catalogDirty, catalogFile>>

\* RemoveConsumer of one, CleanupStaleConsumers of those too long inactive;
\* the latter leaves dirty alone when there is none.
RemoveConsumers(S) ==
  /\ consumers' = Restrict(consumers, DOMAIN consumers \ S)
  /\ catalogDirty' = (catalogDirty \/ S \cap DOMAIN consumers # {})
  /\ UNCHANGED catalogFile

\* Sync and Close, when the persist they may need succeeds.
CatalogSync ==
  /\ catalogFile' = IF catalogDirty THEN consumers ELSE catalogFile
  /\ catalogDirty' = FALSE
  /\ UNCHANGED consumers

\* Reset and Import; a CatalogSync follows if their persist succeeds.
ReplaceMap(map) ==
  /\ consumers' = map
  /\ catalogDirty' = TRUE
  /\ UNCHANGED catalogFile

\* NewCatalog in a new process.
CatalogLoad ==
  /\ consumers' = catalogFile
  /\ catalogDirty' = FALSE
  /\ UNCHANGED catalogFile

-----------------------------------------------------------------------------
(* Properties *)

\* A catalog that is not dirty is the one in the file, so that skipping the
\* write in Sync and Close loses no consumer's offset.
CatalogCleanIsSaved == ~catalogDirty => catalogFile = consumers
=============================================================================
