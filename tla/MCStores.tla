------------------------------ MODULE MCStores ------------------------------
(* The index, the catalog and the settings on their own: every             *)
(* interleaving of the operations of each.  They share no state, so they   *)
(* take turns at running alone instead of being interleaved: one moves     *)
(* only while the others are as they were when created.                    *)
EXTENDS CatalogPersist, Config, TLC

CONSTANTS
  c1, c2      \* two consumers

\* One or two segments of up to two frames.
MCLogs ==
  {<<>>} \cup
  {<<[base |-> 0, positions |-> p]>> : p \in {<<0>>, <<0, 1>>, <<0, 2>>}} \cup
  {<<[base |-> 0, positions |-> <<0, 1>>], [base |-> 2, positions |-> <<0>>]>>}

\* Files that override up to two settings with numbers around the bounds.
Sizes == {Size(n, u) : n \in {-3, -1, 0, 1, 2, 5, 31, MaxInt, MaxInt + 1, Malformed}, u \in 0 .. 3}
Numbers == {-1, 0, 1, 2, MaxPort, MaxPort + 1}

Overrides ==
  {f :> size : f \in {"segment", "buffer"}, size \in Sizes} \cup
  {f :> n : f \in {"port", "retention", "index", "cleanup"}, n \in Numbers} \cup
  {"cleanup" :> Malformed}

MCFiles == {f @@ g : f, g \in Overrides} \cup {Defaults, Unreadable}
MCPorts == Numbers \cup {Malformed}

ConfigIsNew == process = "starting"
CatalogIsNew == PersistInit
IndexIsNew == <<indexEntries, indexFile, indexDirty>> = <<<<>>, <<>>, FALSE>>

MCNext ==
  \/ CatalogIsNew /\ ConfigIsNew /\ IndexNext /\ UNCHANGED <<persistVars, configVars>>
  \/ IndexIsNew /\ ConfigIsNew /\ PersistNext /\ UNCHANGED <<indexVars, configVars>>
  \/ IndexIsNew /\ CatalogIsNew /\ ConfigNext /\ UNCHANGED <<indexVars, persistVars>>

MCInit == IndexInit /\ PersistInit /\ ConfigInit

MCSpec == MCInit /\ [][MCNext]_<<indexVars, persistVars, configVars>>
=============================================================================
