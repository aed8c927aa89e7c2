---------------------------- MODULE SearchIndex -----------------------------
(***************************************************************************)
(* What the semantic index promises while nothing fails and the writes of  *)
(* a device do not overlap: it embeds a device as it is, loses it with the *)
(* device, and nobody is told that a write is done, or that the service is *)
(* up, before the index is in step.  Catalogue implements it in many steps.*)
(***************************************************************************)
EXTENDS Rowids

CONSTANTS MaxHardware, Texts, Models, Dimensions, Shelf

VARIABLES
  hardware,  \* the devices: a text or None per id
  index,     \* the vectors
  embedder,  \* the configured model and dimensions
  pending    \* the devices a write or a start has still to answer for

vars == <<hardware, index, embedder, pending>>

Ids == 1 .. MaxHardware
Embedder == [model : Models, dimensions : Dimensions]

(* What the index should have of device h. *)
Current(h) ==
  IF hardware[h] = None THEN None
  ELSE [model |-> embedder.model, dimensions |-> embedder.dimensions,
        text |-> hardware[h]]

InStep(h) == index[h] = Current(h)

Init ==
  /\ hardware = Shelf
  /\ index = [h \in Ids |-> None]
  /\ embedder \in Embedder
  /\ pending = Ids

-----------------------------------------------------------------------------
(* A device is created or updated, and its client waits. *)
Write(h, text) ==
  /\ h \notin pending
  /\ hardware' = [hardware EXCEPT ![h] = text]
  /\ pending' = pending \cup {h}
  /\ UNCHANGED <<index, embedder>>

(* A device goes, with its vector, whether or not a write waits for it. *)
Remove(h) ==
  /\ hardware[h] # None
  /\ hardware' = [hardware EXCEPT ![h] = None]
  /\ index' = [index EXCEPT ![h] = None]
  /\ UNCHANGED <<embedder, pending>>

(* A device somebody waits for is embedded, and perhaps answered for. *)
Embed(h) ==
  /\ h \in pending
  /\ hardware[h] # None
  /\ index' = [index EXCEPT ![h] = Current(h)]
  /\ pending' \in {pending, pending \ {h}}
  /\ UNCHANGED <<hardware, embedder>>

Answer(h) ==
  /\ h \in pending
  /\ InStep(h)
  /\ pending' = pending \ {h}
  /\ UNCHANGED <<hardware, index, embedder>>

(* The service is up. *)
Serve ==
  /\ \A h \in Ids : InStep(h)
  /\ pending' = {}
  /\ UNCHANGED <<hardware, index, embedder>>

(* It goes down, and comes back perhaps configured anew. *)
Restart ==
  /\ embedder' \in Embedder
  /\ pending' = Ids
  /\ UNCHANGED <<hardware, index>>

Next ==
  \/ \E h \in Ids, text \in Texts : Write(h, text)
  \/ \E h \in Ids : Remove(h) \/ Embed(h) \/ Answer(h)
  \/ Serve
  \/ Restart

Spec == Init /\ [][Next]_vars
=============================================================================
