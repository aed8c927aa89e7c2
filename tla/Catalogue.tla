----------------------------- MODULE Catalogue ------------------------------
(***************************************************************************)
(* The hardware catalogue and its semantic index.  A device is written     *)
(* first and embedded afterwards, by the same request, through an external *)
(* provider; what a request leaves undone, the backfill of the next start  *)
(* picks up.                                                               *)
(*                                                                         *)
(* A device is the text it is embedded from (name, brand and description); *)
(* an index row is what its vector was made with and from, which is what   *)
(* its model, dimensions and source_hash columns record.  A store call is  *)
(* one statement, so one step; between two of them other requests run.     *)
(***************************************************************************)
EXTENDS Rowids

CONSTANTS
  MaxHardware,  \* bound on hardware.id
  Texts,        \* the embedding texts of devices
  Models,       \* the values of OPENAI_EMBEDDINGS_MODEL
  Dimensions,   \* the values of EMBEDDINGS_MODEL_DIM
  Shelf,        \* the seeded devices: a text or None per id
  Requests,     \* the writes that may be in progress at a time
  Outages,      \* whether the provider and the statements may fail
  Crashes       \* whether the process may die

VARIABLES
  hardware,  \* the devices
  index,     \* hardware_embeddings
  embedder,  \* what this process is configured with
  phase,     \* of the process: starting, backfill, serving
  todo,      \* the devices the backfill still has to embed
  vector,    \* what the backfill got from the provider and has not stored
  req        \* per request: where it is and the device it wrote

vars == <<hardware, index, embedder, phase, todo, vector, req>>

Ids == 1 .. MaxHardware
Device == [id : Ids, text : Texts]
Embedder == [model : Models, dimensions : Dimensions]
Embedding == [model : Models, dimensions : Dimensions, text : Texts]

ASSUME ShelfIsTyped == MaxHardware \in Nat /\ Shelf \in [Ids -> Texts \cup {None}]

ASSUME NoneIsNoDevice == None \notin Texts \cup Device \cup Embedding

Idle == [pc |-> "idle", device |-> None]

Init ==
  /\ hardware = Shelf
  /\ index = [h \in Ids |-> None]
  /\ embedder \in Embedder
  /\ phase = "starting"
  /\ todo = {}
  /\ vector = None
  /\ req = [r \in Requests |-> Idle]

-----------------------------------------------------------------------------
(* Mutant: only what is missing is embedded. *)
NeedsEmbeddingIfMissing(row, text) == row = None

(* Mutant: a change of the configured model goes unnoticed. *)
NeedsEmbeddingByHash(row, text) == row = None \/ row.text # text

(* EmbeddingStatus.NeedsEmbedding on the index row of a device. *)
NeedsEmbedding(row, text) ==
  row = None \/ row.model # embedder.model \/ row.text # text

EmbeddingOf(device) ==
  [model |-> embedder.model, dimensions |-> embedder.dimensions, text |-> device.text]

(* Mutant: the row does not say which model made its vector. *)
StoredWithoutModel(device) ==
  IF hardware[device.id] = None THEN index
  ELSE [index EXCEPT ![device.id] =
          [model |-> None, dimensions |-> embedder.dimensions, text |-> device.text]]

(* Mutant: foreign keys are off. *)
StoredBlindly(device) ==
  [index EXCEPT ![device.id] = EmbeddingOf(device)]

(* upsertEmbeddingQuery; a device that is gone is a foreign-key violation,  *)
(* which is logged and leaves the index alone.                              *)
Stored(device) ==
  IF hardware[device.id] = None THEN index
  ELSE [index EXCEPT ![device.id] = EmbeddingOf(device)]

-----------------------------------------------------------------------------
(* The start of the process: EnsureEmbeddings, before any request.          *)

(* getAllEmbeddingStatusQuery *)
ReadStatuses ==
  /\ phase = "starting"
  /\ phase' = "backfill"
  /\ todo' = {d \in Device : /\ hardware[d.id] = d.text
                             /\ NeedsEmbedding(index[d.id], d.text)}
  /\ UNCHANGED <<hardware, index, embedder, vector, req>>

(* The provider answers for the next device (OpenAIEmbedder.Embed). *)
BackfillEmbed ==
  /\ phase = "backfill"
  /\ vector = None
  /\ \E d \in todo :
       /\ \A e \in todo : d.id <= e.id
       /\ vector' = d
  /\ UNCHANGED <<hardware, index, embedder, phase, todo, req>>

BackfillUpsert ==
  /\ phase = "backfill"
  /\ vector # None
  /\ index' = Stored(vector)
  /\ todo' = todo \ {vector}
  /\ vector' = None
  /\ UNCHANGED <<hardware, embedder, phase, req>>

(* Nothing is left to embed, and the server starts. *)
BackfillDone ==
  /\ phase = "backfill"
  /\ todo = {}
  /\ phase' = "serving"
  /\ UNCHANGED <<hardware, index, embedder, todo, vector, req>>

(* The first error ends the backfill; it is logged and the server starts.   *)
BackfillFails ==
  /\ Outages
  /\ phase \in {"starting", "backfill"}
  /\ phase = "backfill" => todo # {}
  /\ phase' = "serving"
  /\ todo' = {}
  /\ vector' = None
  /\ UNCHANGED <<hardware, index, embedder, req>>

-----------------------------------------------------------------------------
(* The writes, and refreshEmbedding after them. *)

Written(r, device) ==
  /\ req[r].pc = "idle"
  /\ phase = "serving"
  /\ hardware' = [hardware EXCEPT ![device.id] = device.text]
  /\ req' = [req EXCEPT ![r] = [pc |-> "check", device |-> device]]
  /\ UNCHANGED <<index, embedder, phase, todo, vector>>

(* POST /hardware *)
Create(r) ==
  \E d \in Device : IsNewRowid(hardware, d.id) /\ Written(r, d)

(* Mutant: only a creation is followed by refreshEmbedding. *)
UpdateWithoutRefresh(r) ==
  /\ phase = "serving"
  /\ \E d \in Device :
       /\ hardware[d.id] # None
       /\ hardware' = [hardware EXCEPT ![d.id] = d.text]
  /\ UNCHANGED <<index, embedder, phase, todo, vector, req>>

(* PATCH /hardware/:id, of the text or of the purchase date only *)
Update(r) ==
  \E d \in Device : hardware[d.id] # None /\ Written(r, d)

(* DELETE /hardware/:id; the index row goes by cascade. *)
Delete(h) ==
  /\ phase = "serving"
  /\ hardware[h] # None
  /\ hardware' = [hardware EXCEPT ![h] = None]
  /\ index' = [index EXCEPT ![h] = None]
  /\ UNCHANGED <<embedder, phase, todo, vector, req>>

(* r's response goes out, whatever became of the embedding. *)
Respond(r) == req' = [req EXCEPT ![r] = Idle]

(* getEmbeddingStatusQuery.  A device that is gone by now is not embedded.  *)
Check(r) ==
  /\ req[r].pc = "check"
  /\ LET d == req[r].device IN
     IF hardware[d.id] # None /\ NeedsEmbedding(index[d.id], d.text)
       THEN req' = [req EXCEPT ![r].pc = "embed"]
       ELSE Respond(r)
  /\ UNCHANGED <<hardware, index, embedder, phase, todo, vector>>

(* The provider answers. *)
Embed(r) ==
  /\ req[r].pc = "embed"
  /\ req' = [req EXCEPT ![r].pc = "upsert"]
  /\ UNCHANGED <<hardware, index, embedder, phase, todo, vector>>

Upsert(r) ==
  /\ req[r].pc = "upsert"
  /\ index' = Stored(req[r].device)
  /\ Respond(r)
  /\ UNCHANGED <<hardware, embedder, phase, todo, vector>>

(* Mutant: the call to the provider runs without the request's context. *)
DeadlineOutsideProvider(r) ==
  /\ req[r].pc \in {"check", "upsert"}
  /\ Respond(r)
  /\ UNCHANGED <<hardware, index, embedder, phase, todo, vector>>

(* The provider or a statement fails, or the request's 15 s are over: the   *)
(* device stays as written, its embedding as it was.                        *)
GiveUp(r) ==
  /\ req[r].pc \in {"check", "embed", "upsert"}
  /\ Respond(r)
  /\ UNCHANGED <<hardware, index, embedder, phase, todo, vector>>

(* The process dies and is started again, perhaps configured anew. *)
Restart ==
  /\ Crashes
  /\ embedder' \in Embedder
  /\ phase' = "starting"
  /\ todo' = {}
  /\ vector' = None
  /\ req' = [r \in Requests |-> Idle]
  /\ UNCHANGED <<hardware, index>>

-----------------------------------------------------------------------------
Own(r) == Check(r) \/ Upsert(r)

Next ==
  \/ ReadStatuses \/ BackfillEmbed \/ BackfillUpsert \/ BackfillDone
  \/ BackfillFails
  \/ \E r \in Requests : Create(r) \/ Update(r)
  \/ \E h \in Ids : Delete(h)
  \/ \E r \in Requests : Own(r) \/ Embed(r)
  \/ \E r \in Requests : Outages /\ GiveUp(r)
  \/ Restart

Spec == Init /\ [][Next]_vars

(* The process runs its own steps, and a request's deadline passes.  The    *)
(* provider owes no answer: no step of Embed or BackfillEmbed is fair.      *)
Fairness ==
  /\ WF_vars(ReadStatuses) /\ WF_vars(BackfillUpsert) /\ WF_vars(BackfillDone)
  /\ \A r \in Requests : WF_vars(Own(r)) /\ WF_vars(Outages /\ GiveUp(r))

FairSpec == Spec /\ Fairness

(* No two writes in progress are of the same device. *)
Apart ==
  \A r, s \in Requests :
    /\ req[r].pc # "idle" /\ req[s].pc # "idle"
    /\ req[r].device.id = req[s].device.id
    => r = s

(* The behaviours in which writes of the same device do not overlap, as     *)
(* nothing in the code ensures.                                             *)
ApartSpec == Init /\ [][Next /\ Apart']_vars

-----------------------------------------------------------------------------
(* The vector of device h is of its present text and of this model. *)
Fresh(h) ==
  hardware[h] # None =>
    /\ index[h] # None
    /\ index[h].model = embedder.model
    /\ index[h].text = hardware[h]

(* And Search compares it with a query, which has the dimensions of now. *)
Searchable(h) ==
  /\ Fresh(h)
  /\ hardware[h] # None => index[h].dimensions = embedder.dimensions

Quiet == phase = "serving" /\ \A r \in Requests : req[r].pc = "idle"

(* Every variable has its shape. *)
TypeOK ==
  /\ hardware \in [Ids -> Texts \cup {None}]
  /\ index \in [Ids -> Embedding \cup {None}]
  /\ embedder \in Embedder
  /\ phase \in {"starting", "backfill", "serving"}
  /\ todo \in SUBSET Device
  /\ vector \in Device \cup {None}
  /\ req \in [Requests -> [pc : {"idle", "check", "embed", "upsert"},
                           device : Device \cup {None}]]

(* Search joins the index to the devices and finds nothing that was         *)
(* deleted, even when the deletion overtakes a slow provider.               *)
IndexedDevicesExist == \A h \in Ids : index[h] # None => hardware[h] # None

(* The step of BackfillDone. *)
BackfillEndsWell == phase = "backfill" /\ phase' = "serving" /\ todo = {}

(* A backfill that ends without an error leaves no device missing or stale, *)
(* whatever earlier requests, crashes or a change of model left behind.     *)
BackfillCatchesUp == [][BackfillEndsWell => \A h \in Ids : Fresh(h)]_vars

(* It "re-embeds anything missing or stale" (README), so search finds every *)
(* device after it.  The code breaks it: NeedsEmbedding does not look at    *)
(* the dimensions, and Search skips vectors of other dimensions than the    *)
(* query's, so after a change of EMBEDDINGS_MODEL_DIM search finds nothing. *)
BackfillMakesSearchable == [][BackfillEndsWell => \A h \in Ids : Searchable(h)]_vars

(* A device is searchable by its present text the moment the response       *)
(* returns: promised without qualification.  It holds as long as the        *)
(* provider answers and writes of the same device do not overlap, crashes   *)
(* included; two overlapping writes of one device break it.                 *)
AnsweredMeansSearchable == Quiet => \A h \in Ids : Searchable(h)

(* The devices a request, or the start, has still to answer for. *)
Pending ==
  IF phase = "serving"
    THEN {req[r].device.id : r \in {q \in Requests : req[q].pc # "idle"}}
    ELSE Ids

Promise == INSTANCE SearchIndex WITH pending <- Pending

(* Seen from outside, a write, its check, its call to the provider and its  *)
(* upsert are what SearchIndex promises: every vector that is stored is of  *)
(* the device as it is, and no write and no start is over before.  It holds *)
(* as AnsweredMeansSearchable does, and says of every step what that says   *)
(* of the quiet states.                                                     *)
ImplementsSearchIndex == Promise!Spec

(* A slow or silent provider cannot hold a request for ever. *)
WritesAreAnswered ==
  \A r \in Requests : req[r].pc # "idle" ~> req[r].pc = "idle"

(* An embedding-provider outage degrades search and does not stop the       *)
(* service from booting.  The backfill has no deadline, and a provider that *)
(* never answers keeps the server from starting.                            *)
StartEnds == phase # "serving" ~> phase = "serving"
=============================================================================
