-------------------------- MODULE CatalogueProofs ---------------------------
(***************************************************************************)
(* The semantic index, for every catalogue, embedder and set of writers:   *)
(* it holds nothing that was deleted, and a backfill that ends well leaves *)
(* nothing behind.                                                         *)
(***************************************************************************)
EXTENDS Catalogue, TLAPS

-----------------------------------------------------------------------------
(* While the process starts nobody else writes. *)
StartIsAlone == phase # "serving" => \A r \in Requests : req[r].pc = "idle"

(* A device that is not fresh is on the backfill's list, which is of the    *)
(* devices as they are.                                                     *)
TodoCoversStale ==
  phase = "backfill" =>
    /\ \A h \in Ids : Fresh(h) \/ [id |-> h, text |-> hardware[h]] \in todo
    /\ \A d \in todo : hardware[d.id] = d.text
    /\ vector # None => vector \in todo

(* Outside a backfill nothing of one is left. *)
IdleBackfill == phase # "backfill" => todo = {} /\ vector = None

(* A request that goes on after its write carries a device. *)
WritersHaveDevices ==
  \A r \in Requests : req[r].pc # "idle" => req[r].device # None

IInv ==
  /\ TypeOK
  /\ IndexedDevicesExist
  /\ StartIsAlone
  /\ TodoCoversStale
  /\ IdleBackfill
  /\ WritersHaveDevices

(* The initial state is sound: nothing is indexed yet. *)
LEMMA InitSound == Init => IInv
BY ShelfIsTyped
   DEF Init, Idle, IInv, TypeOK, IndexedDevicesExist, StartIsAlone,
       TodoCoversStale, IdleBackfill, WritersHaveDevices

(* Storing a vector keeps the index typed and touches a live device only. *)
LEMMA StoredEffect ==
  ASSUME TypeOK, IndexedDevicesExist, NEW d \in Device
  PROVE  /\ Stored(d) \in [Ids -> Embedding \cup {None}]
         /\ \A h \in Ids : Stored(d)[h] # None => hardware[h] # None
         /\ \A h \in Ids : h # d.id => Stored(d)[h] = index[h]
         /\ hardware[d.id] # None =>
              ~NeedsEmbedding(Stored(d)[d.id], d.text)
<1>1. d.id \in Ids /\ d.text \in Texts
  BY DEF Device
<1>2. EmbeddingOf(d) \in Embedding
  BY <1>1 DEF TypeOK, Embedder, Embedding, EmbeddingOf
<1>3. EmbeddingOf(d) # None
  BY <1>2, NoneIsNoDevice
<1>4. ~NeedsEmbedding(EmbeddingOf(d), d.text)
  BY <1>3 DEF NeedsEmbedding, EmbeddingOf
<1> QED
  BY <1>1, <1>2, <1>3, <1>4 DEF TypeOK, IndexedDevicesExist, Stored

(* A step of the process before it serves. *)
LEMMA StartStepSound ==
  ASSUME IInv,
         \/ ReadStatuses \/ BackfillEmbed \/ BackfillUpsert \/ BackfillDone
         \/ BackfillFails
  PROVE  IInv'
<1> USE DEF IInv
<1>1. CASE ReadStatuses
  <2>1. TypeOK'
    BY <1>1 DEF ReadStatuses, TypeOK
  <2>2. TodoCoversStale'
    <3>1. todo' = {d \in Device : /\ hardware[d.id] = d.text
                                  /\ NeedsEmbedding(index[d.id], d.text)}
      BY <1>1 DEF ReadStatuses
    <3>2. UNCHANGED <<hardware, index, embedder, vector>> /\ phase = "starting"
      BY <1>1 DEF ReadStatuses
    <3>3. ASSUME NEW h \in Ids, ~Fresh(h)
          PROVE  [id |-> h, text |-> hardware[h]] \in todo'
      <4> DEFINE d == [id |-> h, text |-> hardware[h]]
      <4>1. hardware[h] \in Texts
        BY <3>3 DEF Fresh, TypeOK
      <4>2. d \in Device
        BY <4>1 DEF Device
      <4>3. NeedsEmbedding(index[h], hardware[h])
        BY <3>3 DEF Fresh, NeedsEmbedding
      <4> QED
        BY <3>1, <4>2, <4>3
    <3>4. \A h \in Ids : Fresh(h)' <=> Fresh(h)
      BY <3>2 DEF Fresh, NeedsEmbedding
    <3>5. vector = None
      BY <1>1 DEF ReadStatuses, IdleBackfill
    <3> QED
      BY <3>1, <3>2, <3>3, <3>4, <3>5 DEF TodoCoversStale
  <2> QED
    BY <1>1, <2>1, <2>2
       DEF ReadStatuses, IndexedDevicesExist, StartIsAlone, IdleBackfill,
           WritersHaveDevices
<1>2. CASE BackfillEmbed
  BY <1>2 DEF BackfillEmbed, TypeOK, IndexedDevicesExist, StartIsAlone,
              TodoCoversStale, IdleBackfill, WritersHaveDevices, Fresh, NeedsEmbedding
<1>3. CASE BackfillUpsert
  <2>1. /\ phase = "backfill" /\ vector \in todo /\ vector \in Device
        /\ hardware[vector.id] = vector.text
    BY <1>3 DEF BackfillUpsert, TodoCoversStale, TypeOK
  <2>2. vector.text # None /\ vector.id \in Ids
    BY <2>1, NoneIsNoDevice DEF Device
  <2>3. /\ Stored(vector) \in [Ids -> Embedding \cup {None}]
        /\ \A h \in Ids : Stored(vector)[h] # None => hardware[h] # None
        /\ \A h \in Ids : h # vector.id => Stored(vector)[h] = index[h]
        /\ ~NeedsEmbedding(Stored(vector)[vector.id], vector.text)
    BY <2>1, <2>2, StoredEffect
  <2>4. /\ index' = Stored(vector) /\ todo' = todo \ {vector} /\ vector' = None
        /\ UNCHANGED <<hardware, embedder, phase, req>>
    BY <1>3 DEF BackfillUpsert
  <2>5. TypeOK'
    BY <2>3, <2>4 DEF TypeOK
  <2>6. IndexedDevicesExist'
    BY <2>3, <2>4 DEF IndexedDevicesExist
  <2>7. TodoCoversStale'
    <3>1. ASSUME NEW h \in Ids
          PROVE  Fresh(h)' \/ [id |-> h, text |-> hardware[h]] \in todo'
      <4>1. CASE h = vector.id
        BY <2>1, <2>3, <2>4, <4>1 DEF Fresh, NeedsEmbedding
      <4>2. CASE h # vector.id
        <5>1. index'[h] = index[h]
          BY <2>3, <2>4, <4>2
        <5>2. [id |-> h, text |-> hardware[h]] # vector
          BY <4>2
        <5> QED
          BY <2>1, <2>4, <5>1, <5>2 DEF Fresh, NeedsEmbedding, TodoCoversStale
      <4> QED
        BY <4>1, <4>2
    <3> QED
      BY <2>1, <2>4, <3>1 DEF TodoCoversStale
  <2> QED
    BY <2>1, <2>4, <2>5, <2>6, <2>7 DEF StartIsAlone, IdleBackfill, WritersHaveDevices
<1>4. CASE BackfillDone
  <2>1. vector = None
    BY <1>4 DEF BackfillDone, TodoCoversStale
  <2> QED
    BY <1>4, <2>1
       DEF BackfillDone, TypeOK, IndexedDevicesExist, StartIsAlone,
           TodoCoversStale, IdleBackfill, WritersHaveDevices
<1>5. CASE BackfillFails
  BY <1>5 DEF BackfillFails, TypeOK, IndexedDevicesExist, StartIsAlone,
              TodoCoversStale, IdleBackfill, WritersHaveDevices
<1> QED
  BY <1>1, <1>2, <1>3, <1>4, <1>5

(* A write of a device, new or not. *)
LEMMA WrittenSound ==
  ASSUME IInv, NEW r \in Requests, NEW d \in Device, Written(r, d)
  PROVE  IInv'
<1> USE DEF IInv
<1>1. /\ d.id \in Ids /\ d.text \in Texts /\ d.text # None /\ d # None
  BY NoneIsNoDevice DEF Device
<1>2. /\ phase = "serving"
      /\ hardware' = [hardware EXCEPT ![d.id] = d.text]
      /\ req' = [req EXCEPT ![r] = [pc |-> "check", device |-> d]]
      /\ UNCHANGED <<index, embedder, phase, todo, vector>>
  BY DEF Written
<1>3. TypeOK'
  BY <1>1, <1>2 DEF TypeOK
<1>4. IndexedDevicesExist'
  BY <1>1, <1>2 DEF TypeOK, IndexedDevicesExist
<1>5. WritersHaveDevices'
  BY <1>1, <1>2 DEF TypeOK, WritersHaveDevices
<1> QED
  BY <1>2, <1>3, <1>4, <1>5 DEF StartIsAlone, TodoCoversStale, IdleBackfill

(* A removal takes the index row along. *)
LEMMA DeleteSound ==
  ASSUME IInv, NEW h \in Ids, Delete(h)
  PROVE  IInv'
<1> USE DEF IInv
<1>1. TypeOK'
  BY DEF Delete, TypeOK
<1>2. IndexedDevicesExist'
  BY DEF Delete, TypeOK, IndexedDevicesExist
<1> QED
  BY <1>1, <1>2
     DEF Delete, StartIsAlone, TodoCoversStale, IdleBackfill, WritersHaveDevices

(* Responding ends a request and nothing else. *)
LEMMA RespondSound ==
  ASSUME IInv, NEW r \in Requests, Respond(r),
         UNCHANGED <<hardware, embedder, phase, todo, vector>>,
         phase = "serving",
         index' \in [Ids -> Embedding \cup {None}],
         \A h \in Ids : index'[h] # None => hardware[h] # None
  PROVE  IInv'
<1> USE DEF IInv
<1>1. TypeOK'
  BY DEF Respond, Idle, TypeOK
<1>2. WritersHaveDevices'
  BY DEF Respond, Idle, TypeOK, WritersHaveDevices
<1> QED
  BY <1>1, <1>2
     DEF IndexedDevicesExist, StartIsAlone, TodoCoversStale, IdleBackfill

(* What a request does after its write. *)
LEMMA RefreshSound ==
  ASSUME IInv, NEW r \in Requests, Own(r) \/ Embed(r) \/ GiveUp(r)
  PROVE  IInv'
<1> USE DEF IInv
<1>1. req[r].pc # "idle"
  BY DEF Own, Check, Upsert, Embed, GiveUp
<1>2. phase = "serving"
  BY <1>1 DEF StartIsAlone
<1>3. index \in [Ids -> Embedding \cup {None}]
  BY DEF TypeOK
<1>4. \A h \in Ids : index[h] # None => hardware[h] # None
  BY DEF IndexedDevicesExist
<1>5. ASSUME NEW pc \in {"embed", "upsert"}, req' = [req EXCEPT ![r].pc = pc],
             UNCHANGED <<hardware, index, embedder, phase, todo, vector>>
      PROVE  IInv'
  <2>1. TypeOK'
    BY <1>5 DEF TypeOK
  <2>2. WritersHaveDevices'
    BY <1>1, <1>5 DEF TypeOK, WritersHaveDevices
  <2> QED
    BY <1>2, <1>5, <2>1, <2>2
       DEF IndexedDevicesExist, StartIsAlone, TodoCoversStale, IdleBackfill
<1>6. CASE Check(r)
  <2>1. CASE Respond(r)
    BY <1>2, <1>3, <1>4, <1>6, <2>1, RespondSound DEF Check
  <2>2. CASE ~Respond(r)
    <3>1. /\ req' = [req EXCEPT ![r].pc = "embed"]
          /\ UNCHANGED <<hardware, index, embedder, phase, todo, vector>>
      BY <1>6, <2>2 DEF Check
    <3> QED
      BY <1>5, <3>1
  <2> QED
    BY <2>1, <2>2
<1>7. CASE Upsert(r)
  <2>1. req[r].device \in Device
    BY <1>1 DEF TypeOK, WritersHaveDevices
  <2> QED
    BY <1>2, <1>7, <2>1, StoredEffect, RespondSound DEF Upsert
<1>8. CASE Embed(r)
  BY <1>5, <1>8 DEF Embed
<1>9. CASE GiveUp(r)
  BY <1>2, <1>3, <1>4, <1>9, RespondSound DEF GiveUp
<1> QED
  BY <1>6, <1>7, <1>8, <1>9 DEF Own

(* A crash takes the requests and the backfill, and leaves the tables. *)
LEMMA RestartSound ==
  ASSUME IInv, Restart
  PROVE  IInv'
<1> USE DEF IInv
<1>1. TypeOK'
  BY DEF Restart, Idle, TypeOK
<1> QED
  BY <1>1 DEF Restart, Idle, IndexedDevicesExist, StartIsAlone, TodoCoversStale,
              IdleBackfill, WritersHaveDevices

(* Every step keeps the invariant. *)
LEMMA NextSound ==
  ASSUME IInv, [Next]_vars
  PROVE  IInv'
<1>1. CASE UNCHANGED vars
  BY <1>1 DEF vars, IInv, TypeOK, IndexedDevicesExist, StartIsAlone,
              TodoCoversStale, IdleBackfill, WritersHaveDevices, Fresh, NeedsEmbedding
<1>2. CASE \/ ReadStatuses \/ BackfillEmbed \/ BackfillUpsert \/ BackfillDone
           \/ BackfillFails
  BY <1>2, StartStepSound
<1>3. CASE \E r \in Requests : Create(r) \/ Update(r)
  BY <1>3, WrittenSound DEF Create, Update
<1>4. CASE \E h \in Ids : Delete(h)
  BY <1>4, DeleteSound
<1>5. CASE \E r \in Requests : Own(r) \/ Embed(r)
  BY <1>5, RefreshSound
<1>6. CASE \E r \in Requests : Outages /\ GiveUp(r)
  BY <1>6, RefreshSound
<1>7. CASE Restart
  BY <1>7, RestartSound
<1> QED
  BY <1>1, <1>2, <1>3, <1>4, <1>5, <1>6, <1>7 DEF Next

-----------------------------------------------------------------------------
(* The invariant is inductive. *)
THEOREM Invariance == Spec => []IInv
BY InitSound, NextSound, PTL DEF Spec

(* Every variable of the catalogue has its shape. *)
THEOREM TypeCorrect == Spec => []TypeOK
<1>1. IInv => TypeOK
  BY DEF IInv
<1> QED
  BY <1>1, Invariance, PTL

(* Whatever overtakes whatever, the index holds nothing that was deleted. *)
THEOREM NoGhosts == Spec => []IndexedDevicesExist
<1>1. IInv => IndexedDevicesExist
  BY DEF IInv
<1> QED
  BY <1>1, Invariance, PTL

(* The step that finds the list of the backfill empty leaves every device   *)
(* fresh.                                                                   *)
LEMMA EmptyListMeansFresh ==
  IInv => (BackfillEndsWell => \A h \in Ids : Fresh(h))
BY DEF IInv, TodoCoversStale, BackfillEndsWell

(* A backfill that ends well leaves no device missing or stale. *)
THEOREM BackfillIsComplete == Spec => BackfillCatchesUp
BY Invariance, EmptyListMeansFresh, PTL DEF BackfillCatchesUp

(* A backfill leaves every device findable, unless the number of dimensions *)
(* is changed between two starts: that is all the finding takes.            *)
THEOREM FixedDimensionsAreSearchable ==
  (\A m, n \in Dimensions : m = n) /\ Spec => BackfillMakesSearchable
<1>1. ASSUME \A m, n \in Dimensions : m = n, IInv, BackfillEndsWell
      PROVE  \A h \in Ids : Searchable(h)
  <2>1. \A h \in Ids : Fresh(h)
    BY <1>1, EmptyListMeansFresh
  <2>2. \A h \in Ids : index[h] # None => index[h].dimensions = embedder.dimensions
    BY <1>1 DEF IInv, TypeOK, Embedding, Embedder
  <2> QED
    BY <2>1, <2>2 DEF Searchable, Fresh
<1>2. CASE \A m, n \in Dimensions : m = n
  <2>1. IInv => (BackfillEndsWell => \A h \in Ids : Searchable(h))
    BY <1>1, <1>2
  <2> QED
    BY <2>1, Invariance, PTL DEF BackfillMakesSearchable
<1> QED
  BY <1>2

-----------------------------------------------------------------------------
(* A provider that answers and one number of dimensions.  The writers are   *)
(* any number, of different devices; the process dies and its model changes *)
(* at any time.                                                             *)
Calm ==
  /\ ~Outages
  /\ \A m, n \in Dimensions : m = n

(* A device that is not fresh is one that is being written. *)
WriterCoversStale ==
  phase = "serving" =>
    \A h \in Ids : Fresh(h) \/
      \E r \in Requests : /\ req[r].pc # "idle"
                          /\ req[r].device = [id |-> h, text |-> hardware[h]]

(* And its device is as it was written, or gone. *)
WriterIsCurrent ==
  \A r \in Requests : req[r].pc # "idle" =>
    hardware[req[r].device.id] \in {None, req[r].device.text}

(* What holds in every state while writes of a device do not overlap. *)
ApartInv == IInv /\ Apart /\ WriterIsCurrent /\ WriterCoversStale

(* A request in progress is of a device, while the process serves. *)
LEMMA WriterHasDevice ==
  ASSUME IInv, NEW r \in Requests, req[r].pc # "idle"
  PROVE  /\ phase = "serving"
         /\ req[r].device \in Device
         /\ req[r].device.id \in Ids
         /\ req[r].device.text \in Texts
         /\ req[r].device.text # None
<1>1. phase = "serving" /\ req[r].device \in Device
  BY DEF IInv, StartIsAlone, WritersHaveDevices, TypeOK
<1> QED
  BY <1>1, NoneIsNoDevice DEF Device

(* What a write does. *)
LEMMA WrittenEffect ==
  ASSUME IInv, NEW r \in Requests, NEW d \in Device, Written(r, d)
  PROVE  /\ req[r].pc = "idle" /\ phase = "serving" /\ phase' = phase
         /\ UNCHANGED <<index, embedder>>
         /\ hardware' = [hardware EXCEPT ![d.id] = d.text]
         /\ hardware'[d.id] = d.text
         /\ \A h \in Ids : h # d.id => hardware'[h] = hardware[h]
         /\ req'[r].pc # "idle" /\ req'[r].device = d
         /\ \A q \in Requests : q # r => req'[q] = req[q]
<1>1. d.id \in Ids
  BY DEF Device
<1> QED
  BY <1>1 DEF Written, IInv, TypeOK

(* Nobody else writes the device that is being written. *)
LEMMA WriterStaysCurrent ==
  ASSUME Calm, Apart', IInv, WriterIsCurrent, [Next]_vars
  PROVE  WriterIsCurrent'
<1>1. ASSUME UNCHANGED hardware,
             \A q \in Requests : req'[q].pc # "idle" =>
               req[q].pc # "idle" /\ req'[q].device = req[q].device
      PROVE  WriterIsCurrent'
  BY <1>1 DEF WriterIsCurrent
<1>2. CASE \E r \in Requests : Create(r) \/ Update(r)
  <2>1. PICK r \in Requests, d \in Device : Written(r, d)
    BY <1>2 DEF Create, Update
  <2>2. /\ hardware'[d.id] = d.text
        /\ \A h \in Ids : h # d.id => hardware'[h] = hardware[h]
        /\ req'[r].pc # "idle" /\ req'[r].device = d
        /\ \A q \in Requests : q # r => req'[q] = req[q]
    BY <2>1, WrittenEffect
  <2>3. ASSUME NEW q \in Requests, req'[q].pc # "idle", q # r
        PROVE  hardware'[req'[q].device.id] \in {None, req'[q].device.text}
    <3>1. req'[q].device.id # d.id
      BY <2>2, <2>3 DEF Apart
    <3>2. req'[q] = req[q] /\ req[q].device.id \in Ids
      BY <2>2, <2>3, WriterHasDevice
    <3> QED
      BY <2>2, <2>3, <3>1, <3>2 DEF WriterIsCurrent
  <2> QED
    BY <2>2, <2>3 DEF WriterIsCurrent
<1>3. CASE \E h \in Ids : Delete(h)
  <2>1. PICK g \in Ids : Delete(g)
    BY <1>3
  <2>2. /\ hardware' = [hardware EXCEPT ![g] = None] /\ req' = req
    BY <2>1 DEF Delete
  <2>3. \A h \in Ids : hardware'[h] \in {None, hardware[h]}
    BY <2>2 DEF IInv, TypeOK
  <2>4. \A r \in Requests : req[r].pc # "idle" => req[r].device.id \in Ids
    BY WriterHasDevice
  <2> QED
    BY <2>2, <2>3, <2>4 DEF WriterIsCurrent
<1>4. CASE \E r \in Requests : Own(r) \/ Embed(r)
  <2>1. UNCHANGED hardware
    BY <1>4 DEF Own, Check, Embed, Upsert
  <2>2. \A q \in Requests : req'[q].pc # "idle" =>
          req[q].pc # "idle" /\ req'[q].device = req[q].device
    BY <1>4 DEF Own, Check, Embed, Upsert, Respond, Idle, IInv, TypeOK
  <2> QED
    BY <1>1, <2>1, <2>2
<1>5. CASE Restart
  <2>1. UNCHANGED hardware /\ \A q \in Requests : req'[q].pc = "idle"
    BY <1>5 DEF Restart, Idle
  <2> QED
    BY <1>1, <2>1
<1>6. CASE \/ ReadStatuses \/ BackfillEmbed \/ BackfillUpsert \/ BackfillDone
           \/ BackfillFails \/ UNCHANGED vars
  <2>1. UNCHANGED <<hardware, req>>
    BY <1>6 DEF ReadStatuses, BackfillEmbed, BackfillUpsert, BackfillDone,
                BackfillFails, vars
  <2> QED
    BY <1>1, <2>1
<1> QED
  BY <1>2, <1>3, <1>4, <1>5, <1>6 DEF Next, Calm

(* Without a failure, a start ends with every device fresh. *)
LEMMA StartLeavesNothingStale ==
  ASSUME Calm, IInv,
         \/ ReadStatuses \/ BackfillEmbed \/ BackfillUpsert \/ BackfillDone
         \/ BackfillFails \/ Restart
  PROVE  WriterCoversStale'
<1>1. CASE BackfillDone
  <2>1. \A h \in Ids : Fresh(h)
    BY <1>1 DEF BackfillDone, IInv, TodoCoversStale
  <2>2. UNCHANGED <<hardware, index, embedder>>
    BY <1>1 DEF BackfillDone
  <2> QED
    BY <2>1, <2>2 DEF WriterCoversStale, Fresh
<1>2. CASE ReadStatuses \/ BackfillEmbed \/ BackfillUpsert \/ Restart
  <2>1. phase' # "serving"
    BY <1>2 DEF ReadStatuses, BackfillEmbed, BackfillUpsert, Restart
  <2> QED
    BY <2>1 DEF WriterCoversStale
<1> QED
  BY <1>1, <1>2 DEF Calm, BackfillFails

(* The write makes its device stale and covers it. *)
LEMMA WrittenIsCovered ==
  ASSUME IInv, WriterCoversStale, NEW r \in Requests, NEW d \in Device,
         Written(r, d)
  PROVE  WriterCoversStale'
<1>1. /\ req[r].pc = "idle" /\ phase = "serving"
      /\ UNCHANGED <<index, embedder>>
      /\ hardware'[d.id] = d.text
      /\ \A h \in Ids : h # d.id => hardware'[h] = hardware[h]
      /\ req'[r].pc # "idle" /\ req'[r].device = d
      /\ \A q \in Requests : q # r => req'[q] = req[q]
  BY WrittenEffect
<1>2. d = [id |-> d.id, text |-> d.text]
  BY DEF Device
<1>3. ASSUME NEW h \in Ids, h # d.id, ~Fresh(h)'
      PROVE  \E q \in Requests : /\ req'[q].pc # "idle"
                                 /\ req'[q].device = [id |-> h, text |-> hardware'[h]]
  <2>1. hardware'[h] = hardware[h]
    BY <1>1, <1>3
  <2>2. ~Fresh(h)
    BY <1>1, <1>3, <2>1 DEF Fresh
  <2>3. PICK q \in Requests : /\ req[q].pc # "idle"
                              /\ req[q].device = [id |-> h, text |-> hardware[h]]
    BY <1>1, <2>2 DEF WriterCoversStale
  <2>4. req'[q] = req[q]
    BY <1>1, <2>3
  <2> QED
    BY <2>1, <2>3, <2>4
<1> QED
  BY <1>1, <1>2, <1>3 DEF WriterCoversStale

(* A removed device is not stale, and no other one changes. *)
LEMMA DeleteKeepsCover ==
  ASSUME IInv, WriterCoversStale, NEW g \in Ids, Delete(g)
  PROVE  WriterCoversStale'
<1>1. /\ phase = "serving" /\ UNCHANGED <<embedder, req>>
      /\ hardware' = [hardware EXCEPT ![g] = None]
      /\ index' = [index EXCEPT ![g] = None]
  BY DEF Delete
<1>2. ASSUME NEW h \in Ids
      PROVE  \/ Fresh(h)'
             \/ \E r \in Requests : /\ req'[r].pc # "idle"
                                    /\ req'[r].device = [id |-> h, text |-> hardware'[h]]
  <2>1. CASE h = g
    BY <1>1, <2>1 DEF Fresh, IInv, TypeOK
  <2>2. CASE h # g
    <3>1. hardware'[h] = hardware[h] /\ index'[h] = index[h]
      BY <1>1, <2>2 DEF IInv, TypeOK
    <3> QED
      BY <1>1, <3>1 DEF Fresh, WriterCoversStale
  <2> QED
    BY <2>1, <2>2
<1> QED
  BY <1>2 DEF WriterCoversStale

(* What a request does between its write and its answer: it goes on, or it  *)
(* ends with its device fresh or gone.                                      *)
LEMMA RefreshEffect ==
  ASSUME IInv, WriterIsCurrent, NEW r \in Requests, NEW d \in Device,
         d = req[r].device, Own(r) \/ Embed(r)
  PROVE  /\ req[r].pc # "idle"
         /\ UNCHANGED <<hardware, embedder, phase>>
         /\ \A q \in Requests : q # r => req'[q] = req[q]
         /\ \A h \in Ids : h # d.id => index'[h] = index[h]
         /\ \/ index' = index /\ req'[r].pc # "idle" /\ req'[r].device = d
            \/ /\ req'[r].pc = "idle"
               /\ Fresh(d.id)'
               /\ \/ index' = index
                  \/ /\ hardware[d.id] # None
                     /\ index' = [index EXCEPT ![d.id] = EmbeddingOf(d)]
<1>1. req[r].pc # "idle" /\ d.id \in Ids /\ d.text \in Texts /\ d.text # None
  BY WriterHasDevice DEF Own, Check, Embed, Upsert
<1>2. hardware[d.id] \in {None, d.text}
  BY <1>1 DEF WriterIsCurrent
<1>3. /\ UNCHANGED <<hardware, embedder, phase>>
      /\ \A q \in Requests : q # r => req'[q] = req[q]
  BY DEF Own, Check, Embed, Upsert, Respond, IInv, TypeOK
<1>4. ASSUME Respond(r) PROVE req'[r].pc = "idle"
  BY <1>4 DEF Respond, Idle, IInv, TypeOK
<1>5. CASE Check(r)
  <2>1. index' = index
    BY <1>5 DEF Check
  <2>2. CASE hardware[d.id] # None /\ NeedsEmbedding(index[d.id], d.text)
    <3>1. req' = [req EXCEPT ![r].pc = "embed"]
      BY <1>5, <2>2 DEF Check
    <3>2. req'[r].pc # "idle" /\ req'[r].device = d
      BY <3>1 DEF IInv, TypeOK
    <3> QED
      BY <1>1, <1>3, <2>1, <3>2
  <2>3. CASE ~(hardware[d.id] # None /\ NeedsEmbedding(index[d.id], d.text))
    <3>1. req'[r].pc = "idle"
      BY <1>4, <1>5, <2>3 DEF Check
    <3>2. Fresh(d.id)
      BY <1>2, <2>3 DEF Fresh, NeedsEmbedding
    <3>3. Fresh(d.id)'
      BY <1>3, <2>1, <3>2 DEF Fresh
    <3> QED
      BY <1>1, <1>3, <2>1, <3>1, <3>3
  <2> QED
    BY <2>2, <2>3
<1>6. CASE Embed(r)
  <2>1. index' = index /\ req' = [req EXCEPT ![r].pc = "upsert"]
    BY <1>6 DEF Embed
  <2>2. req'[r].pc # "idle" /\ req'[r].device = d
    BY <2>1 DEF IInv, TypeOK
  <2> QED
    BY <1>1, <1>3, <2>1, <2>2
<1>7. CASE Upsert(r)
  <2>1. index' = Stored(d) /\ req'[r].pc = "idle"
    BY <1>4, <1>7 DEF Upsert
  <2>2. /\ \A h \in Ids : h # d.id => Stored(d)[h] = index[h]
        /\ hardware[d.id] # None => ~NeedsEmbedding(Stored(d)[d.id], d.text)
    BY StoredEffect DEF IInv
  <2>3. Fresh(d.id)'
    BY <1>2, <1>3, <2>1, <2>2 DEF Fresh, NeedsEmbedding
  <2>4. \/ index' = index
        \/ /\ hardware[d.id] # None
           /\ index' = [index EXCEPT ![d.id] = EmbeddingOf(d)]
    BY <2>1 DEF Stored
  <2> QED
    BY <1>1, <1>3, <2>1, <2>2, <2>3, <2>4
<1> QED
  BY <1>5, <1>6, <1>7 DEF Own

(* A request answers only when its device is fresh or gone. *)
LEMMA RefreshKeepsCover ==
  ASSUME ApartInv, NEW r \in Requests, Own(r) \/ Embed(r)
  PROVE  WriterCoversStale'
<1> USE DEF ApartInv
<1>1. req[r].pc # "idle"
  BY DEF Own, Check, Embed, Upsert
<1>2. PICK d \in Device : d = req[r].device
  BY <1>1, WriterHasDevice
<1>3. /\ UNCHANGED <<hardware, embedder, phase>>
      /\ \A q \in Requests : q # r => req'[q] = req[q]
      /\ \A h \in Ids : h # d.id => index'[h] = index[h]
      /\ \/ index' = index /\ req'[r].pc # "idle" /\ req'[r].device = d
         \/ req'[r].pc = "idle" /\ Fresh(d.id)'
  BY <1>2, RefreshEffect
<1>4. phase = "serving" /\ d.id \in Ids
  BY <1>1, <1>2, WriterHasDevice
<1>5. ASSUME NEW h \in Ids, ~Fresh(h)'
      PROVE  \E q \in Requests : /\ req'[q].pc # "idle"
                                 /\ req'[q].device = [id |-> h, text |-> hardware'[h]]
  <2>1. index'[h] = index[h]
    BY <1>3, <1>5
  <2>2. ~Fresh(h)
    BY <1>3, <1>5, <2>1 DEF Fresh
  <2>3. PICK q \in Requests : /\ req[q].pc # "idle"
                              /\ req[q].device = [id |-> h, text |-> hardware[h]]
    BY <1>4, <2>2 DEF WriterCoversStale
  <2>4. CASE q # r
    BY <1>3, <2>3, <2>4
  <2>5. CASE q = r
    <3>1. d.id = h
      BY <1>2, <2>3, <2>5
    <3> QED
      BY <1>2, <1>3, <1>5, <2>3, <2>5, <3>1
  <2> QED
    BY <2>4, <2>5
<1> QED
  BY <1>5 DEF WriterCoversStale

LEMMA ApartInit ==
  ASSUME Init PROVE ApartInv
<1>1. Apart /\ WriterIsCurrent /\ WriterCoversStale
  BY DEF Init, Idle, Apart, WriterIsCurrent, WriterCoversStale
<1> QED
  BY <1>1, InitSound DEF ApartInv

LEMMA ApartNext ==
  ASSUME Calm, ApartInv, [Next]_vars, Apart'
  PROVE  ApartInv'
<1> USE DEF ApartInv
<1>1. IInv'
  BY NextSound
<1>2. WriterIsCurrent'
  BY WriterStaysCurrent
<1>3. WriterCoversStale'
  <2>1. CASE UNCHANGED vars
    BY <2>1 DEF vars, WriterCoversStale, Fresh
  <2>2. CASE \/ ReadStatuses \/ BackfillEmbed \/ BackfillUpsert \/ BackfillDone
             \/ BackfillFails \/ Restart
    BY <2>2, StartLeavesNothingStale
  <2>3. CASE \E r \in Requests : Create(r) \/ Update(r)
    BY <2>3, WrittenIsCovered DEF Create, Update
  <2>4. CASE \E h \in Ids : Delete(h)
    BY <2>4, DeleteKeepsCover
  <2>5. CASE \E r \in Requests : Own(r) \/ Embed(r)
    BY <2>5, RefreshKeepsCover
  <2> QED
    BY <2>1, <2>2, <2>3, <2>4, <2>5 DEF Next, Calm
<1> QED
  BY <1>1, <1>2, <1>3

(* A step of ApartSpec that stutters keeps Apart, too. *)
LEMMA ApartStep ==
  ASSUME ApartInv, [Next /\ Apart']_vars
  PROVE  [Next]_vars /\ Apart'
<1>1. CASE UNCHANGED vars
  BY <1>1 DEF ApartInv, Apart, vars
<1> QED
  BY <1>1

(* The invariant of the behaviours in which no writes of a device overlap.  *)
THEOREM ApartInvariance == Calm /\ ApartSpec => []ApartInv
<1>1. CASE Calm
  <2>1. Init => ApartInv
    BY ApartInit
  <2>2. ApartInv /\ [Next /\ Apart']_vars => ApartInv'
    BY <1>1, ApartStep, ApartNext
  <2> QED
    BY <2>1, <2>2, PTL DEF ApartSpec
<1> QED
  BY <1>1

(* As long as the provider answers, the dimensions stay and no writes of    *)
(* the same device overlap, a device is searchable by its present text when *)
(* the response returns, whatever the other writers do and however often    *)
(* the process dies or its model changes.                                   *)
THEOREM WritersApartAreSearchable == Calm /\ ApartSpec => []AnsweredMeansSearchable
<1>1. ASSUME Calm, ApartInv PROVE AnsweredMeansSearchable
  <2> SUFFICES ASSUME Quiet, NEW h \in Ids
               PROVE  Searchable(h)
    BY DEF AnsweredMeansSearchable
  <2>1. Fresh(h)
    BY <1>1 DEF ApartInv, WriterCoversStale, Quiet
  <2>2. index[h] # None => index[h].dimensions = embedder.dimensions
    BY <1>1 DEF Calm, ApartInv, IInv, TypeOK, Embedding, Embedder
  <2> QED
    BY <2>1, <2>2 DEF Searchable, Fresh
<1>2. CASE Calm
  <2>1. ApartInv => AnsweredMeansSearchable
    BY <1>1, <1>2
  <2> QED
    BY <2>1, <1>2, ApartInvariance, PTL
<1> QED
  BY <1>2

-----------------------------------------------------------------------------
(* The catalogue implements SearchIndex. *)

LEMMA SameShape == Promise!Ids = Ids /\ Promise!Embedder = Embedder
BY DEF Promise!Ids, Ids, Promise!Embedder, Embedder

(* A fresh device is in step, as long as the dimensions stay. *)
LEMMA FreshIsInStep ==
  ASSUME Calm, IInv, NEW h \in Ids, Fresh(h)
  PROVE  Promise!InStep(h)
<1>1. CASE hardware[h] = None
  BY <1>1 DEF IInv, IndexedDevicesExist, Promise!InStep, Promise!Current
<1>2. CASE hardware[h] # None
  <2>1. /\ index[h] \in Embedding /\ embedder \in Embedder
        /\ index[h].model = embedder.model /\ index[h].text = hardware[h]
    BY <1>2 DEF Fresh, IInv, TypeOK
  <2>2. index[h].dimensions = embedder.dimensions
    BY <2>1 DEF Calm, Embedding, Embedder
  <2>3. index[h] = [model |-> embedder.model, dimensions |-> embedder.dimensions,
                    text |-> hardware[h]]
    BY <2>1, <2>2 DEF Embedding
  <2> QED
    BY <1>2, <2>3 DEF Promise!InStep, Promise!Current
<1> QED
  BY <1>1, <1>2

(* A vector of a device as it is, is the one that is promised. *)
LEMMA VectorIsCurrent ==
  ASSUME NEW d \in Device, hardware[d.id] = d.text, hardware[d.id] # None
  PROVE  EmbeddingOf(d) = Promise!Current(d.id)
BY DEF EmbeddingOf, Promise!Current

(* The start, and the restart. *)
LEMMA StartImplements ==
  ASSUME Calm, IInv,
         \/ ReadStatuses \/ BackfillEmbed \/ BackfillUpsert \/ BackfillDone
         \/ BackfillFails \/ Restart
  PROVE  [Promise!Next]_(Promise!vars)
<1>1. CASE ReadStatuses \/ BackfillEmbed
  <2>1. UNCHANGED <<hardware, index, embedder>> /\ phase # "serving" /\ phase' # "serving"
    BY <1>1 DEF ReadStatuses, BackfillEmbed
  <2> QED
    BY <2>1 DEF Promise!vars, Pending
<1>2. CASE BackfillUpsert
  <2>1. PICK d \in Device : d = vector
    BY <1>2 DEF BackfillUpsert, IInv, TypeOK
  <2>2. /\ phase = "backfill" /\ d \in todo /\ hardware[d.id] = d.text
        /\ index' = Stored(d) /\ UNCHANGED <<hardware, embedder, phase>>
    BY <1>2, <2>1 DEF BackfillUpsert, IInv, TodoCoversStale
  <2>3. d.id \in Ids /\ hardware[d.id] # None
    BY <2>2, NoneIsNoDevice DEF Device
  <2>4. index' = [index EXCEPT ![d.id] = Promise!Current(d.id)]
    BY <2>2, <2>3, VectorIsCurrent DEF Stored
  <2>5. Pending = Ids /\ Pending' = Ids
    BY <2>2 DEF Pending
  <2>6. Promise!Embed(d.id)
    BY <2>2, <2>3, <2>4, <2>5 DEF Promise!Embed
  <2> QED
    BY <2>3, <2>6, SameShape DEF Promise!Next
<1>3. CASE BackfillDone
  <2>1. /\ phase = "backfill" /\ todo = {} /\ phase' = "serving"
        /\ UNCHANGED <<hardware, index, embedder, req>>
    BY <1>3 DEF BackfillDone
  <2>2. \A h \in Ids : Promise!InStep(h)
    BY <2>1, FreshIsInStep DEF IInv, TodoCoversStale
  <2>3. Pending' = {}
    BY <2>1 DEF Pending, IInv, StartIsAlone
  <2>4. Promise!Serve
    BY <2>1, <2>2, <2>3, SameShape DEF Promise!Serve
  <2> QED
    BY <2>4 DEF Promise!Next
<1>4. CASE Restart
  <2>1. Pending' = Ids
    BY <1>4 DEF Restart, Pending
  <2>2. Promise!Restart
    BY <1>4, <2>1, SameShape DEF Restart, Promise!Restart
  <2> QED
    BY <2>2 DEF Promise!Next
<1> QED
  BY <1>1, <1>2, <1>3, <1>4 DEF Calm, BackfillFails

(* A write makes its device pending; nobody waited for it before.           *)
LEMMA WrittenImplements ==
  ASSUME IInv, NEW r \in Requests, NEW d \in Device, Written(r, d), Apart'
  PROVE  [Promise!Next]_(Promise!vars)
<1>1. /\ req[r].pc = "idle" /\ phase = "serving" /\ phase' = phase
      /\ UNCHANGED <<index, embedder>>
      /\ hardware' = [hardware EXCEPT ![d.id] = d.text]
      /\ req'[r].pc # "idle" /\ req'[r].device = d
      /\ \A q \in Requests : q # r => req'[q] = req[q]
  BY WrittenEffect
<1>2. d.id \in Ids /\ d.text \in Texts
  BY DEF Device
<1>3. ASSUME NEW q \in Requests, req[q].pc # "idle"
      PROVE  req[q].device.id # d.id
  BY <1>1, <1>3 DEF Apart
<1>4. d.id \notin Pending
  BY <1>1, <1>3 DEF Pending
<1>5. Pending' = Pending \cup {d.id}
  <2>1. Pending = {req[q].device.id : q \in {p \in Requests : req[p].pc # "idle"}}
    BY <1>1 DEF Pending
  <2>2. Pending' = {req'[q].device.id : q \in {p \in Requests : req'[p].pc # "idle"}}
    BY <1>1 DEF Pending
  <2>3. ASSUME NEW h PROVE h \in Pending' <=> h \in Pending \cup {d.id}
    BY <1>1, <2>1, <2>2
  <2> QED
    BY <2>3
<1>6. Promise!Write(d.id, d.text)
  BY <1>1, <1>4, <1>5 DEF Promise!Write
<1> QED
  BY <1>2, <1>6, SameShape DEF Promise!Next

LEMMA DeleteImplements ==
  ASSUME NEW h \in Ids, Delete(h)
  PROVE  [Promise!Next]_(Promise!vars)
<1>1. Pending' = Pending
  BY DEF Delete, Pending
<1>2. Promise!Remove(h)
  BY <1>1 DEF Delete, Promise!Remove
<1> QED
  BY <1>2, SameShape DEF Promise!Next

(* A request that ends has its device in step, and was the only one of it.  *)
LEMMA RefreshImplements ==
  ASSUME Calm, ApartInv, NEW r \in Requests, Own(r) \/ Embed(r)
  PROVE  [Promise!Next]_(Promise!vars)
<1> USE DEF ApartInv
<1>1. req[r].pc # "idle"
  BY DEF Own, Check, Embed, Upsert
<1>2. PICK d \in Device : d = req[r].device
  BY <1>1, WriterHasDevice
<1>3. /\ UNCHANGED <<hardware, embedder, phase>>
      /\ \A q \in Requests : q # r => req'[q] = req[q]
      /\ \/ index' = index /\ req'[r].pc # "idle" /\ req'[r].device = d
         \/ /\ req'[r].pc = "idle"
            /\ Fresh(d.id)'
            /\ \/ index' = index
               \/ /\ hardware[d.id] # None
                  /\ index' = [index EXCEPT ![d.id] = EmbeddingOf(d)]
  BY <1>2, RefreshEffect
<1>4. phase = "serving" /\ d.id \in Ids
  BY <1>1, <1>2, WriterHasDevice
<1>5. /\ Pending = {req[q].device.id : q \in {p \in Requests : req[p].pc # "idle"}}
      /\ Pending' = {req'[q].device.id : q \in {p \in Requests : req'[p].pc # "idle"}}
  BY <1>3, <1>4 DEF Pending
<1>6. d.id \in Pending
  BY <1>1, <1>2, <1>5
<1>7. CASE index' = index /\ req'[r].pc # "idle" /\ req'[r].device = d
  <2>1. ASSUME NEW h PROVE h \in Pending' <=> h \in Pending
    BY <1>1, <1>2, <1>3, <1>5, <1>7
  <2> QED
    BY <1>3, <1>7, <2>1 DEF Promise!vars
<1>8. CASE req'[r].pc = "idle" /\ Fresh(d.id)'
  <2>1. ASSUME NEW q \in Requests, req[q].pc # "idle", q # r
        PROVE  req[q].device.id # d.id
    BY <1>1, <1>2, <2>1 DEF Apart
  <2>2. ASSUME NEW h PROVE h \in Pending' <=> h \in Pending \ {d.id}
    BY <1>1, <1>2, <1>3, <1>5, <1>8, <2>1
  <2>3. Pending' = Pending \ {d.id}
    BY <2>2
  <2>4. CASE index' = index
    <3>1. Fresh(d.id)
      BY <1>3, <1>8, <2>4 DEF Fresh
    <3>2. Promise!Answer(d.id)
      BY <1>3, <1>4, <1>6, <2>3, <2>4, <3>1, FreshIsInStep DEF Promise!Answer
    <3> QED
      BY <1>4, <3>2, SameShape DEF Promise!Next
  <2>5. CASE hardware[d.id] # None /\ index' = [index EXCEPT ![d.id] = EmbeddingOf(d)]
    <3>1. hardware[d.id] = d.text
      BY <1>1, <1>2, <2>5 DEF WriterIsCurrent
    <3>2. index' = [index EXCEPT ![d.id] = Promise!Current(d.id)]
      BY <2>5, <3>1, VectorIsCurrent
    <3>3. Promise!Embed(d.id)
      BY <1>3, <1>6, <2>3, <2>5, <3>2 DEF Promise!Embed
    <3> QED
      BY <1>4, <3>3, SameShape DEF Promise!Next
  <2> QED
    BY <1>3, <1>8, <2>4, <2>5
<1> QED
  BY <1>3, <1>7, <1>8

LEMMA NextImplements ==
  ASSUME Calm, ApartInv, [Next]_vars, Apart'
  PROVE  [Promise!Next]_(Promise!vars)
<1>1. IInv
  BY DEF ApartInv
<1>2. CASE UNCHANGED vars
  BY <1>2 DEF vars, Promise!vars, Pending
<1>3. CASE \/ ReadStatuses \/ BackfillEmbed \/ BackfillUpsert \/ BackfillDone
           \/ BackfillFails \/ Restart
  BY <1>1, <1>3, StartImplements
<1>4. CASE \E r \in Requests : Create(r) \/ Update(r)
  BY <1>1, <1>4, WrittenImplements DEF Create, Update
<1>5. CASE \E h \in Ids : Delete(h)
  BY <1>5, DeleteImplements
<1>6. CASE \E r \in Requests : Own(r) \/ Embed(r)
  BY <1>6, RefreshImplements
<1> QED
  BY <1>2, <1>3, <1>4, <1>5, <1>6 DEF Next, Calm

(* The index, through writes, checks, slow answers of the provider, upserts *)
(* and backfills, does what SearchIndex promises.                           *)
THEOREM CatalogueImplementsIndex == Calm /\ ApartSpec => ImplementsSearchIndex
<1>1. CASE Calm
  <2>1. Init => Promise!Init
    BY SameShape DEF Init, Promise!Init, Pending
  <2>2. ApartInv /\ [Next /\ Apart']_vars => [Promise!Next]_(Promise!vars)
    BY <1>1, ApartStep, NextImplements
  <2> QED
    BY <2>1, <2>2, <1>1, ApartInvariance, PTL
       DEF ApartSpec, ImplementsSearchIndex, Promise!Spec
<1> QED
  BY <1>1
=============================================================================
