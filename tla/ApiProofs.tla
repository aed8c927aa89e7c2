----------------------------- MODULE ApiProofs -----------------------------
(***************************************************************************)
(* The server implements the inventory, for every size of the tables and   *)
(* every number of requests: whatever interleaves, fails or crashes, the   *)
(* connection comes back, answers are true, and every step is a step of    *)
(* Inventory or changes nothing it speaks of.                              *)
(***************************************************************************)
EXTENDS Api, SchemaProofs

-----------------------------------------------------------------------------
(* The inductive invariant. *)

(* What request q became when it was let in with a token of T. *)
Admitted(q, T) ==
  q.pc # "idle" =>
    /\ q.op \in Ops
    /\ q.target \in TargetsOf(q.op)
    /\ q.email \in EmailsOf(q.op)
    /\ q.role \in RolesOf(q.op)
    /\ q.op # "log_in" =>
         \E t \in T : t.id = q.user /\ (q.op \in AdminOps => t.role = "admin")
    /\ q.op = "remove_account" => q.target # q.user

(* The whole of q's operation makes w of d, and d allows it. *)
Done(q, d, w) ==
  /\ q.op = "rent" =>
       /\ Promise!CanRent(d, q.user, q.target)
       /\ \E n \in RentalIds :
            IsNewRowid(d.rentals, n) /\ w = Promise!Rented(d, n, q.target, q.user)
  /\ q.op = "return" =>
       Promise!CanReturn(d, q.user, q.target) /\ w = Promise!Returned(d, q.target)
  /\ q.op \in Marks =>
       Promise!CanMark(d, q.op, q.target) /\ w = SetStatus(d, q.target, MarkTo(q.op))
  /\ q.op = "add_device" =>
       \E n \in HardwareIds : IsNewRowid(d.hardware, n) /\ w = InsertHardware(d, n)
  /\ q.op = "update_device" => w = d
  /\ q.op = "remove_device" =>
       d.hardware[q.target] # None /\ w = DeleteHardwareRow(d, q.target)
  /\ q.op = "add_account" =>
       /\ ~EmailTaken(d, q.email)
       /\ \E n \in ProfileIds :
            /\ IsNewRowid(d.profiles, n)
            /\ w = InsertProfile(d, n, [email |-> q.email, role |-> q.role])
  /\ q.op = "remove_account" =>
       RemoveMatches(d, q.target) /\ w = DeleteProfileRow(d, q.target)

Writes == {"add_device", "update_device", "remove_device", "add_account", "remove_account"}

(* What q, at pc, has made of the committed database d so far. *)
Stage(pc, q, d, w) ==
  /\ pc = "select" => q.op \in Transactions
  /\ pc = "exec" => q.op \in Writes \cup Listings \cup {"log_in"}
  /\ pc = "update" =>
       /\ q.op \in Transactions
       /\ w = d
       /\ q.op = "return" => Promise!CanReturn(d, q.user, q.target)
       /\ q.op \in Marks => Promise!CanMark(d, q.op, q.target)
  /\ pc = "insert" =>
       /\ q.op = "rent"
       /\ ClaimMatches(d, q.target)
       /\ w = SetStatus(d, q.target, "in_use")
  /\ pc = "release" =>
       /\ q.op = "return"
       /\ Promise!CanReturn(d, q.user, q.target)
       /\ w = CloseRentalRow(d, q.target)
  /\ pc = "commit" => q.op \in Transactions /\ Done(q, d, w)
  /\ pc = "scan" => q.op \in Writes /\ Done(q, d, w)

(* Only a log-in that is about to be signed carries a token. *)
OnlySignersCarryTokens ==
  \A r \in Requests :
    /\ req[r].token # None <=> req[r].pc = "sign"
    /\ req[r].pc = "sign" => req[r].op = "log_in"

IInv ==
  /\ TypeOK
  /\ ConnectionIsReturned
  /\ Sound(db)
  /\ \A r \in Requests : Admitted(req[r], tokens)
  /\ \A r \in Requests : Stage(req[r].pc, req[r], db, work)
  /\ OnlySignersCarryTokens
  /\ AnswersAreTrue

(* A step keeps the invariant, is one of Inventory or none, and refuses     *)
(* only what it has not done.                                               *)
Good ==
  /\ IInv'
  /\ [Promise!Next]_(Promise!vars)
  /\ answer' # None /\ Status(answer'.kind) \in 400 .. 499 => db' = db

-----------------------------------------------------------------------------
(* The schema of Promise is the schema of the server. *)

LEMMA SameTables ==
  /\ Promise!HardwareIds = HardwareIds /\ Promise!ProfileIds = ProfileIds
  /\ Promise!RentalIds = RentalIds /\ Promise!Roles = Roles
BY DEF Promise!HardwareIds, HardwareIds, Promise!ProfileIds, ProfileIds,
       Promise!RentalIds, RentalIds, Promise!Roles, Roles

LEMMA SameConditions ==
  /\ \A table, n : Promise!IsNewRowid(table, n) <=> IsNewRowid(table, n)
  /\ \A d, k : Promise!IsOpen(d, k) <=> IsOpen(d, k)
  /\ \A d, h : Promise!ClaimMatches(d, h) <=> ClaimMatches(d, h)
  /\ \A d, e : Promise!EmailTaken(d, e) <=> EmailTaken(d, e)
  /\ \A d, p : Promise!RemoveMatches(d, p) <=> RemoveMatches(d, p)
  /\ \A op : Promise!MarkFrom(op) = MarkFrom(op) /\ Promise!MarkTo(op) = MarkTo(op)
BY DEF Promise!IsNewRowid, IsNewRowid, Promise!Rows, Rows, Promise!IsOpen, IsOpen,
       Promise!ClaimMatches, ClaimMatches, Promise!EmailTaken, EmailTaken,
       Promise!ProfileIds, ProfileIds, Promise!RemoveMatches, RemoveMatches,
       Promise!MarkFrom, MarkFrom, Promise!MarkTo, MarkTo

LEMMA SameWrites ==
  /\ \A d, h, s : Promise!SetStatus(d, h, s) = SetStatus(d, h, s)
  /\ \A d, h : Promise!InsertHardware(d, h) = InsertHardware(d, h)
  /\ \A d, h : Promise!DeleteHardwareRow(d, h) = DeleteHardwareRow(d, h)
  /\ \A d, k, h, u : Promise!InsertRental(d, k, h, u) = InsertRental(d, k, h, u)
  /\ \A d, k : Promise!CloseRentalRow(d, k) = CloseRentalRow(d, k)
  /\ \A d, p, profile : Promise!InsertProfile(d, p, profile) = InsertProfile(d, p, profile)
  /\ \A d, p : Promise!DeleteProfileRow(d, p) = DeleteProfileRow(d, p)
BY DEF Promise!SetStatus, SetStatus, Promise!InsertHardware, InsertHardware,
       Promise!DeleteHardwareRow, DeleteHardwareRow, Promise!InsertRental, InsertRental,
       Promise!CloseRentalRow, CloseRentalRow, Promise!InsertProfile, InsertProfile,
       Promise!DeleteProfileRow, DeleteProfileRow, Promise!RentalIds, RentalIds

-----------------------------------------------------------------------------
(* Requests after a step. *)

LEMMA AfterContinue ==
  ASSUME req \in [Requests -> Request], NEW r \in Requests,
         NEW pc \in Holding, req' = [req EXCEPT ![r].pc = pc]
  PROVE  /\ req' \in [Requests -> Request]
         /\ \A q \in Requests : q # r => req'[q] = req[q]
         /\ req'[r].pc = pc
         /\ req'[r].op = req[r].op /\ req'[r].user = req[r].user
         /\ req'[r].target = req[r].target /\ req'[r].email = req[r].email
         /\ req'[r].role = req[r].role /\ req'[r].token = req[r].token
BY DEF Request

LEMMA AfterFinish ==
  ASSUME req \in [Requests -> Request], NEW r \in Requests,
         req' = [req EXCEPT ![r] = Idle]
  PROVE  /\ req' \in [Requests -> Request]
         /\ \A q \in Requests : q # r => req'[q] = req[q]
         /\ req'[r].pc = "idle" /\ req'[r].token = None
BY DEF Request, Idle

(* What a request may have done depends on its fields only. *)
LEMMA StageCopies ==
  ASSUME NEW pc, NEW p, NEW q, NEW d, NEW w, Stage(pc, p, d, w),
         q.op = p.op, q.user = p.user, q.target = p.target, q.email = p.email,
         q.role = p.role
  PROVE  Stage(pc, q, d, w)
BY DEF Stage, Done

LEMMA AdmittedCopies ==
  ASSUME NEW p, NEW q, NEW T, NEW S, T \subseteq S, Admitted(p, T), p.pc # "idle",
         q.op = p.op, q.user = p.user, q.target = p.target, q.email = p.email,
         q.role = p.role
  PROVE  Admitted(q, S)
BY DEF Admitted

(* An answer is typed as its request is. *)
LEMMA AnswerIsTyped ==
  ASSUME NEW q \in Request, q.op \in Ops, NEW kind \in Kinds
  PROVE  AnswerTo(q, kind) \in Answer
BY DEF Request, AnswerTo, Answer

(* The tokens in circulation depend on those issued and carried. *)
LEMMA SameCirculating ==
  ASSUME tokens' = tokens, \A q \in Requests : req'[q].token = req[q].token
  PROVE  Circulating' = Circulating
BY DEF Circulating

-----------------------------------------------------------------------------
(* The ends of a step. *)

(* A request that holds the connection is the only one, so no other one has *)
(* anything to say about work.                                              *)
LEMMA HolderIsAlone ==
  ASSUME IInv, NEW r \in Requests, req[r].pc \in Holding, NEW q \in Requests, q # r
  PROVE  req[q].pc \notin Holding
BY DEF IInv, ConnectionIsReturned

LEMMA NotHolding ==
  ASSUME NEW q, NEW d, NEW w, q.pc \notin Holding
  PROVE  Stage(q.pc, q, d, w)
BY DEF Stage, Holding

LEMMA HolderCarriesNoToken ==
  ASSUME IInv, NEW r \in Requests, req[r].pc # "sign"
  PROVE  req[r].token = None
BY DEF IInv, OnlySignersCarryTokens

(* A request that is answered and over. *)
LEMMA FinishKeeps ==
  ASSUME IInv, NEW r \in Requests, req[r].pc # "idle", NEW kind \in Kinds,
         Finish(r, kind), tokens \subseteq tokens'
  PROVE  /\ req' \in [Requests -> Request]
         /\ answer' = AnswerTo(req[r], kind) /\ answer' \in Answer
         /\ \A q \in Requests : q # r => req'[q] = req[q]
         /\ req'[r].pc = "idle" /\ req'[r].token = None
         /\ \A q \in Requests : Admitted(req'[q], tokens')
         /\ OnlySignersCarryTokens'
<1>1. req' = [req EXCEPT ![r] = Idle] /\ answer' = AnswerTo(req[r], kind)
  BY DEF Finish
<1>2. req \in [Requests -> Request] /\ req[r].op \in Ops
  BY DEF IInv, TypeOK, Admitted
<1>3. /\ req' \in [Requests -> Request]
      /\ \A q \in Requests : q # r => req'[q] = req[q]
      /\ req'[r].pc = "idle" /\ req'[r].token = None
  BY <1>1, <1>2, AfterFinish
<1>4. answer' \in Answer
  BY <1>1, <1>2, AnswerIsTyped
<1>5. \A q \in Requests : Admitted(req'[q], tokens')
  BY <1>3 DEF IInv, Admitted
<1>6. OnlySignersCarryTokens'
  BY <1>3 DEF IInv, OnlySignersCarryTokens
<1> QED
  BY <1>1, <1>3, <1>4, <1>5, <1>6

(* The holder of the connection gives it back and is answered. *)
LEMMA EndKeeps ==
  ASSUME IInv, NEW r \in Requests, req[r].pc \in Holding, NEW kind \in Kinds,
         Finish(r, kind), conn' = None, work' = db', UNCHANGED tokens,
         Sound(db'), IsTrueOf(AnswerTo(req[r], kind), db')
  PROVE  IInv' /\ Circulating' = Circulating
<1>1. req[r].pc # "idle" /\ req[r].pc # "sign" /\ tokens \subseteq tokens'
  BY DEF Holding
<1>2. /\ req' \in [Requests -> Request]
      /\ answer' = AnswerTo(req[r], kind) /\ answer' \in Answer
      /\ \A q \in Requests : q # r => req'[q] = req[q]
      /\ req'[r].pc = "idle" /\ req'[r].token = None
      /\ \A q \in Requests : Admitted(req'[q], tokens')
      /\ OnlySignersCarryTokens'
  BY <1>1, FinishKeeps
<1>3. db' \in Database
  BY DEF Sound
<1>4. TypeOK'
  BY <1>2, <1>3 DEF IInv, TypeOK
<1>5. \A q \in Requests : req'[q].pc \notin Holding
  BY <1>2, HolderIsAlone DEF Holding
<1>6. ConnectionIsReturned'
  BY <1>5, NoneIsNoRequest DEF ConnectionIsReturned, Holding
<1>7. \A q \in Requests : Stage(req'[q].pc, req'[q], db', work')
  BY <1>5, NotHolding
<1>8. AnswersAreTrue'
  BY <1>2 DEF AnswersAreTrue
<1>9. IInv'
  BY <1>2, <1>4, <1>6, <1>7, <1>8 DEF IInv
<1> QED
  BY <1>1, <1>2, <1>9, SameCirculating, HolderCarriesNoToken

(* An early return. *)
LEMMA RollbackGood ==
  ASSUME IInv, NEW r \in Requests, req[r].pc \in Holding, NEW kind \in Kinds,
         Rollback(r, kind), IsTrueOf(AnswerTo(req[r], kind), db)
  PROVE  Good
<1>1. /\ Finish(r, kind) /\ conn' = None /\ db' = db /\ work' = db' /\ UNCHANGED tokens
  BY DEF Rollback
<1>2. Sound(db') /\ IsTrueOf(AnswerTo(req[r], kind), db')
  BY <1>1 DEF IInv
<1>3. IInv' /\ Circulating' = Circulating
  BY <1>1, <1>2, EndKeeps
<1> QED
  BY <1>1, <1>3 DEF Good, Promise!vars

(* A statement that went through. *)
LEMMA ProceedGood ==
  ASSUME IInv, NEW r \in Requests, req[r].pc \in Holding,
         NEW pc \in {"update", "insert", "release", "commit", "scan"},
         NEW effect \in Database, Proceed(r, effect, pc),
         Stage(pc, req[r], db, effect)
  PROVE  Good
<1>1. /\ req' = [req EXCEPT ![r].pc = pc] /\ answer' = None
      /\ work' = effect /\ UNCHANGED <<db, conn, tokens>>
  BY DEF Proceed, Continue
<1>2. /\ req \in [Requests -> Request] /\ pc \in Holding /\ conn = r
      /\ req[r].pc # "idle" /\ req[r].pc # "sign"
  BY DEF IInv, TypeOK, ConnectionIsReturned, Holding
<1>3. /\ req' \in [Requests -> Request]
      /\ \A q \in Requests : q # r => req'[q] = req[q]
      /\ req'[r].pc = pc
      /\ req'[r].op = req[r].op /\ req'[r].user = req[r].user
      /\ req'[r].target = req[r].target /\ req'[r].email = req[r].email
      /\ req'[r].role = req[r].role /\ req'[r].token = req[r].token
  BY <1>1, <1>2, AfterContinue
<1>4. TypeOK'
  BY <1>1, <1>3 DEF IInv, TypeOK
<1>5. \A q \in Requests : q # r => req'[q].pc \notin Holding
  BY <1>3, HolderIsAlone
<1>6. ConnectionIsReturned'
  BY <1>1, <1>2, <1>3, <1>5, NoneIsNoRequest DEF ConnectionIsReturned, Holding
<1>7. \A q \in Requests : Admitted(req'[q], tokens')
  <2>1. Admitted(req[r], tokens) /\ tokens \subseteq tokens'
    BY <1>1 DEF IInv
  <2>2. Admitted(req'[r], tokens')
    BY <1>2, <1>3, <2>1, AdmittedCopies
  <2> QED
    BY <1>1, <1>3, <2>2 DEF IInv
<1>8. \A q \in Requests : Stage(req'[q].pc, req'[q], db', work')
  <2>1. Stage(pc, req'[r], db, effect)
    BY <1>3, StageCopies
  <2>2. Stage(req'[r].pc, req'[r], db', work')
    BY <1>1, <1>3, <2>1
  <2> QED
    BY <1>5, <2>2, NotHolding
<1>9. OnlySignersCarryTokens'
  BY <1>2, <1>3 DEF IInv, OnlySignersCarryTokens, Holding
<1>10. IInv'
  BY <1>1, <1>4, <1>6, <1>7, <1>8, <1>9 DEF IInv, AnswersAreTrue
<1>11. Circulating' = Circulating
  BY <1>1, <1>3, SameCirculating
<1> QED
  BY <1>1, <1>10, <1>11 DEF Good, Promise!vars

-----------------------------------------------------------------------------
(* The end of an operation that is done. *)

(* The types of a request that runs op. *)
LEMMA FieldsAreTyped ==
  ASSUME IInv, NEW r \in Requests, req[r].pc # "idle"
  PROVE  /\ req[r].op \in Marks \cup {"rent", "remove_device"} =>
              req[r].target \in HardwareIds
         /\ req[r].op = "return" => req[r].target \in RentalIds
         /\ req[r].op = "remove_account" => req[r].target \in ProfileIds
         /\ req[r].op = "add_account" => req[r].email \in Emails /\ req[r].role \in Roles
         /\ req[r].op # "log_in" =>
              \E t \in Circulating : /\ t.id = req[r].user /\ t.id \in ProfileIds
                                     /\ req[r].op \in AdminOps => t.role = "admin"
<1>1. Admitted(req[r], tokens) /\ tokens \subseteq Promise!Token
  BY DEF IInv, TypeOK
<1>2. \A t \in tokens : t \in Circulating /\ t.id \in ProfileIds
  BY <1>1, SameTables DEF Circulating, Promise!Token
<1> QED
  BY <1>1, <1>2 DEF Admitted, TargetsOf, EmailsOf, RolesOf, Marks

(* What a done operation leaves is sound, and "ok" is true of it. *)
LEMMA DoneIsSound ==
  ASSUME IInv, NEW r \in Requests, req[r].pc # "idle",
         req[r].op \in Transactions \cup Writes, NEW w, Done(req[r], db, w)
  PROVE  Sound(w) /\ IsTrueOf(AnswerTo(req[r], "ok"), w)
<1> DEFINE q == req[r]
           a == AnswerTo(req[r], "ok")
<1>1. /\ Sound(db) /\ db \in Database
      /\ a.op = q.op /\ a.user = q.user /\ a.target = q.target /\ a.kind = "ok"
  BY DEF IInv, Sound, AnswerTo
<1>2. q.user \in ProfileIds \/ q.op = "log_in"
  BY FieldsAreTyped
<1>3. CASE q.op = "rent"
  <2>1. q.target \in HardwareIds /\ q.user \in ProfileIds
    BY <1>2, <1>3, FieldsAreTyped
  <2>2. PICK n \in RentalIds :
          /\ ClaimMatches(db, q.target) /\ IsNewRowid(db.rentals, n)
          /\ w = InsertRental(SetStatus(db, q.target, "in_use"), n, q.target, q.user)
    BY <1>3, SameConditions, SameWrites DEF Done, Promise!CanRent, Promise!Rented
  <2>3. /\ Sound(w) /\ w.hardware[q.target] = "in_use"
        /\ n \in OpenRentals(w, q.target) /\ w.rentals[n].user_id = q.user
    BY <1>1, <2>1, <2>2, RentingIsSound
  <2> QED
    BY <1>1, <1>3, <2>3 DEF IsTrueOf, Marks
<1>4. CASE q.op = "return"
  <2>1. q.target \in RentalIds /\ IsOpen(db, q.target)
    BY <1>4, FieldsAreTyped, SameConditions DEF Done, Promise!CanReturn
  <2>2. w = SetStatus(CloseRentalRow(db, q.target),
                      db.rentals[q.target].hardware_id, "available")
    BY <1>4, SameWrites DEF Done, Promise!Returned
  <2>3. Sound(w) /\ w.rentals[q.target] # None /\ ~IsOpen(w, q.target)
    BY <1>1, <2>1, <2>2, ReturningIsSound
  <2> QED
    BY <1>1, <1>4, <2>3 DEF IsTrueOf, Marks
<1>5. CASE q.op \in Marks
  <2>1. q.target \in HardwareIds /\ MarkTo(q.op) \in Statuses
    BY <1>5, FieldsAreTyped DEF MarkTo, Statuses
  <2>2. db.hardware[q.target] # "in_use" /\ w = SetStatus(db, q.target, MarkTo(q.op))
    BY <1>5, SameConditions DEF Done, Promise!CanMark, MarkFrom
  <2>3. Sound(w) /\ w.hardware[q.target] = MarkTo(q.op)
    BY <1>1, <2>1, <2>2, MarkingIsSound
  <2> QED
    BY <1>1, <1>5, <2>3 DEF IsTrueOf, Marks
<1>6. CASE q.op = "add_device"
  <2>1. PICK n \in HardwareIds : IsNewRowid(db.hardware, n) /\ w = InsertHardware(db, n)
    BY <1>6 DEF Done
  <2> QED
    BY <1>1, <1>6, <2>1, AddingADeviceIsSound DEF IsTrueOf, Marks
<1>7. CASE q.op = "update_device"
  BY <1>1, <1>7 DEF Done, IsTrueOf, Marks
<1>8. CASE q.op = "remove_device"
  BY <1>1, <1>8, FieldsAreTyped, RemovingADeviceIsSound DEF Done, IsTrueOf, Marks
<1>9. CASE q.op = "add_account"
  <2>1. [email |-> q.email, role |-> q.role] \in Profile
    BY <1>9, FieldsAreTyped DEF Profile
  <2>2. PICK n \in ProfileIds :
          w = InsertProfile(db, n, [email |-> q.email, role |-> q.role])
    BY <1>9 DEF Done
  <2>3. Sound(w)
    BY <1>1, <2>1, <2>2, AddingAnAccountIsSound
  <2> QED
    BY <1>1, <1>9, <2>3 DEF IsTrueOf, Marks
<1>10. CASE q.op = "remove_account"
  BY <1>1, <1>10, FieldsAreTyped, RemovingAnAccountIsSound DEF Done, IsTrueOf, Marks
<1> QED
  BY <1>3, <1>4, <1>5, <1>6, <1>7, <1>8, <1>9, <1>10 DEF Transactions, Writes

(* A done operation is one step of Inventory. *)
LEMMA DoneIsPromised ==
  ASSUME IInv, NEW r \in Requests, req[r].pc # "idle",
         req[r].op \in Transactions \cup Writes, Done(req[r], db, work),
         db' = work, Circulating' = Circulating
  PROVE  [Promise!Next]_(Promise!vars)
<1> DEFINE q == req[r]
<1>1. PICK t \in Circulating :
        /\ t.id = q.user
        /\ q.op \in AdminOps => t.role = "admin"
  BY FieldsAreTyped DEF Transactions, Writes, Marks
<1>2. Admitted(q, tokens)
  BY DEF IInv
<1>3. CASE q.op = "rent"
  <2>1. q.target \in HardwareIds
    BY <1>3, FieldsAreTyped
  <2>2. PICK n \in RentalIds :
          /\ Promise!CanRent(db, t.id, q.target) /\ IsNewRowid(db.rentals, n)
          /\ db' = Promise!Rented(db, n, q.target, t.id)
    BY <1>1, <1>3 DEF Done
  <2>3. Promise!Rent(t, q.target)
    BY <2>2, SameTables, SameConditions DEF Promise!Rent
  <2> QED
    BY <2>1, <2>3, SameTables DEF Promise!Next
<1>4. CASE q.op = "return"
  <2>1. q.target \in RentalIds
    BY <1>4, FieldsAreTyped
  <2>2. Promise!CanReturn(db, t.id, q.target) /\ db' = Promise!Returned(db, q.target)
    BY <1>1, <1>4 DEF Done
  <2>3. Promise!GiveBack(t, q.target)
    BY <2>2 DEF Promise!GiveBack
  <2> QED
    BY <2>1, <2>3, SameTables DEF Promise!Next
<1>5. CASE q.op \in Marks
  <2>1. q.target \in HardwareIds /\ t.role = "admin"
    BY <1>1, <1>5, FieldsAreTyped DEF AdminOps
  <2>2. /\ Promise!CanMark(db, q.op, q.target)
        /\ db' = SetStatus(db, q.target, MarkTo(q.op))
    BY <1>5 DEF Done
  <2>3. Promise!Mark(t, q.op, q.target)
    BY <2>1, <2>2, SameConditions, SameWrites DEF Promise!Mark, Promise!AdminRole
  <2> QED
    BY <1>5, <2>1, <2>3, SameTables DEF Promise!Next, Marks
<1>6. CASE q.op = "add_device"
  <2>1. t.role = "admin"
    BY <1>1, <1>6 DEF AdminOps
  <2>2. PICK n \in HardwareIds : IsNewRowid(db.hardware, n) /\ db' = InsertHardware(db, n)
    BY <1>6 DEF Done
  <2>3. Promise!AddDevice(t)
    BY <2>1, <2>2, SameTables, SameConditions, SameWrites
       DEF Promise!AddDevice, Promise!AdminRole
  <2> QED
    BY <2>3 DEF Promise!Next
<1>7. CASE q.op = "update_device"
  BY <1>7 DEF Done, Promise!vars
<1>8. CASE q.op = "remove_device"
  <2>1. q.target \in HardwareIds /\ t.role = "admin"
    BY <1>1, <1>8, FieldsAreTyped DEF AdminOps
  <2>2. db.hardware[q.target] # None /\ db' = DeleteHardwareRow(db, q.target)
    BY <1>8 DEF Done
  <2>3. Promise!RemoveDevice(t, q.target)
    BY <2>1, <2>2, SameWrites DEF Promise!RemoveDevice, Promise!AdminRole
  <2> QED
    BY <2>1, <2>3, SameTables DEF Promise!Next
<1>9. CASE q.op = "add_account"
  <2>1. q.email \in Emails /\ q.role \in Roles /\ t.role = "admin"
    BY <1>1, <1>9, FieldsAreTyped DEF AdminOps
  <2>2. PICK n \in ProfileIds :
          /\ ~EmailTaken(db, q.email) /\ IsNewRowid(db.profiles, n)
          /\ db' = InsertProfile(db, n, [email |-> q.email, role |-> q.role])
    BY <1>9 DEF Done
  <2>3. Promise!NewAccount(q.email, q.role)
    BY <2>2, SameTables, SameConditions, SameWrites DEF Promise!NewAccount
  <2>4. Promise!AddAccount(t, q.email, q.role)
    BY <2>1, <2>3 DEF Promise!AddAccount, Promise!AdminRole
  <2> QED
    BY <2>1, <2>4, SameTables DEF Promise!Next
<1>10. CASE q.op = "remove_account"
  <2>1. q.target \in ProfileIds /\ q.target # t.id /\ t.role = "admin"
    BY <1>1, <1>2, <1>10, FieldsAreTyped DEF Admitted, AdminOps
  <2>2. RemoveMatches(db, q.target) /\ db' = DeleteProfileRow(db, q.target)
    BY <1>10 DEF Done
  <2>3. Promise!RemoveAccount(t, q.target)
    BY <2>1, <2>2, SameConditions, SameWrites
       DEF Promise!RemoveAccount, Promise!CanRemoveAccount, Promise!AdminRole
  <2> QED
    BY <2>1, <2>3, SameTables DEF Promise!Next
<1> QED
  BY <1>3, <1>4, <1>5, <1>6, <1>7, <1>8, <1>9, <1>10 DEF Transactions, Writes

(* A commit, and the end of a write whose answer is given or lost. *)
LEMMA EndGood ==
  ASSUME IInv, NEW r \in Requests, req[r].pc \in {"commit", "scan"},
         NEW kind \in {"ok", "deadline"}, Finish(r, kind),
         db' = work, conn' = None, UNCHANGED <<work, tokens>>
  PROVE  Good
<1>1. /\ req[r].pc \in Holding /\ req[r].pc # "idle" /\ kind \in Kinds
      /\ work' = db' /\ UNCHANGED tokens
  BY DEF Holding, Kinds
<1>2. req[r].op \in Transactions \cup Writes /\ Done(req[r], db, work)
  BY DEF IInv, Stage
<1>3. Sound(work) /\ IsTrueOf(AnswerTo(req[r], "ok"), work)
  BY <1>1, <1>2, DoneIsSound
<1>4. IsTrueOf(AnswerTo(req[r], "deadline"), work)
  BY DEF IsTrueOf, AnswerTo
<1>5. Sound(db') /\ IsTrueOf(AnswerTo(req[r], kind), db')
  BY <1>3, <1>4
<1>6. IInv' /\ Circulating' = Circulating
  BY <1>1, <1>5, EndKeeps
<1>7. [Promise!Next]_(Promise!vars)
  BY <1>1, <1>2, <1>6, DoneIsPromised
<1>8. answer'.kind = kind
  BY DEF Finish, AnswerTo
<1> QED
  BY <1>6, <1>7, <1>8 DEF Good, Status

-----------------------------------------------------------------------------
(* The statements of the transactions. *)

(* Before its first write a request sees what is committed. *)
LEMMA HolderSeesCommitted ==
  ASSUME IInv, NEW r \in Requests, req[r].pc \in {"select", "update", "exec"}
  PROVE  work = db /\ db \in Database /\ Sound(db) /\ req[r].pc \in Holding
BY DEF IInv, ConnectionIsReturned, Stage, Sound, Holding

(* Nothing is claimed by an answer that neither grants nor refuses. *)
LEMMA FailuresAreTrue ==
  ASSUME NEW q, NEW d, NEW kind \in {"unauthorized", "constraint", "deadline", "failed"}
  PROVE  IsTrueOf(AnswerTo(q, kind), d)
BY DEF IsTrueOf, AnswerTo

LEMMA SelectDeviceGood ==
  ASSUME IInv, NEW r \in Requests, SelectDevice(r)
  PROVE  Good
<1> DEFINE q == req[r]
           status == db.hardware[q.target]
<1>1. q.pc = "select" /\ q.op \in Marks \cup {"rent"}
  BY DEF SelectDevice, At
<1>2. work = db /\ db \in Database /\ q.pc \in Holding
  BY <1>1, HolderSeesCommitted
<1>3. CASE status = None
  <2>1. Rollback(r, "not_found")
    BY <1>1, <1>2, <1>3 DEF SelectDevice
  <2>2. ~ClaimMatches(db, q.target) /\ ~Promise!CanMark(db, q.op, q.target)
    BY <1>3, NoneIsNoRow, SameConditions
       DEF ClaimMatches, Promise!CanMark, MarkFrom, Statuses
  <2>3. IsTrueOf(AnswerTo(q, "not_found"), db)
    BY <1>1, <2>2 DEF IsTrueOf, AnswerTo, Marks
  <2> QED
    BY <1>2, <2>1, <2>3, RollbackGood DEF Kinds
<1>4. CASE status # None /\ q.op # "rent" /\ status # MarkFrom(q.op)
  <2>1. Rollback(r, "conflict")
    BY <1>1, <1>2, <1>4 DEF SelectDevice
  <2>2. IsTrueOf(AnswerTo(q, "conflict"), db)
    BY <1>1, <1>4, SameConditions DEF IsTrueOf, AnswerTo, Marks, Promise!CanMark
  <2> QED
    BY <1>2, <2>1, <2>2, RollbackGood DEF Kinds
<1>5. CASE status # None /\ (q.op = "rent" \/ status = MarkFrom(q.op))
  <2>1. Proceed(r, work, "update")
    BY <1>1, <1>2, <1>5 DEF SelectDevice
  <2>2. Stage("update", q, db, work)
    BY <1>1, <1>2, <1>5, SameConditions
       DEF Stage, Transactions, Marks, Promise!CanMark
  <2> QED
    BY <1>2, <2>1, <2>2, ProceedGood
<1> QED
  BY <1>3, <1>4, <1>5

LEMMA SelectRentalGood ==
  ASSUME IInv, NEW r \in Requests, SelectRental(r)
  PROVE  Good
<1> DEFINE q == req[r]
           rental == db.rentals[q.target]
<1>1. q.pc = "select" /\ q.op = "return"
  BY DEF SelectRental, At
<1>2. work = db /\ db \in Database /\ q.pc \in Holding
  BY <1>1, HolderSeesCommitted
<1>3. CASE rental = None \/ rental.user_id # q.user \/ rental.returned
  <2>1. \E kind \in {"not_found", "forbidden", "conflict"} : Rollback(r, kind)
    BY <1>1, <1>2, <1>3 DEF SelectRental
  <2>2. PICK kind \in {"not_found", "forbidden", "conflict"} : Rollback(r, kind)
    BY <2>1
  <2>3. ~Promise!CanReturn(db, q.user, q.target)
    BY <1>3, SameConditions DEF Promise!CanReturn, IsOpen
  <2>4. IsTrueOf(AnswerTo(q, kind), db)
    BY <1>1, <2>3 DEF IsTrueOf, AnswerTo, Marks
  <2> QED
    BY <1>2, <2>2, <2>4, RollbackGood DEF Kinds
<1>4. CASE rental # None /\ rental.user_id = q.user /\ ~rental.returned
  <2>1. Proceed(r, work, "update")
    BY <1>1, <1>2, <1>4 DEF SelectRental
  <2>2. Stage("update", q, db, work)
    BY <1>1, <1>2, <1>4, SameConditions
       DEF Stage, Transactions, Marks, Promise!CanReturn, IsOpen
  <2> QED
    BY <1>2, <2>1, <2>2, ProceedGood
<1> QED
  BY <1>3, <1>4

LEMMA ClaimGood ==
  ASSUME IInv, NEW r \in Requests, Claim(r)
  PROVE  Good
<1> DEFINE q == req[r]
<1>1. q.pc = "update" /\ q.op = "rent"
  BY DEF Claim, At
<1>2. work = db /\ db \in Database /\ q.pc \in Holding /\ q.target \in HardwareIds
  BY <1>1, HolderSeesCommitted, FieldsAreTyped
<1>3. CASE ClaimMatches(db, q.target)
  <2>1. Proceed(r, SetStatus(db, q.target, "in_use"), "insert")
    BY <1>2, <1>3 DEF Claim
  <2>2. SetStatus(db, q.target, "in_use") \in Database
    BY <1>2, SetStatusEffect DEF Statuses
  <2>3. Stage("insert", q, db, SetStatus(db, q.target, "in_use"))
    BY <1>1, <1>3 DEF Stage
  <2> QED
    BY <1>2, <2>1, <2>2, <2>3, ProceedGood
<1>4. CASE ~ClaimMatches(db, q.target)
  <2>1. Rollback(r, "conflict")
    BY <1>2, <1>4 DEF Claim
  <2>2. IsTrueOf(AnswerTo(q, "conflict"), db)
    BY <1>1, <1>4 DEF IsTrueOf, AnswerTo, Marks
  <2> QED
    BY <1>2, <2>1, <2>2, RollbackGood DEF Kinds
<1> QED
  BY <1>3, <1>4

LEMMA InsertRentalRowGood ==
  ASSUME IInv, NEW r \in Requests, InsertRentalRow(r)
  PROVE  Good
<1> DEFINE q == req[r]
<1>1. q.pc = "insert" /\ q.op = "rent" /\ q.pc \in Holding
  BY DEF InsertRentalRow, At, Holding
<1>2. /\ ClaimMatches(db, q.target)
      /\ work = SetStatus(db, q.target, "in_use")
      /\ db \in Database
  BY <1>1 DEF IInv, TypeOK, Stage
<1>3. q.target \in HardwareIds /\ q.user \in ProfileIds
  BY <1>1, FieldsAreTyped
<1>4. /\ work \in Database
      /\ work.profiles = db.profiles /\ work.rentals = db.rentals
  BY <1>2, <1>3, SetStatusEffect DEF Statuses
<1>5. CASE Rollback(r, "constraint")
  BY <1>1, <1>5, FailuresAreTrue, RollbackGood DEF Kinds
<1>6. CASE /\ ~RentalViolatesForeignKey(work, q.target, q.user)
           /\ \E k \in RentalIds :
                /\ IsNewRowid(work.rentals, k)
                /\ Proceed(r, InsertRental(work, k, q.target, q.user), "commit")
  <2>1. PICK k \in RentalIds :
          /\ IsNewRowid(work.rentals, k)
          /\ Proceed(r, InsertRental(work, k, q.target, q.user), "commit")
    BY <1>6
  <2>2. InsertRental(work, k, q.target, q.user) \in Database
    BY <1>3, <1>4, InsertRentalEffect
  <2>3. Promise!CanRent(db, q.user, q.target)
    BY <1>2, <1>4, <1>6, SameConditions
       DEF RentalViolatesForeignKey, Promise!CanRent, Promise!Live
  <2>4. InsertRental(work, k, q.target, q.user) =
          Promise!Rented(db, k, q.target, q.user)
    BY <1>2, SameWrites DEF Promise!Rented
  <2>5. Stage("commit", q, db, InsertRental(work, k, q.target, q.user))
    BY <1>1, <1>4, <2>1, <2>3, <2>4 DEF Stage, Done, Transactions, Marks
  <2> QED
    BY <1>1, <2>1, <2>2, <2>5, ProceedGood
<1> QED
  BY <1>5, <1>6 DEF InsertRentalRow

LEMMA MarkDeviceGood ==
  ASSUME IInv, NEW r \in Requests, MarkDevice(r)
  PROVE  Good
<1> DEFINE q == req[r]
           w == SetStatus(db, q.target, MarkTo(q.op))
<1>1. q.pc = "update" /\ q.op \in Marks
  BY DEF MarkDevice, At
<1>2. work = db /\ db \in Database /\ q.pc \in Holding /\ q.target \in HardwareIds
  BY <1>1, HolderSeesCommitted, FieldsAreTyped
<1>3. Promise!CanMark(db, q.op, q.target) /\ db.hardware[q.target] = MarkFrom(q.op)
  BY <1>1, SameConditions DEF IInv, Stage, Promise!CanMark
<1>4. Proceed(r, w, "commit")
  BY <1>2, <1>3 DEF MarkDevice
<1>5. w \in Database
  BY <1>2, SetStatusEffect DEF MarkTo, Statuses
<1>6. Stage("commit", q, db, w)
  BY <1>1, <1>3 DEF Stage, Done, Transactions, Marks
<1> QED
  BY <1>2, <1>4, <1>5, <1>6, ProceedGood

LEMMA CloseRentalGood ==
  ASSUME IInv, NEW r \in Requests, CloseRental(r)
  PROVE  Good
<1> DEFINE q == req[r]
           w == CloseRentalRow(db, q.target)
<1>1. q.pc = "update" /\ q.op = "return"
  BY DEF CloseRental, At
<1>2. work = db /\ db \in Database /\ q.pc \in Holding /\ q.target \in RentalIds
  BY <1>1, HolderSeesCommitted, FieldsAreTyped
<1>3. Promise!CanReturn(db, q.user, q.target) /\ IsOpen(db, q.target)
  BY <1>1, SameConditions DEF IInv, Stage, Promise!CanReturn
<1>4. Proceed(r, w, "release")
  BY <1>2, <1>3 DEF CloseRental
<1>5. w \in Database
  BY <1>2, <1>3, CloseRentalRowEffect DEF IsOpen
<1>6. Stage("release", q, db, w)
  BY <1>1, <1>3 DEF Stage
<1> QED
  BY <1>2, <1>4, <1>5, <1>6, ProceedGood

(* The device of the rental that is being returned is still in use. *)
LEMMA ReleaseFindsItsDevice ==
  ASSUME IInv, NEW r \in Requests, At(r, "release", {"return"})
  PROVE  LET h == work.rentals[req[r].target].hardware_id IN
         /\ h = db.rentals[req[r].target].hardware_id
         /\ h \in HardwareIds
         /\ ReleaseMatches(work, h)
<1> DEFINE k == req[r].target
<1>1. /\ db \in Database /\ Sound(db) /\ k \in RentalIds
      /\ work = CloseRentalRow(db, k) /\ IsOpen(db, k)
  BY FieldsAreTyped, SameConditions
     DEF At, IInv, TypeOK, Stage, Promise!CanReturn
<1>2. db.rentals[k] # None /\ db.rentals[k] \in Rental
  BY <1>1 DEF IsOpen, Database
<1>3. /\ work.hardware = db.hardware
      /\ work.rentals = [db.rentals EXCEPT ![k] =
           [hardware_id |-> db.rentals[k].hardware_id,
            user_id |-> db.rentals[k].user_id, returned |-> TRUE]]
  BY <1>1, <1>2, CloseRentalRowEffect
<1>4. work.rentals[k].hardware_id = db.rentals[k].hardware_id
  BY <1>1, <1>3 DEF Database
<1>5. db.hardware[db.rentals[k].hardware_id] = "in_use"
  BY <1>1 DEF Sound
<1> QED
  BY <1>2, <1>3, <1>4, <1>5 DEF ReleaseMatches, Rental

LEMMA ReleaseDeviceGood ==
  ASSUME IInv, NEW r \in Requests, ReleaseDevice(r)
  PROVE  Good
<1> DEFINE q == req[r]
           h == work.rentals[q.target].hardware_id
           w == SetStatus(work, h, "available")
<1>1. At(r, "release", {"return"}) /\ q.pc = "release" /\ q.op = "return"
  BY DEF ReleaseDevice, At
<1>2. /\ h = db.rentals[q.target].hardware_id
      /\ h \in HardwareIds /\ ReleaseMatches(work, h)
  BY <1>1, ReleaseFindsItsDevice
<1>3. Proceed(r, w, "commit")
  BY <1>2 DEF ReleaseDevice
<1>4. work \in Database /\ q.pc \in Holding
  BY <1>1 DEF IInv, TypeOK, Holding
<1>5. w \in Database
  BY <1>2, <1>4, SetStatusEffect DEF Statuses
<1>6. Promise!CanReturn(db, q.user, q.target) /\ work = CloseRentalRow(db, q.target)
  BY <1>1 DEF IInv, Stage
<1>7. w = Promise!Returned(db, q.target)
  BY <1>2, <1>6, SameWrites DEF Promise!Returned
<1>8. Stage("commit", q, db, w)
  BY <1>1, <1>6, <1>7 DEF Stage, Done, Transactions, Marks
<1> QED
  BY <1>3, <1>4, <1>5, <1>8, ProceedGood

-----------------------------------------------------------------------------
(* The operations of one statement. *)

LEMMA InsertDeviceGood ==
  ASSUME IInv, NEW r \in Requests, InsertDevice(r)
  PROVE  Good
<1> DEFINE q == req[r]
<1>1. q.pc = "exec" /\ q.op = "add_device"
  BY DEF InsertDevice, At
<1>2. work = db /\ db \in Database /\ q.pc \in Holding
  BY <1>1, HolderSeesCommitted
<1>3. PICK h \in HardwareIds :
        IsNewRowid(db.hardware, h) /\ Proceed(r, InsertHardware(db, h), "scan")
  BY <1>2 DEF InsertDevice
<1>4. InsertHardware(db, h) \in Database
  BY <1>2, SetStatusEffect DEF InsertHardware, SetStatus, Statuses
<1>5. Stage("scan", q, db, InsertHardware(db, h))
  BY <1>1, <1>3 DEF Stage, Done, Writes, Marks
<1> QED
  BY <1>2, <1>3, <1>4, <1>5, ProceedGood

LEMMA UpdateDeviceGood ==
  ASSUME IInv, NEW r \in Requests, UpdateDevice(r)
  PROVE  Good
<1> DEFINE q == req[r]
<1>1. q.pc = "exec" /\ q.op = "update_device"
  BY DEF UpdateDevice, At
<1>2. work = db /\ db \in Database /\ q.pc \in Holding
  BY <1>1, HolderSeesCommitted
<1>3. CASE Proceed(r, work, "scan")
  <2>1. Stage("scan", q, db, work)
    BY <1>1, <1>2 DEF Stage, Done, Writes, Marks
  <2> QED
    BY <1>2, <1>3, <2>1, ProceedGood
<1>4. CASE Rollback(r, "not_found")
  <2>1. IsTrueOf(AnswerTo(q, "not_found"), db)
    BY <1>1 DEF IsTrueOf, AnswerTo, Marks
  <2> QED
    BY <1>2, <1>4, <2>1, RollbackGood DEF Kinds
<1> QED
  BY <1>3, <1>4 DEF UpdateDevice

LEMMA DeleteDeviceGood ==
  ASSUME IInv, NEW r \in Requests, DeleteDevice(r)
  PROVE  Good
<1> DEFINE q == req[r]
           w == DeleteHardwareRow(db, q.target)
<1>1. q.pc = "exec" /\ q.op = "remove_device"
  BY DEF DeleteDevice, At
<1>2. work = db /\ db \in Database /\ q.pc \in Holding /\ q.target \in HardwareIds
  BY <1>1, HolderSeesCommitted, FieldsAreTyped
<1>3. CASE db.hardware[q.target] # None
  <2>1. Proceed(r, w, "scan")
    BY <1>2, <1>3 DEF DeleteDevice
  <2>2. w \in Database
    BY <1>2, DeleteHardwareRowEffect
  <2>3. Stage("scan", q, db, w)
    BY <1>1, <1>3 DEF Stage, Done, Writes, Marks
  <2> QED
    BY <1>2, <2>1, <2>2, <2>3, ProceedGood
<1>4. CASE db.hardware[q.target] = None
  <2>1. Rollback(r, "not_found")
    BY <1>2, <1>4 DEF DeleteDevice
  <2>2. IsTrueOf(AnswerTo(q, "not_found"), db)
    BY <1>1, <1>4 DEF IsTrueOf, AnswerTo, Marks
  <2> QED
    BY <1>2, <2>1, <2>2, RollbackGood DEF Kinds
<1> QED
  BY <1>3, <1>4

LEMMA InsertAccountGood ==
  ASSUME IInv, NEW r \in Requests, InsertAccount(r)
  PROVE  Good
<1> DEFINE q == req[r]
           profile == [email |-> q.email, role |-> q.role]
<1>1. q.pc = "exec" /\ q.op = "add_account"
  BY DEF InsertAccount, At
<1>2. /\ work = db /\ db \in Database /\ q.pc \in Holding
      /\ q.email \in Emails /\ q.role \in Roles
  BY <1>1, HolderSeesCommitted, FieldsAreTyped
<1>3. CASE EmailTaken(db, q.email)
  <2>1. Rollback(r, "conflict")
    BY <1>2, <1>3 DEF InsertAccount
  <2>2. IsTrueOf(AnswerTo(q, "conflict"), db)
    BY <1>1 DEF IsTrueOf, AnswerTo, Marks
  <2> QED
    BY <1>2, <2>1, <2>2, RollbackGood DEF Kinds
<1>4. CASE ~EmailTaken(db, q.email)
  <2>1. PICK p \in ProfileIds :
          /\ IsNewRowid(db.profiles, p)
          /\ Proceed(r, InsertProfile(db, p, profile), "scan")
    BY <1>2, <1>4 DEF InsertAccount
  <2>2. profile \in Profile
    BY <1>2 DEF Profile
  <2>3. InsertProfile(db, p, profile) \in Database
    BY <1>2, <2>2, InsertProfileEffect
  <2>4. Stage("scan", q, db, InsertProfile(db, p, profile))
    BY <1>1, <1>4, <2>1 DEF Stage, Done, Writes, Marks
  <2> QED
    BY <1>2, <2>1, <2>3, <2>4, ProceedGood
<1> QED
  BY <1>3, <1>4

LEMMA DeleteAccountGood ==
  ASSUME IInv, NEW r \in Requests, DeleteAccount(r)
  PROVE  Good
<1> DEFINE q == req[r]
           w == DeleteProfileRow(db, q.target)
<1>1. q.pc = "exec" /\ q.op = "remove_account"
  BY DEF DeleteAccount, At
<1>2. work = db /\ db \in Database /\ q.pc \in Holding /\ q.target \in ProfileIds
  BY <1>1, HolderSeesCommitted, FieldsAreTyped
<1>3. CASE RemoveMatches(db, q.target)
  <2>1. Proceed(r, w, "scan")
    BY <1>2, <1>3 DEF DeleteAccount
  <2>2. w \in Database
    BY <1>2, DeleteProfileRowEffect
  <2>3. Stage("scan", q, db, w)
    BY <1>1, <1>3 DEF Stage, Done, Writes, Marks
  <2> QED
    BY <1>2, <2>1, <2>2, <2>3, ProceedGood
<1>4. CASE ~RemoveMatches(db, q.target)
  <2>1. Rollback(r, "not_found")
    BY <1>2, <1>4 DEF DeleteAccount
  <2>2. IsTrueOf(AnswerTo(q, "not_found"), db)
    BY <1>1, <1>4, SameConditions
       DEF IsTrueOf, AnswerTo, Marks, Promise!CanRemoveAccount
  <2> QED
    BY <1>2, <2>1, <2>2, RollbackGood DEF Kinds
<1> QED
  BY <1>3, <1>4

LEMMA GetAllGood ==
  ASSUME IInv, NEW r \in Requests, GetAll(r)
  PROVE  Good
<1>1. /\ req[r].pc = "exec" /\ req[r].op \in Listings /\ Rollback(r, "ok")
  BY DEF GetAll, At
<1>2. req[r].pc \in Holding /\ IsTrueOf(AnswerTo(req[r], "ok"), db)
  BY <1>1 DEF Holding, IsTrueOf, AnswerTo, Marks, Listings
<1> QED
  BY <1>1, <1>2, RollbackGood DEF Kinds

(* The row a log-in has read is in circulation as a token. *)
LEMMA FindCredentialsGood ==
  ASSUME IInv, NEW r \in Requests, FindCredentials(r)
  PROVE  Good
<1> DEFINE q == req[r]
<1>1. q.pc = "exec" /\ q.op = "log_in"
  BY DEF FindCredentials, At
<1>2. /\ work = db /\ db \in Database /\ q.pc \in Holding
      /\ req \in [Requests -> Request] /\ q.token = None
  BY <1>1, HolderSeesCommitted, HolderCarriesNoToken DEF IInv, TypeOK
<1>3. CASE Rollback(r, "unauthorized")
  BY <1>2, <1>3, FailuresAreTrue, RollbackGood DEF Kinds
<1>4. ASSUME NEW p \in ProfileIds, Promise!Live(db, p),
             req' = [req EXCEPT ![r].pc = "sign", ![r].token = Promise!TokenOf(db, p)],
             answer' = None, conn' = None, UNCHANGED <<db, work, tokens>>
      PROVE  Good
  <2> DEFINE token == Promise!TokenOf(db, p)
  <2>1. db.profiles[p] \in Profile
    BY <1>2, <1>4 DEF Promise!Live, Database
  <2>2. token \in Promise!Token
    BY <2>1, SameTables DEF Profile, Promise!TokenOf, Promise!Token
  <2>3. token # None
    BY <2>2, NoneIsNoRequest
  <2> HIDE DEF token
  <2>4. /\ req' \in [Requests -> Request]
        /\ \A o \in Requests : o # r => req'[o] = req[o]
        /\ req'[r].pc = "sign" /\ req'[r].token = token
        /\ req'[r].op = q.op /\ req'[r].user = q.user /\ req'[r].target = q.target
        /\ req'[r].email = q.email /\ req'[r].role = q.role
    <3>1. req' = [req EXCEPT ![r].pc = "sign", ![r].token = token]
      BY <1>4 DEF token
    <3> DEFINE row == [q EXCEPT !.pc = "sign", !.token = token]
    <3>2. /\ row \in Request /\ row.pc = "sign" /\ row.token = token
          /\ row.op = q.op /\ row.user = q.user /\ row.target = q.target
          /\ row.email = q.email /\ row.role = q.role
      BY <1>2, <2>2 DEF Request
    <3>3. req' = [req EXCEPT ![r] = row]
      BY <1>2, <3>1
    <3> HIDE DEF row
    <3> QED
      BY <1>2, <3>2, <3>3
  <2>5. TypeOK'
    BY <1>4, <2>4 DEF IInv, TypeOK
  <2>6. \A o \in Requests : req'[o].pc \notin Holding
    BY <2>4, <1>2, HolderIsAlone DEF Holding
  <2>7. ConnectionIsReturned'
    BY <1>2, <1>4, <2>6, NoneIsNoRequest DEF ConnectionIsReturned, Holding
  <2>8. \A o \in Requests : Admitted(req'[o], tokens')
    <3>1. Admitted(q, tokens) /\ q.pc # "idle" /\ tokens \subseteq tokens'
      BY <1>1, <1>4 DEF IInv
    <3>2. Admitted(req'[r], tokens')
      BY <2>4, <3>1, AdmittedCopies
    <3> QED
      BY <1>4, <2>4, <3>2 DEF IInv
  <2>9. \A o \in Requests : Stage(req'[o].pc, req'[o], db', work')
    BY <2>6, NotHolding
  <2>10. OnlySignersCarryTokens'
    BY <1>1, <2>3, <2>4 DEF IInv, OnlySignersCarryTokens
  <2>11. IInv'
    BY <1>4, <2>5, <2>7, <2>8, <2>9, <2>10 DEF IInv, AnswersAreTrue
  <2>12. Circulating' = Circulating \cup {token}
    <3>1. \A o \in Requests : o # r => req'[o].token = req[o].token
      BY <2>4
    <3> QED
      BY <1>2, <1>4, <2>3, <2>4, <3>1 DEF Circulating
  <2>13. Promise!LogIn(p)
    BY <1>4, <2>12 DEF Promise!LogIn, token
  <2>14. Promise!Next
    BY <2>13, SameTables DEF Promise!Next
  <2> QED
    BY <1>4, <2>11, <2>14 DEF Good
<1> QED
  <2>1. Rollback(r, "unauthorized") \/
          \E p \in ProfileIds :
            /\ Promise!Live(db, p)
            /\ req' = [req EXCEPT ![r].pc = "sign", ![r].token = Promise!TokenOf(db, p)]
            /\ answer' = None /\ conn' = None /\ UNCHANGED <<db, work, tokens>>
    BY <1>2 DEF FindCredentials
  <2> QED
    BY <1>3, <1>4, <2>1

(* Signing puts nothing into circulation that was not. *)
LEMMA SignGood ==
  ASSUME IInv, NEW r \in Requests, Sign(r)
  PROVE  Good
<1> DEFINE q == req[r]
<1>1. /\ q.pc = "sign" /\ q.pc # "idle" /\ Finish(r, "ok")
      /\ tokens' = tokens \cup {q.token} /\ UNCHANGED <<db, work, conn>>
      /\ tokens \subseteq tokens' /\ "ok" \in Kinds
  BY DEF Sign, Kinds
<1>2. q.token # None /\ q.op = "log_in" /\ q \in Request
  BY <1>1 DEF IInv, TypeOK, OnlySignersCarryTokens
<1>3. /\ req' \in [Requests -> Request]
      /\ answer' = AnswerTo(req[r], "ok") /\ answer' \in Answer
      /\ \A o \in Requests : o # r => req'[o] = req[o]
      /\ req'[r].pc = "idle" /\ req'[r].token = None
      /\ \A o \in Requests : Admitted(req'[o], tokens')
      /\ OnlySignersCarryTokens'
  BY <1>1, FinishKeeps
<1>4. q.token \in Promise!Token
  BY <1>2 DEF Request
<1>5. TypeOK'
  BY <1>1, <1>3, <1>4 DEF IInv, TypeOK
<1>6. ConnectionIsReturned'
  BY <1>1, <1>3 DEF IInv, ConnectionIsReturned, Holding
<1>7. \A o \in Requests : Stage(req'[o].pc, req'[o], db', work')
  <2>1. Stage(req'[r].pc, req'[r], db', work')
    BY <1>3, NotHolding DEF Holding
  <2> QED
    BY <1>1, <1>3, <2>1 DEF IInv
<1>8. AnswersAreTrue'
  BY <1>2, <1>3 DEF AnswersAreTrue, IsTrueOf, AnswerTo, Marks
<1>9. IInv'
  BY <1>1, <1>3, <1>5, <1>6, <1>7, <1>8 DEF IInv
<1>10. Circulating' = Circulating
  <2>1. \A o \in Requests : o # r => req'[o].token = req[o].token
    BY <1>3
  <2> QED
    BY <1>1, <1>2, <1>3, <2>1 DEF Circulating
<1> QED
  BY <1>1, <1>9, <1>10 DEF Good, Promise!vars

-----------------------------------------------------------------------------
(* Arrival, the pool, and what goes wrong. *)

(* A request that was let in and waits. *)
LEMMA WaitingGood ==
  ASSUME IInv, NEW r \in Requests, req[r].pc = "idle", NEW q \in Request,
         q.pc = "waiting", q.token = None, Admitted(q, tokens),
         req' = [req EXCEPT ![r] = q], answer' = None,
         UNCHANGED <<db, work, conn, tokens>>
  PROVE  Good
<1>1. /\ req' \in [Requests -> Request] /\ req'[r] = q
      /\ \A o \in Requests : o # r => req'[o] = req[o]
      /\ req[r].token = None
  BY HolderCarriesNoToken DEF IInv, TypeOK
<1>2. TypeOK'
  BY <1>1 DEF IInv, TypeOK
<1>3. ConnectionIsReturned'
  BY <1>1 DEF IInv, ConnectionIsReturned, Holding
<1>4. \A o \in Requests : Admitted(req'[o], tokens')
  BY <1>1 DEF IInv
<1>5. \A o \in Requests : Stage(req'[o].pc, req'[o], db', work')
  <2>1. Stage(q.pc, q, db, work)
    BY NotHolding DEF Holding
  <2> QED
    BY <1>1, <2>1 DEF IInv
<1>6. OnlySignersCarryTokens'
  BY <1>1 DEF IInv, OnlySignersCarryTokens
<1>7. IInv'
  BY <1>2, <1>3, <1>4, <1>5, <1>6 DEF IInv, AnswersAreTrue
<1>8. Circulating' = Circulating
  BY <1>1, SameCirculating
<1> QED
  BY <1>7, <1>8 DEF Good, Promise!vars

(* What clients ask for has the fields of its operation. *)
LEMMA FieldsOfOps ==
  ASSUME NEW op \in Ops, NEW target \in TargetsOf(op), NEW email \in EmailsOf(op),
         NEW role \in RolesOf(op), NEW user \in ProfileIds \cup {None}
  PROVE  Waiting(op, user, target, email, role) \in Request
<1>1. target \in Ids \cup {None}
  BY DEF TargetsOf, Ids
<1>2. email \in Emails \cup {None} /\ role \in Roles \cup {None}
  BY DEF EmailsOf, RolesOf
<1> QED
  BY <1>1, <1>2 DEF Waiting, Request

LEMMA ArriveGood ==
  ASSUME IInv, NEW r \in Requests, NEW t \in tokens, NEW op \in Offered \ {"log_in"},
         NEW target \in TargetsOf(op), NEW email \in EmailsOf(op),
         NEW role \in RolesOf(op), Arrive(r, t, op, target, email, role)
  PROVE  Good
<1> DEFINE q == Waiting(op, t.id, target, email, role)
<1>1. t \in Promise!Token /\ t.id \in ProfileIds /\ op \in Ops
  BY OfferedAreOperations, SameTables DEF IInv, TypeOK, Promise!Token
<1>2. q \in Request
  BY <1>1, FieldsOfOps
<1>3. /\ q.pc = "waiting" /\ q.op = op /\ q.user = t.id /\ q.target = target
      /\ q.email = email /\ q.role = role /\ q.token = None
  BY DEF Waiting
<1> HIDE DEF q
<1>4. CASE Admission(t, op, target) = "admitted"
  <2>1. /\ req[r].pc = "idle" /\ req' = [req EXCEPT ![r] = q] /\ answer' = None
        /\ UNCHANGED <<db, work, conn, tokens>>
    BY <1>4 DEF Arrive, q
  <2>2. /\ op \in AdminOps => t.role = "admin"
        /\ op = "remove_account" => target # t.id
    BY <1>4 DEF Admission
  <2>3. Admitted(q, tokens)
    BY <1>1, <1>3, <2>2 DEF Admitted
  <2> QED
    BY <1>2, <1>3, <2>1, <2>3, WaitingGood
<1>5. CASE Admission(t, op, target) # "admitted"
  <2> DEFINE kind == Admission(t, op, target)
  <2>1. answer' = AnswerTo(q, kind) /\ UNCHANGED <<db, work, conn, req, tokens>>
    BY <1>5 DEF Arrive, q
  <2>2. \/ kind = "forbidden" /\ op \in AdminOps
        \/ kind = "conflict" /\ op = "remove_account" /\ target = t.id
    BY <1>5 DEF Admission
  <2>3. answer' \in Answer
    BY <1>1, <1>2, <1>3, <2>1, <2>2, AnswerIsTyped DEF Kinds
  <2>4. IsTrueOf(AnswerTo(q, kind), db)
    <3> HIDE DEF kind
    <3>1. CASE kind = "forbidden" /\ op \in AdminOps
      BY <1>3, <3>1 DEF IsTrueOf, AnswerTo, AdminOps, Marks
    <3>2. CASE kind = "conflict" /\ op = "remove_account" /\ target = t.id
      BY <1>3, <3>2 DEF IsTrueOf, AnswerTo, Marks, Promise!CanRemoveAccount
    <3> QED
      BY <2>2, <3>1, <3>2 DEF kind
  <2>5. IInv'
    BY <2>1, <2>3, <2>4
       DEF IInv, TypeOK, ConnectionIsReturned, OnlySignersCarryTokens, AnswersAreTrue
  <2>6. Circulating' = Circulating
    BY <2>1, SameCirculating
  <2> QED
    BY <2>1, <2>5, <2>6 DEF Good, Promise!vars
<1> QED
  BY <1>4, <1>5

LEMMA ArriveLogInGood ==
  ASSUME IInv, NEW r \in Requests, NEW email \in EmailsOf("log_in"),
         ArriveLogIn(r, email)
  PROVE  Good
<1> DEFINE q == Waiting("log_in", None, None, email, None)
<1>1. /\ "log_in" \in Ops /\ None \in TargetsOf("log_in") /\ None \in RolesOf("log_in")
  BY DEF Ops, TargetsOf, RolesOf, Marks
<1>2. q \in Request
  BY <1>1, FieldsOfOps
<1>3. /\ q.pc = "waiting" /\ q.op = "log_in" /\ q.target = None
      /\ q.email = email /\ q.role = None /\ q.token = None
  BY DEF Waiting
<1>4. /\ req[r].pc = "idle" /\ req' = [req EXCEPT ![r] = q] /\ answer' = None
      /\ UNCHANGED <<db, work, conn, tokens>>
  BY DEF ArriveLogIn
<1> HIDE DEF q
<1>5. Admitted(q, tokens)
  BY <1>1, <1>3 DEF Admitted
<1> QED
  BY <1>2, <1>3, <1>4, <1>5, WaitingGood

LEMMA AcquireGood ==
  ASSUME IInv, NEW r \in Requests, Acquire(r)
  PROVE  Good
<1> DEFINE pc == IF req[r].op \in Transactions THEN "select" ELSE "exec"
<1>1. /\ req[r].pc = "waiting" /\ req[r].pc # "idle" /\ conn = None /\ conn' = r
      /\ req' = [req EXCEPT ![r].pc = pc] /\ answer' = None
      /\ UNCHANGED <<db, work, tokens>>
  BY DEF Acquire, Continue
<1>2. /\ req \in [Requests -> Request] /\ req[r].op \in Ops
      /\ pc \in {"select", "exec"} /\ pc \in Holding /\ work = db
  BY <1>1, NoneIsNoRequest
     DEF IInv, TypeOK, Admitted, Holding, ConnectionIsReturned
<1>3. req[r].op \in Transactions \/ req[r].op \in Writes \cup Listings \cup {"log_in"}
  BY <1>2 DEF Ops, AdminOps, Transactions, Writes, Listings
<1>4. Stage(pc, req[r], db, work)
  BY <1>3 DEF Stage
<1> HIDE DEF pc
<1>5. /\ req' \in [Requests -> Request]
      /\ \A q \in Requests : q # r => req'[q] = req[q]
      /\ req'[r].pc = pc
      /\ req'[r].op = req[r].op /\ req'[r].user = req[r].user
      /\ req'[r].target = req[r].target /\ req'[r].email = req[r].email
      /\ req'[r].role = req[r].role /\ req'[r].token = req[r].token
  BY <1>1, <1>2, AfterContinue
<1>6. TypeOK'
  BY <1>1, <1>5 DEF IInv, TypeOK
<1>7. \A q \in Requests : q # r => req'[q].pc \notin Holding
  BY <1>1, <1>5, NoneIsNoRequest DEF IInv, ConnectionIsReturned
<1>8. ConnectionIsReturned'
  BY <1>1, <1>2, <1>5, <1>7, NoneIsNoRequest DEF ConnectionIsReturned, Holding
<1>9. \A q \in Requests : Admitted(req'[q], tokens')
  <2>1. Admitted(req[r], tokens) /\ tokens \subseteq tokens'
    BY <1>1 DEF IInv
  <2>2. Admitted(req'[r], tokens')
    BY <1>1, <1>5, <2>1, AdmittedCopies
  <2> QED
    BY <1>1, <1>5, <2>2 DEF IInv
<1>10. \A q \in Requests : Stage(req'[q].pc, req'[q], db', work')
  <2>1. Stage(pc, req'[r], db, work)
    BY <1>4, <1>5, StageCopies
  <2>2. Stage(req'[r].pc, req'[r], db', work')
    BY <1>1, <1>5, <2>1
  <2> QED
    BY <1>7, <2>2, NotHolding
<1>11. OnlySignersCarryTokens'
  BY <1>1, <1>2, <1>5 DEF IInv, OnlySignersCarryTokens
<1>12. IInv'
  BY <1>1, <1>6, <1>8, <1>9, <1>10, <1>11 DEF IInv, AnswersAreTrue
<1>13. Circulating' = Circulating
  BY <1>1, <1>5, SameCirculating
<1> QED
  BY <1>1, <1>12, <1>13 DEF Good, Promise!vars

LEMMA InterruptGood ==
  ASSUME IInv, NEW r \in Requests, Interrupt(r)
  PROVE  Good
<1>1. PICK kind \in {"deadline", "failed"} :
        \/ /\ req[r].pc = "waiting" /\ Finish(r, kind)
           /\ UNCHANGED <<db, work, conn, tokens>>
        \/ req[r].pc \in Holding /\ Rollback(r, kind)
  BY DEF Interrupt
<1>2. IsTrueOf(AnswerTo(req[r], kind), db) /\ kind \in Kinds
  BY FailuresAreTrue DEF Kinds
<1>3. CASE req[r].pc \in Holding /\ Rollback(r, kind)
  BY <1>2, <1>3, RollbackGood
<1>4. CASE /\ req[r].pc = "waiting" /\ Finish(r, kind)
           /\ UNCHANGED <<db, work, conn, tokens>>
  <2>1. req[r].pc # "idle" /\ req[r].pc # "sign" /\ tokens \subseteq tokens'
    BY <1>4
  <2>2. /\ req' \in [Requests -> Request]
        /\ answer' = AnswerTo(req[r], kind) /\ answer' \in Answer
        /\ \A q \in Requests : q # r => req'[q] = req[q]
        /\ req'[r].pc = "idle" /\ req'[r].token = None
        /\ \A q \in Requests : Admitted(req'[q], tokens')
        /\ OnlySignersCarryTokens'
    BY <1>2, <1>4, <2>1, FinishKeeps
  <2>3. TypeOK'
    BY <1>4, <2>2 DEF IInv, TypeOK
  <2>4. ConnectionIsReturned'
    BY <1>4, <2>2 DEF IInv, ConnectionIsReturned, Holding
  <2>5. \A q \in Requests : Stage(req'[q].pc, req'[q], db', work')
    <3>1. Stage(req'[r].pc, req'[r], db', work')
      BY <2>2, NotHolding DEF Holding
    <3> QED
      BY <1>4, <2>2, <3>1 DEF IInv
  <2>6. AnswersAreTrue'
    BY <1>2, <1>4, <2>2 DEF AnswersAreTrue
  <2>7. IInv'
    BY <1>4, <2>2, <2>3, <2>4, <2>5, <2>6 DEF IInv
  <2>8. Circulating' = Circulating
    BY <1>4, <2>1, <2>2, SameCirculating, HolderCarriesNoToken
  <2> QED
    BY <1>4, <2>7, <2>8 DEF Good, Promise!vars
<1> QED
  BY <1>1, <1>3, <1>4

(* What a crash takes out of circulation are the tokens not yet signed. *)
LEMMA CrashGood ==
  ASSUME IInv, Crash
  PROVE  Good
<1>1. /\ req' = [r \in Requests |-> Idle] /\ conn' = None /\ work' = db
      /\ answer' = None /\ UNCHANGED <<db, tokens>>
  BY DEF Crash
<1>2. /\ Idle \in Request /\ Idle.pc = "idle" /\ Idle.token = None
  BY DEF Idle, Request
<1>3. \A r \in Requests : req'[r] = Idle
  BY <1>1
<1>4. TypeOK'
  BY <1>1, <1>2 DEF IInv, TypeOK
<1>5. ConnectionIsReturned'
  BY <1>1, <1>2, <1>3, NoneIsNoRequest DEF ConnectionIsReturned, Holding
<1>6. /\ \A r \in Requests : Admitted(req'[r], tokens')
      /\ \A r \in Requests : Stage(req'[r].pc, req'[r], db', work')
      /\ OnlySignersCarryTokens'
  BY <1>2, <1>3, NotHolding DEF Admitted, Holding, OnlySignersCarryTokens
<1>7. IInv'
  BY <1>1, <1>4, <1>5, <1>6 DEF IInv, AnswersAreTrue
<1>8. Circulating' = tokens
  BY <1>1, <1>2, <1>3 DEF Circulating
<1>9. Circulating' = Circulating \ (Circulating \ tokens)
  BY <1>8 DEF Circulating
<1>10. Promise!Expire(Circulating \ tokens)
  BY <1>1, <1>9 DEF Promise!Expire
<1>11. Promise!Next
  BY <1>10 DEF Promise!Next
<1> QED
  BY <1>1, <1>7, <1>11 DEF Good

-----------------------------------------------------------------------------
(* The specification. *)

LEMMA InitGood ==
  ASSUME Init
  PROVE  IInv /\ Promise!Init
<1>1. /\ db = Promise!InitialDatabase /\ work = db /\ conn = None
      /\ req = [r \in Requests |-> Idle] /\ tokens = {} /\ answer = None
  BY DEF Init
<1>2. db \in Database
  <2>1. Seed \in [HardwareIds -> Statuses \cup {None}]
    BY StartIsTyped DEF Statuses
  <2>2. \A p \in ProfileIds : p <= Len(Admins) =>
          [email |-> Admins[p], role |-> "admin"] \in Profile
    <3> SUFFICES ASSUME NEW p \in ProfileIds, p <= Len(Admins)
                 PROVE  [email |-> Admins[p], role |-> "admin"] \in Profile
      OBVIOUS
    <3>1. p \in 1 .. Len(Admins)
      BY StartIsTyped DEF ProfileIds
    <3>2. Admins[p] \in Emails
      BY <3>1, StartIsTyped
    <3> QED
      BY <3>2 DEF Profile, Roles
  <2>3. [p \in ProfileIds |->
           IF p <= Len(Admins)
             THEN [email |-> Admins[p], role |-> "admin"] ELSE None]
          \in [ProfileIds -> Profile \cup {None}]
    BY <2>2
  <2>4. db = [hardware |-> Seed,
              profiles |-> [p \in ProfileIds |->
                IF p <= Len(Admins)
                  THEN [email |-> Admins[p], role |-> "admin"] ELSE None],
              rentals |-> [k \in RentalIds |-> None]]
    BY <1>1, SameTables DEF Promise!InitialDatabase, Promise!AdminRole
  <2> QED
    BY <2>1, <2>3, <2>4 DEF Database
<1>3. \A k \in RentalIds : ~IsOpen(db, k)
  BY <1>1, SameTables DEF Promise!InitialDatabase, IsOpen
<1>4. Sound(db)
  BY <1>2, <1>3 DEF Sound
<1>5. /\ Idle \in Request /\ Idle.pc = "idle" /\ Idle.token = None
      /\ \A r \in Requests : req[r] = Idle
  BY <1>1 DEF Idle, Request
<1>6. TypeOK
  BY <1>1, <1>2, <1>5 DEF TypeOK
<1>7. ConnectionIsReturned
  BY <1>1, <1>5, NoneIsNoRequest DEF ConnectionIsReturned, Holding
<1>8. /\ \A r \in Requests : Admitted(req[r], tokens)
      /\ \A r \in Requests : Stage(req[r].pc, req[r], db, work)
      /\ OnlySignersCarryTokens
  BY <1>5, NotHolding DEF Admitted, Holding, OnlySignersCarryTokens
<1>9. IInv
  BY <1>1, <1>4, <1>6, <1>7, <1>8 DEF IInv, AnswersAreTrue
<1>10. Circulating = {}
  BY <1>1, <1>5 DEF Circulating
<1> QED
  BY <1>1, <1>9, <1>10 DEF Promise!Init

LEMMA NextGood ==
  ASSUME IInv, [Next]_vars
  PROVE  Good
<1>1. ASSUME NEW r \in Requests, Statement(r)
      PROVE  Good
  <2>1. CASE SelectDevice(r) \/ SelectRental(r) \/ Claim(r) \/ InsertRentalRow(r)
    BY <2>1, SelectDeviceGood, SelectRentalGood, ClaimGood, InsertRentalRowGood
  <2>2. CASE MarkDevice(r) \/ CloseRental(r) \/ ReleaseDevice(r)
    BY <2>2, MarkDeviceGood, CloseRentalGood, ReleaseDeviceGood
  <2>3. CASE Commit(r) \/ Scan(r)
    BY <2>3, EndGood DEF Commit, Scan
  <2>4. CASE InsertDevice(r) \/ UpdateDevice(r) \/ DeleteDevice(r)
    BY <2>4, InsertDeviceGood, UpdateDeviceGood, DeleteDeviceGood
  <2>5. CASE InsertAccount(r) \/ DeleteAccount(r) \/ GetAll(r)
    BY <2>5, InsertAccountGood, DeleteAccountGood, GetAllGood
  <2>6. CASE FindCredentials(r) \/ Sign(r)
    BY <2>6, FindCredentialsGood, SignGood
  <2> QED
    BY <1>1, <2>1, <2>2, <2>3, <2>4, <2>5, <2>6 DEF Statement
<1>2. ASSUME NEW r \in Requests, NEW t \in tokens, NEW op \in Offered \ {"log_in"},
             NEW target \in TargetsOf(op), NEW email \in EmailsOf(op),
             NEW role \in RolesOf(op), Arrive(r, t, op, target, email, role)
      PROVE  Good
  BY <1>2, ArriveGood
<1>3. ASSUME NEW r \in Requests, NEW email \in EmailsOf("log_in"), ArriveLogIn(r, email)
      PROVE  Good
  BY <1>3, ArriveLogInGood
<1>4. ASSUME NEW r \in Requests, Acquire(r) \/ Interrupt(r)
      PROVE  Good
  BY <1>4, AcquireGood, InterruptGood
<1>5. ASSUME NEW r \in Requests, LoseAnswer(r)
      PROVE  Good
  BY <1>5, EndGood DEF LoseAnswer
<1>6. CASE UNCHANGED vars
  <2>1. /\ db' = db /\ work' = work /\ conn' = conn /\ req' = req
        /\ tokens' = tokens /\ answer' = answer
    BY <1>6 DEF vars
  <2>2. IInv'
    BY <2>1 DEF IInv, TypeOK, ConnectionIsReturned, OnlySignersCarryTokens,
                AnswersAreTrue
  <2>3. Circulating' = Circulating
    BY <2>1, SameCirculating
  <2> QED
    BY <2>1, <2>2, <2>3 DEF Good, Promise!vars
<1> QED
  BY <1>1, <1>2, <1>3, <1>4, <1>5, <1>6, CrashGood DEF Next

(* The inductive invariant of the server. *)
THEOREM Invariance == Spec => []IInv
<1>1. Init => IInv
  BY InitGood
<1>2. IInv /\ [Next]_vars => IInv'
  BY NextGood DEF Good
<1> QED
  BY <1>1, <1>2, PTL DEF Spec

(* Every variable keeps its shape. *)
THEOREM TypeCorrect == Spec => []TypeOK
<1>1. IInv => TypeOK
  BY DEF IInv
<1> QED
  BY <1>1, Invariance, PTL

(* Whatever fails and wherever a request returns early, the one connection  *)
(* of the pool is held by exactly the request that is at work on it, and    *)
(* what it did not commit is gone.                                          *)
THEOREM ConnectionComesBack == Spec => []ConnectionIsReturned
<1>1. IInv => ConnectionIsReturned
  BY DEF IInv
<1> QED
  BY <1>1, Invariance, PTL

(* What a client is told is true of the committed database when it is told. *)
THEOREM AnswersStayTrue == Spec => []AnswersAreTrue
<1>1. IInv => AnswersAreTrue
  BY DEF IInv
<1> QED
  BY <1>1, Invariance, PTL

(* What the backstops would refuse does not occur. *)
LEMMA BackstopsRest ==
  ASSUME IInv
  PROVE  BackstopsNeverFire
<1> SUFFICES ASSUME NEW r \in Requests
             PROVE  /\ At(r, "insert", {"rent"}) =>
                         ~RentalViolatesUniqueIndex(work, req[r].target)
                    /\ At(r, "release", {"return"}) =>
                         ReleaseMatches(work, work.rentals[req[r].target].hardware_id)
                    /\ At(r, "update", {"return"}) => IsOpen(work, req[r].target)
                    /\ At(r, "update", Marks) =>
                         work.hardware[req[r].target] = MarkFrom(req[r].op)
  BY DEF BackstopsNeverFire
<1> DEFINE q == req[r]
<1>1. ASSUME At(r, "insert", {"rent"})
      PROVE  ~RentalViolatesUniqueIndex(work, q.target)
  <2>1. /\ Sound(db) /\ db \in Database /\ q.target \in HardwareIds
        /\ db.hardware[q.target] = "available"
        /\ work = SetStatus(db, q.target, "in_use")
    BY <1>1, FieldsAreTyped DEF At, IInv, TypeOK, Stage, ClaimMatches
  <2>2. work.rentals = db.rentals
    BY <2>1, SetStatusEffect DEF Statuses
  <2>3. \A k \in RentalIds : IsOpen(db, k) => db.rentals[k].hardware_id # q.target
    BY <2>1 DEF Sound
  <2> QED
    BY <2>2, <2>3 DEF RentalViolatesUniqueIndex, OpenRentals, IsOpen
<1>2. ASSUME At(r, "release", {"return"})
      PROVE  ReleaseMatches(work, work.rentals[q.target].hardware_id)
  BY <1>2, ReleaseFindsItsDevice
<1>3. ASSUME At(r, "update", {"return"})
      PROVE  IsOpen(work, q.target)
  BY <1>3, SameConditions DEF At, IInv, Stage, Promise!CanReturn
<1>4. ASSUME At(r, "update", Marks)
      PROVE  work.hardware[q.target] = MarkFrom(q.op)
  BY <1>4, SameConditions DEF At, IInv, Stage, Promise!CanMark
<1> QED
  BY <1>1, <1>2, <1>3, <1>4

(* The unique index, and the row counts the three stores check after each   *)
(* UPDATE, never refuse: the claim and the SELECTs have settled it.         *)
THEOREM BackstopsAreIdle == Spec => []BackstopsNeverFire
<1>1. IInv => BackstopsNeverFire
  BY BackstopsRest
<1> QED
  BY <1>1, Invariance, PTL

(* Nothing is written for a request that is answered with a 4xx. *)
THEOREM RefusalsWriteNothing == Spec => RefusalWritesNothing
<1>1. IInv /\ [Next]_vars =>
        [answer' # None /\ Status(answer'.kind) \in 400 .. 499 => db' = db]_vars
  BY NextGood DEF Good
<1> QED
  BY <1>1, Invariance, PTL DEF Spec, RefusalWritesNothing

(* Only createRentalQuery is answered for a constraint. *)
LEMMA ConstraintEndsRentals ==
  ASSUME Next, answer' # None, answer'.kind = "constraint"
  PROVE  \E r \in Requests : InsertRentalRow(r) /\ Rollback(r, "constraint")
<1>1. \A r, kind : Finish(r, kind) => kind = "constraint"
  BY DEF Finish, AnswerTo
<1>2. \A r, kind : Rollback(r, kind) => kind = "constraint"
  BY <1>1 DEF Rollback
<1>3. \A r, effect, pc : ~Proceed(r, effect, pc) /\ ~Continue(r, pc)
  BY DEF Proceed, Continue
<1>4. ASSUME NEW r \in Requests, Statement(r)
      PROVE  InsertRentalRow(r) /\ Rollback(r, "constraint")
  <2>1. ~SelectDevice(r)
    BY <1>2, <1>3 DEF SelectDevice
  <2>2. ~SelectRental(r) /\ ~Claim(r) /\ ~MarkDevice(r) /\ ~CloseRental(r)
    BY <1>2, <1>3 DEF SelectRental, Claim, MarkDevice, CloseRental
  <2>3. ~ReleaseDevice(r) /\ ~InsertDevice(r) /\ ~UpdateDevice(r) /\ ~DeleteDevice(r)
    BY <1>2, <1>3 DEF ReleaseDevice, InsertDevice, UpdateDevice, DeleteDevice
  <2>4. ~InsertAccount(r) /\ ~DeleteAccount(r) /\ ~GetAll(r) /\ ~FindCredentials(r)
    BY <1>2, <1>3 DEF InsertAccount, DeleteAccount, GetAll, FindCredentials
  <2>5. ~Commit(r) /\ ~Scan(r) /\ ~Sign(r)
    BY <1>1 DEF Commit, Scan, Sign
  <2>6. InsertRentalRow(r)
    BY <1>4, <2>1, <2>2, <2>3, <2>4, <2>5 DEF Statement
  <2> QED
    BY <1>3, <2>6 DEF InsertRentalRow
<1>5. ASSUME NEW r, NEW t, NEW op, NEW target, NEW email, NEW role,
             Arrive(r, t, op, target, email, role)
      PROVE  FALSE
  BY <1>5 DEF Arrive, Admission, AnswerTo
<1>6. \A r : ~Acquire(r) /\ ~Interrupt(r) /\ ~LoseAnswer(r)
  BY <1>1, <1>2, <1>3 DEF Acquire, Interrupt, LoseAnswer
<1>7. ~Crash /\ \A r, email : ~ArriveLogIn(r, email)
  BY DEF Crash, ArriveLogIn
<1> QED
  BY <1>4, <1>5, <1>6, <1>7 DEF Next

(* A constraint is met only by requests whose account was removed. *)
THEOREM ConstraintsMeetTheRemoved == Spec => ConstraintMeansNoAccount
<1>1. ASSUME IInv, Next, answer' # None, answer'.kind = "constraint"
      PROVE  /\ answer'.op = "rent"
             /\ db.profiles[answer'.user] = None
             /\ ClaimMatches(db', answer'.target)
  <2>1. PICK r \in Requests : InsertRentalRow(r) /\ Rollback(r, "constraint")
    BY <1>1, ConstraintEndsRentals
  <2> DEFINE q == req[r]
  <2>2. /\ At(r, "insert", {"rent"})
        /\ answer'.op = q.op /\ answer'.user = q.user /\ answer'.target = q.target
        /\ db' = db
    BY <2>1 DEF InsertRentalRow, Rollback, Finish, AnswerTo
  <2>3. /\ ClaimMatches(db, q.target) /\ db \in Database
        /\ work = SetStatus(db, q.target, "in_use")
        /\ q.target \in HardwareIds
    BY <1>1, <2>2, FieldsAreTyped DEF At, IInv, TypeOK, Stage
  <2>4. /\ work.profiles = db.profiles
        /\ work.hardware[q.target] # None
    <3>1. "in_use" \in Statuses
      BY DEF Statuses
    <3>2. /\ work.profiles = db.profiles
          /\ work.hardware = [db.hardware EXCEPT ![q.target] = "in_use"]
      BY <2>3, <3>1, SetStatusEffect
    <3>3. work.hardware[q.target] = "in_use"
      BY <2>3, <3>2 DEF Database
    <3> QED
      BY <3>1, <3>2, <3>3, NoneIsNoRow
  <2>5. ~RentalViolatesUniqueIndex(work, q.target)
    BY <1>1, <2>2, BackstopsRest DEF BackstopsNeverFire
  <2>6. RentalViolatesForeignKey(work, q.target, q.user)
    BY <1>1, <2>1, <2>5 DEF InsertRentalRow, Proceed, Continue
  <2> QED
    BY <2>2, <2>3, <2>4, <2>6 DEF At, RentalViolatesForeignKey
<1>2. IInv /\ [Next]_vars =>
        [answer' # None /\ answer'.kind = "constraint" =>
           /\ answer'.op = "rent"
           /\ db.profiles[answer'.user] = None
           /\ ClaimMatches(db', answer'.target)]_vars
  BY <1>1
<1> QED
  BY <1>2, Invariance, PTL DEF Spec, ConstraintMeansNoAccount

(* The server, statement by statement, implements the inventory whose       *)
(* operations take effect at one instant: any number of requests, any       *)
(* interleaving of their statements, any deadline, database error or crash. *)
THEOREM ServerImplementsInventory == Spec => ImplementsInventory
<1>1. Init => Promise!Init
  BY InitGood
<1>2. IInv /\ [Next]_vars => [Promise!Next]_(Promise!vars)
  BY NextGood DEF Good
<1> QED
  BY <1>1, <1>2, Invariance, PTL DEF Spec, ImplementsInventory, Promise!Spec
=============================================================================
