-------------------------------- MODULE Api ---------------------------------
(***************************************************************************)
(* The API server: concurrent requests that run the statements of the      *)
(* hardware, rentals, profiles and auth stores over the one SQLite          *)
(* connection of the pool (dependencies.NewRegistry, SetMaxOpenConns(1)).   *)
(*                                                                         *)
(* A request waits for the connection, runs its statements on a working    *)
(* copy of the database and commits the copy, or gives it up: on a         *)
(* refusal, a failed statement, the 15 s deadline, or a crash.  A write    *)
(* outside a transaction is a transaction of one statement.                *)
(*                                                                         *)
(* PATCH /hardware/:id changes no column kept here, and what a hardware    *)
(* write does to the semantic index after it is in Catalogue.tla.  The     *)
(* listings are of devices and of the caller's rentals (list), and of the  *)
(* accounts (list_accounts).                                               *)
(***************************************************************************)
EXTENDS Schema, Sequences

CONSTANTS
  Seed, Admins,  \* as in Inventory
  Requests,      \* the requests that may be in progress at a time
  Offered,       \* the operations clients ask for
  Faults         \* whether deadlines, database errors and crashes happen

VARIABLES
  db,      \* the committed database
  work,    \* what the connection sees: db and its uncommitted writes
  conn,    \* the request that holds the connection, or None
  req,     \* per request: where it is and what it carries
  tokens,  \* the tokens issued
  answer   \* the answer the last step gave, or None

vars == <<db, work, conn, req, tokens, answer>>

(* The tokens issued, and those that will be signed for a log-in that has   *)
(* already read its account.                                                *)
Circulating ==
  tokens \cup {req[r].token : r \in {q \in Requests : req[q].token # None}}

Promise == INSTANCE Inventory WITH tokens <- Circulating

ASSUME StartIsTyped ==
  /\ Seed \in [HardwareIds -> {"available", "repair", None}]
  /\ Admins \in Seq(Emails)
  /\ Len(Admins) <= MaxProfiles
  /\ \A i, j \in 1 .. Len(Admins) : Admins[i] = Admins[j] => i = j

ASSUME NoneIsNoRequest == None \notin Requests \cup Promise!Token

-----------------------------------------------------------------------------
Marks == {"mark_repair", "mark_available"}
Transactions == Marks \cup {"rent", "return"}
Listings == {"list", "list_accounts"}
AdminOps == Marks \cup {"add_device", "update_device", "remove_device",
                       "add_account", "remove_account", "list_accounts"}
Ops == Transactions \cup AdminOps \cup Listings \cup {"log_in"}

ASSUME OfferedAreOperations == Offered \subseteq Ops

TargetsOf(op) ==
  CASE op \in Marks \cup {"rent", "update_device", "remove_device"} -> HardwareIds
    [] op = "return"         -> RentalIds
    [] op = "remove_account" -> ProfileIds
    [] OTHER                 -> {None}

EmailsOf(op) == IF op \in {"add_account", "log_in"} THEN Emails ELSE {None}
RolesOf(op)  == IF op = "add_account" THEN Roles ELSE {None}

(* The points a request can be at while it holds the connection. *)
Holding == {"select", "update", "insert", "release", "commit", "exec", "scan"}

Kinds == {"ok", "not_found", "conflict", "forbidden", "unauthorized",
          "constraint", "deadline", "failed"}

(* Mutant: the status that says the client was too slow. *)
StatusTimingOut(kind) ==
  CASE kind = "ok"           -> 200
    [] kind = "deadline"     -> 408
    [] kind = "unauthorized" -> 401
    [] kind = "forbidden"    -> 403
    [] kind = "not_found"    -> 404
    [] kind = "conflict"     -> 409
    [] OTHER                 -> 500

(* translate; of what a failed statement wraps, only a passed deadline is   *)
(* told from our own bugs.  201 counts as 200.                              *)
Status(kind) ==
  CASE kind = "ok"           -> 200
    [] kind = "unauthorized" -> 401
    [] kind = "forbidden"    -> 403
    [] kind = "not_found"    -> 404
    [] kind = "conflict"     -> 409
    [] kind = "deadline"     -> 503
    [] OTHER                 -> 500

Ids == HardwareIds \cup ProfileIds \cup RentalIds

Request ==
  [pc     : {"idle", "waiting", "sign"} \cup Holding,
   op     : Ops \cup {None},
   user   : ProfileIds \cup {None},       \* whose token it came with
   target : Ids \cup {None},
   email  : Emails \cup {None},
   role   : Roles \cup {None},
   token  : Promise!Token \cup {None}]    \* log_in: what will be signed

Answer ==
  [op : Ops, user : ProfileIds \cup {None}, target : Ids \cup {None}, kind : Kinds]

Idle == [pc |-> "idle", op |-> None, user |-> None, target |-> None,
         email |-> None, role |-> None, token |-> None]

Waiting(op, user, target, email, role) ==
  [pc |-> "waiting", op |-> op, user |-> user, target |-> target,
   email |-> email, role |-> role, token |-> None]

Init ==
  /\ db = Promise!InitialDatabase
  /\ work = db
  /\ conn = None
  /\ req = [r \in Requests |-> Idle]
  /\ tokens = {}
  /\ answer = None

-----------------------------------------------------------------------------
(* The ends of a step. *)

AnswerTo(q, kind) ==
  [op |-> q.op, user |-> q.user, target |-> q.target, kind |-> kind]

(* r goes on to pc; nothing is answered. *)
Continue(r, pc) ==
  /\ req' = [req EXCEPT ![r].pc = pc]
  /\ answer' = None

(* r is answered and over. *)
Finish(r, kind) ==
  /\ req' = [req EXCEPT ![r] = Idle]
  /\ answer' = AnswerTo(req[r], kind)

(* Mutant: an early return without the deferred Rollback. *)
RollbackKeepingConnection(r, kind) ==
  /\ Finish(r, kind)
  /\ work' = db
  /\ UNCHANGED <<db, conn, tokens>>

(* An early return: the deferred Rollback undoes the working copy and gives *)
(* the connection back.                                                     *)
Rollback(r, kind) ==
  /\ Finish(r, kind)
  /\ work' = db
  /\ conn' = None
  /\ UNCHANGED <<db, tokens>>

(* The statement went through: r goes on to pc with its effect. *)
Proceed(r, effect, pc) ==
  /\ Continue(r, pc)
  /\ work' = effect
  /\ UNCHANGED <<db, conn, tokens>>

-----------------------------------------------------------------------------
(* Arrival, the middleware and the pool. *)

(* Bound: an insert is asked for only while its table has ids left. *)
InFlight(op) == Cardinality({r \in Requests : req[r].op = op})
HighestId(table) ==
  IF Rows(table) = {} THEN 0
  ELSE CHOOSE n \in Rows(table) : \A m \in Rows(table) : m <= n
Room(op) ==
  CASE op = "rent"        -> HighestId(db.rentals) + InFlight(op) < MaxRentals
    [] op = "add_device"  -> HighestId(db.hardware) + InFlight(op) < MaxHardware
    [] op = "add_account" -> HighestId(db.profiles) + InFlight(op) < MaxProfiles
    [] OTHER              -> TRUE

(* AdminMiddleware on the token's role, and the one check a store makes     *)
(* before it asks for the connection: users cannot remove themselves.       *)
Admission(t, op, target) ==
  IF op \in AdminOps /\ t.role # "admin" THEN "forbidden"
  ELSE IF op = "remove_account" /\ target = t.id THEN "conflict"
  ELSE "admitted"

Arrive(r, t, op, target, email, role) ==
  /\ req[r].pc = "idle"
  /\ Room(op)
  /\ LET q == Waiting(op, t.id, target, email, role) IN
     IF Admission(t, op, target) = "admitted"
       THEN req' = [req EXCEPT ![r] = q] /\ answer' = None
       ELSE answer' = AnswerTo(q, Admission(t, op, target)) /\ UNCHANGED req
  /\ UNCHANGED <<db, work, conn, tokens>>

ArriveLogIn(r, email) ==
  /\ req[r].pc = "idle"
  /\ req' = [req EXCEPT ![r] = Waiting("log_in", None, None, email, None)]
  /\ answer' = None
  /\ UNCHANGED <<db, work, conn, tokens>>

(* BeginTx, or the connection a single statement runs on. *)
Acquire(r) ==
  /\ req[r].pc = "waiting"
  /\ conn = None
  /\ conn' = r
  /\ Continue(r, IF req[r].op \in Transactions THEN "select" ELSE "exec")
  /\ UNCHANGED <<db, work, tokens>>

-----------------------------------------------------------------------------
(* The statements of the transactions. *)

At(r, pc, ops) == req[r].pc = pc /\ req[r].op \in ops

(* selectHardwareStatusQuery; a rental only needs the row to exist, a       *)
(* repair transition checks its status.                                     *)
SelectDevice(r) ==
  /\ At(r, "select", Marks \cup {"rent"})
  /\ LET status == work.hardware[req[r].target] IN
     CASE status = None -> Rollback(r, "not_found")
       [] status # None /\ req[r].op # "rent" /\ status # MarkFrom(req[r].op) ->
            Rollback(r, "conflict")
       [] OTHER -> Proceed(r, work, "update")

(* selectRentalQuery and the three checks on the row. *)
SelectRental(r) ==
  /\ At(r, "select", {"return"})
  /\ LET rental == work.rentals[req[r].target] IN
     IF rental = None THEN Rollback(r, "not_found")
     ELSE IF rental.user_id # req[r].user THEN Rollback(r, "forbidden")
     ELSE IF rental.returned THEN Rollback(r, "conflict")
     ELSE Proceed(r, work, "update")

(* claimHardwareQuery *)
Claim(r) ==
  /\ At(r, "update", {"rent"})
  /\ IF ClaimMatches(work, req[r].target)
       THEN Proceed(r, SetStatus(work, req[r].target, "in_use"), "insert")
       ELSE Rollback(r, "conflict")

(* createRentalQuery.  Create has no case of its own for a constraint. *)
InsertRentalRow(r) ==
  /\ At(r, "insert", {"rent"})
  /\ LET h == req[r].target
         u == req[r].user
     IN IF RentalViolatesForeignKey(work, h, u) \/ RentalViolatesUniqueIndex(work, h)
          THEN Rollback(r, "constraint")
          ELSE \E k \in RentalIds :
                 /\ IsNewRowid(work.rentals, k)
                 /\ Proceed(r, InsertRental(work, k, h, u), "commit")

(* markRepairQuery, markAvailableQuery *)
MarkDevice(r) ==
  /\ At(r, "update", Marks)
  /\ LET h == req[r].target IN
     IF work.hardware[h] = MarkFrom(req[r].op)
       THEN Proceed(r, SetStatus(work, h, MarkTo(req[r].op)), "commit")
       ELSE Rollback(r, "not_found")

(* closeRentalQuery *)
CloseRental(r) ==
  /\ At(r, "update", {"return"})
  /\ IF IsOpen(work, req[r].target)
       THEN Proceed(r, CloseRentalRow(work, req[r].target), "release")
       ELSE Rollback(r, "conflict")

(* releaseHardwareQuery *)
ReleaseDevice(r) ==
  /\ At(r, "release", {"return"})
  /\ LET h == work.rentals[req[r].target].hardware_id IN
     IF ReleaseMatches(work, h)
       THEN Proceed(r, SetStatus(work, h, "available"), "commit")
       ELSE Rollback(r, "conflict")

(* Mutant: the deferred Rollback ends what was never committed. *)
CommitForgotten(r) ==
  /\ req[r].pc = "commit"
  /\ Rollback(r, "ok")

Commit(r) ==
  /\ req[r].pc = "commit"
  /\ db' = work
  /\ conn' = None
  /\ Finish(r, "ok")
  /\ UNCHANGED <<work, tokens>>

-----------------------------------------------------------------------------
(* The operations of one statement: exec runs it, scan reads the RETURNING  *)
(* row, and closing the rows commits.                                       *)

InsertDevice(r) ==
  /\ At(r, "exec", {"add_device"})
  /\ \E h \in HardwareIds :
       /\ IsNewRowid(work.hardware, h)
       /\ Proceed(r, InsertHardware(work, h), "scan")

(* updateQuery; the row changes in columns that are not kept here.          *)
UpdateDevice(r) ==
  /\ At(r, "exec", {"update_device"})
  /\ IF work.hardware[req[r].target] # None
       THEN Proceed(r, work, "scan")
       ELSE Rollback(r, "not_found")

DeleteDevice(r) ==
  /\ At(r, "exec", {"remove_device"})
  /\ IF work.hardware[req[r].target] # None
       THEN Proceed(r, DeleteHardwareRow(work, req[r].target), "scan")
       ELSE Rollback(r, "not_found")

InsertAccount(r) ==
  /\ At(r, "exec", {"add_account"})
  /\ IF EmailTaken(work, req[r].email)
       THEN Rollback(r, "conflict")
       ELSE \E p \in ProfileIds :
              /\ IsNewRowid(work.profiles, p)
              /\ Proceed(r, InsertProfile(work, p,
                   [email |-> req[r].email, role |-> req[r].role]), "scan")

DeleteAccount(r) ==
  /\ At(r, "exec", {"remove_account"})
  /\ IF RemoveMatches(work, req[r].target)
       THEN Proceed(r, DeleteProfileRow(work, req[r].target), "scan")
       ELSE Rollback(r, "not_found")

Scan(r) ==
  /\ req[r].pc = "scan"
  /\ db' = work
  /\ conn' = None
  /\ Finish(r, "ok")
  /\ UNCHANGED <<work, tokens>>

(* The GetAll of a store: one query, all its rows scanned, nothing to commit. *)
GetAll(r) ==
  /\ At(r, "exec", Listings)
  /\ Rollback(r, "ok")

(* GetUserWithCreds: no such email ends like a wrong password; either way   *)
(* the connection is back before the password is checked.                   *)
FindCredentials(r) ==
  /\ At(r, "exec", {"log_in"})
  /\ LET found == {p \in ProfileIds :
                     Promise!Live(work, p) /\ work.profiles[p].email = req[r].email}
     IN \/ Rollback(r, "unauthorized")
        \/ \E p \in found :
             /\ req' = [req EXCEPT ![r].pc = "sign",
                                   ![r].token = Promise!TokenOf(work, p)]
             /\ answer' = None
             /\ conn' = None
             /\ UNCHANGED <<db, work, tokens>>

(* jwtutils.Issuer.Issue, on the row read above. *)
Sign(r) ==
  /\ req[r].pc = "sign"
  /\ tokens' = tokens \cup {req[r].token}
  /\ Finish(r, "ok")
  /\ UNCHANGED <<db, work, conn>>

-----------------------------------------------------------------------------
(* Failures. *)

(* The 15 s deadline passes, or the database fails, while r waits for the   *)
(* connection or for a statement; a failed Commit rolls back too.           *)
Interrupt(r) ==
  /\ Faults
  /\ \E kind \in {"deadline", "failed"} :
       \/ /\ req[r].pc = "waiting"
          /\ Finish(r, kind)
          /\ UNCHANGED <<db, work, conn, tokens>>
       \/ /\ req[r].pc \in Holding
          /\ Rollback(r, kind)

(* The deadline passes between a single statement and the scan of its row:  *)
(* the client is told it failed, and the write is there.                    *)
LoseAnswer(r) ==
  /\ Faults
  /\ req[r].pc = "scan"
  /\ db' = work
  /\ conn' = None
  /\ Finish(r, "deadline")
  /\ UNCHANGED <<work, tokens>>

(* Mutant: the writes of the transaction that was running survive. *)
CrashKeepingWrites ==
  /\ Faults
  /\ req' = [r \in Requests |-> Idle]
  /\ conn' = None
  /\ db' = work
  /\ answer' = None
  /\ UNCHANGED <<work, tokens>>

(* The process dies: no request is answered, SQLite keeps what was          *)
(* committed, and the tokens clients hold stay valid after the restart.     *)
Crash ==
  /\ Faults
  /\ req' = [r \in Requests |-> Idle]
  /\ conn' = None
  /\ work' = db
  /\ answer' = None
  /\ UNCHANGED <<db, tokens>>

-----------------------------------------------------------------------------
Statement(r) ==
  \/ SelectDevice(r) \/ SelectRental(r)
  \/ Claim(r) \/ InsertRentalRow(r)
  \/ MarkDevice(r)
  \/ CloseRental(r) \/ ReleaseDevice(r)
  \/ Commit(r)
  \/ InsertDevice(r) \/ UpdateDevice(r) \/ DeleteDevice(r)
  \/ InsertAccount(r) \/ DeleteAccount(r)
  \/ GetAll(r) \/ Scan(r)
  \/ FindCredentials(r) \/ Sign(r)

Next ==
  \/ \E r \in Requests, t \in tokens, op \in Offered \ {"log_in"} :
       \E target \in TargetsOf(op), email \in EmailsOf(op), role \in RolesOf(op) :
         Arrive(r, t, op, target, email, role)
  \/ \E r \in Requests, email \in EmailsOf("log_in") :
       "log_in" \in Offered /\ ArriveLogIn(r, email)
  \/ \E r \in Requests : Acquire(r)
  \/ \E r \in Requests : Statement(r)
  \/ \E r \in Requests : Interrupt(r)
  \/ \E r \in Requests : LoseAnswer(r)
  \/ Crash

Spec == Init /\ [][Next]_vars

(* A goroutine that can run goes on, and database/sql hands the connection  *)
(* to its waiters in turn (or at random).  No deadline needs to pass.       *)
Fairness ==
  \A r \in Requests : WF_vars(Statement(r)) /\ SF_vars(Acquire(r))

FairSpec == Spec /\ Fairness

-----------------------------------------------------------------------------
(* Every variable has its shape. *)
TypeOK ==
  /\ db \in Database
  /\ work \in Database
  /\ conn \in Requests \cup {None}
  /\ req \in [Requests -> Request]
  /\ tokens \in SUBSET Promise!Token
  /\ answer \in Answer \cup {None}

(* The connection is held by exactly the request that is between its begin  *)
(* and its end; no early return leaks it, and uncommitted writes neither    *)
(* outlive their request nor show in what another one reads.                *)
ConnectionIsReturned ==
  /\ \A r \in Requests : conn = r <=> req[r].pc \in Holding
  /\ conn = None => work = db
  /\ \A r \in Requests : req[r].pc \in {"select", "exec"} => work = db

(* The checks the code makes "just in case" are never what refuses: a claim *)
(* that succeeded meets no open rental in the unique index, a rental that   *)
(* closed finds its device in use, a checked device is still there and in   *)
(* the status it was checked for.                                           *)
BackstopsNeverFire ==
  \A r \in Requests :
    /\ At(r, "insert", {"rent"}) => ~RentalViolatesUniqueIndex(work, req[r].target)
    /\ At(r, "release", {"return"}) =>
         ReleaseMatches(work, work.rentals[req[r].target].hardware_id)
    /\ At(r, "update", {"return"}) => IsOpen(work, req[r].target)
    /\ At(r, "update", Marks) =>
         work.hardware[req[r].target] = MarkFrom(req[r].op)

(* a, given while the committed database is d, is true of d. *)
IsTrueOf(a, d) ==
  LET refused == a.kind \in {"not_found", "conflict", "forbidden"} IN
  /\ a.op = "rent" =>
       /\ a.kind = "ok" =>
            /\ d.hardware[a.target] = "in_use"
            /\ \E k \in OpenRentals(d, a.target) : d.rentals[k].user_id = a.user
       /\ refused => ~ClaimMatches(d, a.target)
  /\ a.op = "return" =>
       /\ a.kind = "ok" => d.rentals[a.target] # None /\ ~IsOpen(d, a.target)
       /\ refused => ~Promise!CanReturn(d, a.user, a.target)
  /\ a.op \in Marks =>
       /\ a.kind = "ok" => d.hardware[a.target] = MarkTo(a.op)
       /\ a.kind \in {"not_found", "conflict"} => ~Promise!CanMark(d, a.op, a.target)
  /\ a.op = "remove_device" /\ a.kind \in {"ok", "not_found"} =>
       d.hardware[a.target] = None
  /\ a.op = "remove_account" =>
       /\ a.kind = "ok" => d.profiles[a.target] = None
       /\ a.kind \in {"not_found", "conflict"} =>
            ~Promise!CanRemoveAccount(d, a.user, a.target)

(* What a client is told is true of the committed database at that moment:  *)
(* a rental that was granted is open and its device in use, one that was    *)
(* returned is closed, and whatever was refused could not have been done.   *)
AnswersAreTrue == answer # None => IsTrueOf(answer, db)

(* A client that was refused (a 4xx) need not wonder what became of its     *)
(* request: nothing was written.  A 5xx says no such thing; the deadline    *)
(* may pass after the write.                                                *)
RefusalWritesNothing ==
  [][answer' # None /\ Status(answer'.kind) \in 400 .. 499 => db' = db]_vars

(* A constraint of the schema, for which Create has no case of its own,     *)
(* ends a request only when the account of its token is gone, and then it   *)
(* undoes the claim: a rental of anybody else never meets one.              *)
ConstraintMeansNoAccount ==
  [][answer' # None /\ answer'.kind = "constraint" =>
       /\ answer'.op = "rent"
       /\ db.profiles[answer'.user] = None
       /\ ClaimMatches(db', answer'.target)]_vars

(* Seen through its commits, the server does what Inventory promises: every *)
(* request takes effect at one instant or not at all, whatever interleaves, *)
(* fails or crashes.                                                        *)
ImplementsInventory == Promise!Spec

(* Every request is answered, without any help from its deadline: nobody    *)
(* waits for ever for the one connection.                                   *)
EveryRequestEnds ==
  \A r \in Requests : req[r].pc # "idle" ~> req[r].pc = "idle"
=============================================================================
