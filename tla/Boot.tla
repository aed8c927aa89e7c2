-------------------------------- MODULE Boot --------------------------------
(***************************************************************************)
(* The life of the process (cmd/api/main.go): it is started in some        *)
(* environment, applies the migrations, creates the administrators that    *)
(* ADMINS lists, embeds what is not embedded, builds the server, serves,   *)
(* dies, and is started again, perhaps in another environment.  The        *)
(* requests it serves are those of Inventory; kept here are the ones on    *)
(* accounts and those on devices that need no rental.                      *)
(*                                                                         *)
(* No start is promised to end.  The backfill waits for the provider       *)
(* without a deadline (catalogue_start), and a constructor, or the         *)
(* listener, may refuse the configuration after the database was written.  *)
(*                                                                         *)
(* An account's hash is the password it was made from.  Of the validated   *)
(* fields the full name is left out.  JWT_SECRET and DATABASE_URL name the *)
(* same secret and database at every start: tokens outlive the process.    *)
(***************************************************************************)
EXTENDS Inventory

CONSTANTS
  Lower,         \* per email in Emails: trimmed, in lower case
  Company,       \* the emails the rules accept: those that end in @booksy.com
  Passwords,     \* passwords
  Strong,        \* the passwords the rules accept
  GooseTables,   \* the tables GOOSE_TABLE may name
  Environments   \* the environments the process is started in

VARIABLES
  secret,   \* per account the password of its password_hash, or None
  version,  \* per goose table, the last migration it records
  phase,    \* down, migrate, validate, admins, backfill, build, serving
  env,      \* the environment of this process, or None
  admins    \* the validated administrators still to be ensured

bootVars == <<db, tokens, secret, version, phase, env, admins>>

Account == [email : Emails, password : Passwords]  \* an entry of ADMINS

(* What envconfig decodes.  Of a string it keeps the length (of DATABASE_URL *)
(* without its blanks), of PORT whether one can listen on it, of            *)
(* CORS_ORIGINS how many there are and whether CORSWithConfig takes them:   *)
(* it panics on an origin without scheme or host, or with a path.           *)
(* OPENAI_API_KEY is left out: nothing looks at it before the provider does. *)
Environment ==
  [Env : STRING, Port : BOOLEAN, DatabaseUrl : Nat, JWTSecret : Nat, JWTTTL : Int,
   CORSOrigins : [number : Nat, accepted : BOOLEAN], OpenAIEmbeddingsModel : Nat,
   EmbeddingsModelDim : Int, SearchTopK : Int, RateLimitRPS : Int,
   GooseTable : GooseTables, Admins : Seq(Account)]

ASSUME LowerIsIdempotent ==
  /\ Lower \in [Emails -> Emails]
  /\ \A e \in Emails : Lower[Lower[e]] = Lower[e]

ASSUME RulesAreTyped ==
  /\ Company \subseteq Emails
  /\ Strong \subseteq Passwords
  /\ None \notin Passwords
  /\ Environments \subseteq Environment

-----------------------------------------------------------------------------
(* Configuration. *)

(* LoadConfig; of CORS_ORIGINS it asks for the number alone, of PORT and    *)
(* GOOSE_TABLE for nothing.                                                 *)
ConfigIsValid(e) ==
  /\ e.Env \in {"development", "production"}
  /\ e.DatabaseUrl > 0
  /\ e.JWTSecret >= 32
  /\ e.JWTTTL > 0
  /\ e.CORSOrigins.number > 0
  /\ e.EmbeddingsModelDim > 0
  /\ e.SearchTopK > 0
  /\ e.RateLimitRPS > 0
  /\ Len(e.Admins) > 0

(* NewOpenAIEmbedder; nobody before it asks for the name of the model. *)
EmbedderBuilds(e) == e.OpenAIEmbeddingsModel > 0 /\ e.EmbeddingsModelDim > 0

(* jwtutils.NewIssuer *)
IssuerBuilds(e) == e.JWTSecret > 0 /\ e.JWTTTL > 0

RegistryBuilds(e) == EmbedderBuilds(e) /\ IssuerBuilds(e)

(* NewServer: hardware.NewHandler asks for SEARCH_TOP_K once more, and      *)
(* CORSWithConfig panics on origins it does not take.  In development cors  *)
(* gives it "*" instead of CORS_ORIGINS.                                    *)
ServerBuilds(e) ==
  /\ e.SearchTopK > 0
  /\ e.Env = "development" \/ e.CORSOrigins.accepted

(* srv.Start; on a port it cannot listen on, main returns. *)
ServerListens(e) == e.Port

-----------------------------------------------------------------------------
(* Validation.  The rules of ADMINS and of POST /profiles are the same, and *)
(* are asked of the normalized email.                                       *)

(* Mutant: the address is stored as it was written. *)
AsWritten(email) == email

(* EnsureAdmins *)
AdminEmail(email) == Lower[email]

(* CreateProfileReq.Normalize *)
ProfileEmail(email) == Lower[email]

(* CreateTokenReq.Normalize *)
LogInEmail(email) == Lower[email]

(* Mutant: the password is not looked at. *)
PassesRulesByEmail(email, password) == email \in Company

PassesRules(email, password) == email \in Company /\ password \in Strong

(* Mutant: each entry is validated on its own. *)
ListIsValidEntryByEntry(list) ==
  /\ Len(list) > 0
  /\ \A i \in 1 .. Len(list) : PassesRules(AdminEmail(list[i].email), list[i].password)

(* The first loop of EnsureAdmins and the check after it. *)
ListIsValid(list) ==
  /\ Len(list) > 0
  /\ \A i \in 1 .. Len(list) : PassesRules(AdminEmail(list[i].email), list[i].password)
  /\ \A i, j \in 1 .. Len(list) :
       AdminEmail(list[i].email) = AdminEmail(list[j].email) => i = j

-----------------------------------------------------------------------------
(* The start. *)

Migrations == 3

BootInit ==
  /\ db = [hardware |-> [h \in HardwareIds |-> None],
           profiles |-> [p \in ProfileIds |-> None],
           rentals  |-> [k \in RentalIds |-> None]]
  /\ tokens = {}
  /\ secret = [p \in ProfileIds |-> None]
  /\ version = [t \in GooseTables |-> 0]
  /\ phase = "down"
  /\ env = None
  /\ admins = <<>>

(* The hash of an account comes and goes with its row; a new one is of      *)
(* password.                                                                *)
Remember(password) ==
  secret' = [p \in ProfileIds |->
    CASE db'.profiles[p] = None                          -> None
      [] db'.profiles[p] # None /\ db.profiles[p] = None -> password
      [] OTHER                                           -> secret[p]]

(* LoadConfig and NewRegistry; a start they refuse leaves no trace.         *)
Start(e) ==
  /\ phase = "down"
  /\ ConfigIsValid(e)
  /\ RegistryBuilds(e)
  /\ phase' = "migrate"
  /\ env' = e
  /\ UNCHANGED <<db, tokens, secret, version, admins>>

(* log.Fatalf, a panic, a crash. *)
Exit ==
  /\ phase' = "down"
  /\ env' = None
  /\ admins' = <<>>
  /\ UNCHANGED <<db, tokens, secret, version>>

(* The INSERT of 002_seed.sql gives its ids explicitly: it fails when one   *)
(* of them is taken, and else adds the devices to those that are there.     *)
SeedConflicts == \E h \in HardwareIds : Seed[h] # None /\ db.hardware[h] # None

Seeded(hardware) ==
  [h \in HardwareIds |-> IF Seed[h] # None THEN Seed[h] ELSE hardware[h]]

(* Mutant: INSERT OR REPLACE. *)
MigrateReplacing ==
  /\ phase = "migrate"
  /\ LET t == env.GooseTable IN
     /\ version[t] < Migrations
     /\ version' = [version EXCEPT ![t] = @ + 1]
     /\ db' = IF version[t] = 1 THEN [db EXCEPT !.hardware = Seeded(@)] ELSE db
  /\ UNCHANGED <<tokens, secret, phase, env, admins>>

(* Mutant: the seed is completed at every start. *)
MigrateAgain ==
  /\ phase = "migrate"
  /\ LET t == env.GooseTable IN
     /\ version[t] < Migrations \/ \E h \in HardwareIds : Seed[h] # None /\ db.hardware[h] = None
     /\ version' = [version EXCEPT ![t] = IF @ < Migrations THEN @ + 1 ELSE @]
     /\ db' = IF version[t] = 0 THEN db
               ELSE [db EXCEPT !.hardware =
                       [h \in HardwareIds |-> IF @[h] = None THEN Seed[h] ELSE @[h]]]
  /\ UNCHANGED <<tokens, secret, phase, env, admins>>

(* One migration, in a transaction with the record that it was applied.     *)
(* The first and the third create what is not there; the second inserts the *)
(* seed, whichever table the record of an earlier one is in.                *)
Migrate ==
  /\ phase = "migrate"
  /\ version[env.GooseTable] < Migrations
  /\ IF version[env.GooseTable] = 1 /\ SeedConflicts
       THEN Exit
       ELSE /\ version' = [version EXCEPT ![env.GooseTable] = @ + 1]
            /\ db' = IF version[env.GooseTable] = 1
                       THEN [db EXCEPT !.hardware = Seeded(@)] ELSE db
            /\ UNCHANGED <<tokens, secret, phase, env, admins>>

MigrationsDone ==
  /\ phase = "migrate"
  /\ version[env.GooseTable] = Migrations
  /\ phase' = "validate"
  /\ UNCHANGED <<db, tokens, secret, version, env, admins>>

(* EnsureAdmins: the whole list is validated before anything is written.    *)
ValidateAdmins ==
  /\ phase = "validate"
  /\ IF ListIsValid(env.Admins)
       THEN /\ phase' = "admins"
            /\ admins' = [i \in 1 .. Len(env.Admins) |->
                 [email    |-> AdminEmail(env.Admins[i].email),
                  password |-> env.Admins[i].password]]
            /\ UNCHANGED <<db, tokens, secret, version, env>>
       ELSE Exit

(* Mutant: ON CONFLICT (email) DO UPDATE. *)
EnsureNextOverwriting ==
  /\ phase = "admins"
  /\ admins # <<>>
  /\ LET a == Head(admins) IN
     IF EmailTaken(db, a.email)
       THEN /\ UNCHANGED <<db, tokens>>
            /\ secret' = [p \in ProfileIds |->
                 IF db.profiles[p] # None /\ db.profiles[p].email = a.email
                   THEN a.password ELSE secret[p]]
       ELSE EnsureAdmin(a.email) /\ Remember(a.password)
  /\ admins' = Tail(admins)
  /\ UNCHANGED <<version, phase, env>>

(* Mutant: an account that exists ends the loop. *)
EnsureNextThenStop ==
  /\ phase = "admins"
  /\ admins # <<>>
  /\ LET a == Head(admins) IN
     IF EmailTaken(db, a.email)
       THEN UNCHANGED <<db, tokens, secret>> /\ admins' = <<>>
       ELSE EnsureAdmin(a.email) /\ Remember(a.password) /\ admins' = Tail(admins)
  /\ UNCHANGED <<version, phase, env>>

(* CreateAdminIfAbsent; an account with this email is left as it is,        *)
(* whatever its role and password.                                          *)
EnsureNext ==
  /\ phase = "admins"
  /\ admins # <<>>
  /\ LET a == Head(admins) IN
     IF EmailTaken(db, a.email)
       THEN UNCHANGED <<db, tokens, secret>>
       ELSE EnsureAdmin(a.email) /\ Remember(a.password)
  /\ admins' = Tail(admins)
  /\ UNCHANGED <<version, phase, env>>

AdminsDone ==
  /\ phase = "admins"
  /\ admins = <<>>
  /\ phase' = "backfill"
  /\ UNCHANGED <<db, tokens, secret, version, env, admins>>

(* EnsureEmbeddings returns, with an error or without: main goes on in both *)
(* cases.  It may also never return, and writes nothing that is kept here.  *)
EmbeddingsDone ==
  /\ phase = "backfill"
  /\ phase' = "build"
  /\ UNCHANGED <<db, tokens, secret, version, env, admins>>

(* NewServer, and the process listens; or it panics, or ends. *)
Serve ==
  /\ phase = "build"
  /\ IF ServerBuilds(env) /\ ServerListens(env)
       THEN phase' = "serving" /\ UNCHANGED <<db, tokens, secret, version, env, admins>>
       ELSE Exit

(* A crash or a deployment, during the backfill too, or log.Fatalf after a  *)
(* statement that failed.                                                   *)
Die == phase # "down" /\ Exit

-----------------------------------------------------------------------------
(* The requests that touch accounts or devices. *)

(* POST /auth/token *)
SignIn(email, password) ==
  \E p \in ProfileIds :
    /\ Live(db, p)
    /\ db.profiles[p].email = LogInEmail(email)
    /\ secret[p] = password
    /\ LogIn(p)
    /\ UNCHANGED secret

(* Bound: an account is asked for only while ids are left for each mailbox  *)
(* that ADMINS may still name; an administrator's account is never removed. *)
Room ==
  LET administered == {db.profiles[p].email : p \in
                        {q \in ProfileIds : Live(db, q) /\ db.profiles[q].role = AdminRole}}
      others == {Lower[e] : e \in Company} \ administered
  IN \A p \in Rows(db.profiles) : p + Cardinality(others) < MaxProfiles

(* POST /profiles *)
CreateProfile(t, email, password, role) ==
  /\ Room
  /\ PassesRules(ProfileEmail(email), password)
  /\ AddAccount(t, ProfileEmail(email), role)
  /\ Remember(password)

(* DELETE /profiles/:id *)
DeleteProfile(t, p) == RemoveAccount(t, p) /\ Remember(None)

(* DELETE /hardware/:id *)
DeleteDevice(t, h) == RemoveDevice(t, h) /\ UNCHANGED secret

(* POST /hardware *)
CreateDevice(t) == AddDevice(t) /\ UNCHANGED secret

(* PATCH /hardware/:id/repair and /available *)
MarkDevice(t, op, h) == Mark(t, op, h) /\ UNCHANGED secret

Request ==
  /\ phase = "serving"
  /\ \/ \E email \in Emails, password \in Passwords : SignIn(email, password)
     \/ \E t \in tokens, email \in Emails, password \in Passwords, role \in Roles :
          CreateProfile(t, email, password, role)
     \/ \E t \in tokens, p \in ProfileIds : DeleteProfile(t, p)
     \/ \E t \in tokens, h \in HardwareIds : DeleteDevice(t, h)
     \/ \E t \in tokens : CreateDevice(t)
     \/ \E t \in tokens, op \in {"mark_repair", "mark_available"}, h \in HardwareIds :
          MarkDevice(t, op, h)
  /\ UNCHANGED <<version, phase, env, admins>>

TokenExpires ==
  /\ \E t \in tokens : Expire({t})
  /\ UNCHANGED <<secret, version, phase, env, admins>>

BootStep ==
  \/ Migrate
  \/ MigrationsDone
  \/ ValidateAdmins
  \/ EnsureNext
  \/ AdminsDone
  \/ EmbeddingsDone
  \/ Serve

BootNext ==
  \/ \E e \in Environments : Start(e)
  \/ BootStep
  \/ Die
  \/ Request
  \/ TokenExpires

BootSpec == BootInit /\ [][BootNext]_bootVars

-----------------------------------------------------------------------------
(* Every variable has its shape, and every account, made by whom it may, an *)
(* address and a password that the rules accept.                            *)
BootTypeOK ==
  /\ TypeOK
  /\ \A p \in ProfileIds : Live(db, p) => db.profiles[p].email \in Company
  /\ secret \in [ProfileIds -> Strong \cup {None}]
  /\ version \in [GooseTables -> 0 .. Migrations]
  /\ phase \in {"down", "migrate", "validate", "admins", "backfill", "build", "serving"}
  /\ env \in Environments \cup {None}
  /\ admins \in Seq([email : Company, password : Strong])

(* There is somebody to administer a server that serves: the first start    *)
(* made one, and nothing since, two administrators with tokens that outlive *)
(* their accounts included, has removed the last.                           *)
SomebodyAdministers ==
  phase = "serving" =>
    \E p \in ProfileIds : Live(db, p) /\ db.profiles[p].role = AdminRole

(* A mailbox has one account, whatever the spelling it was asked for in,    *)
(* in ADMINS or by an administrator, and logging in under any spelling      *)
(* finds it: the three places that normalize an address agree.              *)
MailboxesAreReachable ==
  /\ \A p, q \in ProfileIds :
       Live(db, p) /\ Live(db, q) /\ Lower[db.profiles[p].email] = Lower[db.profiles[q].email]
         => p = q
  /\ \A p \in ProfileIds, e \in Emails :
       Live(db, p) /\ Lower[e] = Lower[db.profiles[p].email]
         => db.profiles[p].email = LogInEmail(e)

(* "A typo in the third entry cannot leave the first two created": a start  *)
(* creates accounts for a list that is right in every entry, or none.       *)
ListIsRight(list) ==
  /\ \A a \in {list[i] : i \in 1 .. Len(list)} :
       Lower[a.email] \in Company /\ a.password \in Strong
  /\ Cardinality({Lower[list[i].email] : i \in 1 .. Len(list)}) = Len(list)

BadListWritesNothing ==
  [][phase # "serving" /\ db'.profiles # db.profiles => ListIsRight(env.Admins)]_bootVars

(* A start never changes an account that is there, its role and password    *)
(* included.                                                                *)
StartKeepsAccounts ==
  [][phase # "serving" =>
       \A p \in ProfileIds : Live(db, p) =>
         db'.profiles[p] = db.profiles[p] /\ secret'[p] = secret[p]]_bootVars

(* A start never changes or removes a device that is there, not even when   *)
(* GOOSE_TABLE names a table without a record and the seed is applied anew. *)
StartKeepsDevices ==
  [][phase # "serving" =>
       \A h \in HardwareIds :
         db.hardware[h] # None => db'.hardware[h] = db.hardware[h]]_bootVars

(* When the server starts to serve, every mailbox of ADMINS has an account, *)
(* however often earlier starts died half-way.                              *)
ListedHaveAccounts ==
  [][phase # "serving" /\ phase' = "serving" =>
       \A i \in 1 .. Len(env.Admins) : EmailTaken(db, Lower[env.Admins[i].email])]_bootVars

(* GOOSE_TABLE is the same at every start. *)
OneTable == \A e, f \in Environments : e.GooseTable = f.GooseTable

(* To a database whose seed is taken to be there from the beginning, starts *)
(* and crashes do nothing that Inventory does not allow: in particular no   *)
(* start brings back a seeded device that was removed.  It takes OneTable:  *)
(* under another GOOSE_TABLE the seed is inserted once more when none of    *)
(* its ids is left.                                                         *)
Presented ==
  [hardware |-> IF \A t \in GooseTables : version[t] < 2 THEN Seed ELSE db.hardware,
   profiles |-> db.profiles, rentals |-> db.rentals]

Served == INSTANCE Inventory WITH db <- Presented, Admins <- <<>>

BootImplementsInventory == Served!Spec
=============================================================================
