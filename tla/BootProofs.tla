----------------------------- MODULE BootProofs -----------------------------
(***************************************************************************)
(* Starts, crashes and requests in any order, for every set of             *)
(* environments, emails and passwords: the server is never without an      *)
(* administrator, accounts are found under every spelling of their         *)
(* address, and starts do nothing that Inventory does not allow.           *)
(***************************************************************************)
EXTENDS Boot, InventoryProofs, FiniteSetTheorems, SequenceTheorems

-----------------------------------------------------------------------------
(* The inductive invariant. *)

Administered == \E p \in ProfileIds : Live(db, p) /\ db.profiles[p].role = AdminRole

(* Accounts: every one has a hash and a normalized address of its own, both *)
(* as the rules want them, and where there is one, or a token of one, there *)
(* is an administrator.                                                     *)
AccountsAreSound ==
  /\ IInv
  /\ secret \in [ProfileIds -> Strong \cup {None}]
  /\ \A p \in ProfileIds : secret[p] = None <=> ~Live(db, p)
  /\ \A p \in ProfileIds :
       Live(db, p) => /\ db.profiles[p].email \in Company
                      /\ Lower[db.profiles[p].email] = db.profiles[p].email
  /\ \A p, q \in ProfileIds :
       Live(db, p) /\ Live(db, q) /\ db.profiles[p].email = db.profiles[q].email => p = q
  /\ (\E p \in ProfileIds : Live(db, p)) \/ tokens # {} => Administered

(* Before the seed there is nothing. *)
Blank ==
  /\ \A h \in HardwareIds : db.hardware[h] = None
  /\ \A p \in ProfileIds : ~Live(db, p)
  /\ \A k \in RentalIds : db.rentals[k] = None
  /\ tokens = {}

(* An administrator still to be ensured, as ValidateAdmins leaves it. *)
Ensurable == {a \in [email : Company, password : Strong] : Lower[a.email] = a.email}

(* The phases between the validation of ADMINS and the server. *)
Ensuring == {"admins", "backfill", "build"}

(* What is still to be ensured, and what has been. *)
EnsuringIsOnCourse ==
  /\ admins \in Seq(Ensurable)
  /\ phase \in {"backfill", "build"} => admins = <<>>
  /\ phase \in Ensuring =>
       /\ ListIsValid(env.Admins)
       /\ \A i \in 1 .. Len(env.Admins) :
            \/ EmailTaken(db, AdminEmail(env.Admins[i].email))
            \/ \E j \in 1 .. Len(admins) : admins[j].email = AdminEmail(env.Admins[i].email)

Unseeded == \A t \in GooseTables : version[t] < 2

(* Only tables that some environment names have a record. *)
MigratingIsOnCourse ==
  /\ version \in [GooseTables -> 0 .. Migrations]
  /\ \A t \in GooseTables : version[t] > 0 => \E e \in Environments : e.GooseTable = t
  /\ Unseeded => Blank
  /\ phase \in Ensuring \cup {"validate", "serving"} => version[env.GooseTable] = Migrations

StartIsOnCourse ==
  /\ phase \in Ensuring \cup {"down", "migrate", "validate", "serving"}
  /\ IF phase = "down" THEN env = None ELSE env \in Environments
  /\ phase = "serving" => Administered
  /\ MigratingIsOnCourse
  /\ EnsuringIsOnCourse

BootIInv == AccountsAreSound /\ StartIsOnCourse

-----------------------------------------------------------------------------
(* What happens to accounts. *)

(* Accounts and hashes left alone, and no new token. *)
LEMMA SameAccounts ==
  ASSUME AccountsAreSound, IInv', db'.profiles = db.profiles, tokens' \subseteq tokens,
         secret' = secret
  PROVE  /\ AccountsAreSound'
         /\ Administered => Administered'
         /\ \A e : EmailTaken(db', e) <=> EmailTaken(db, e)
BY DEF AccountsAreSound, Administered, Live, EmailTaken

(* A new account with a normalized address, of an administrator or made by  *)
(* one.                                                                     *)
LEMMA NewAccountIsSound ==
  ASSUME AccountsAreSound, NEW email \in Company, Lower[email] = email,
         NEW role \in Roles, NEW password \in Strong,
         NewAccount(email, role), Remember(password),
         role = AdminRole \/ Administered
  PROVE  /\ AccountsAreSound' /\ Administered'
         /\ \A e : EmailTaken(db', e) <=> EmailTaken(db, e) \/ e = email
         /\ \A p \in ProfileIds : Live(db, p) =>
              db'.profiles[p] = db.profiles[p] /\ secret'[p] = secret[p]
<1>1. /\ IInv /\ db \in Database
      /\ secret \in [ProfileIds -> Strong \cup {None}]
      /\ None \notin Strong /\ email \in Emails
  BY RulesAreTyped DEF AccountsAreSound, IInv, TypeOK
<1>2. PICK n \in ProfileIds, profile \in Profile :
        /\ db.profiles[n] = None
        /\ profile # None /\ profile.email = email /\ profile.role = role
        /\ db' \in Database
        /\ db'.hardware = db.hardware
        /\ db'.profiles = [db.profiles EXCEPT ![n] = profile]
        /\ db'.rentals = db.rentals
        /\ UNCHANGED tokens
  BY <1>1, NewAccountEffect
<1>3. ~EmailTaken(db, email)
  BY DEF NewAccount
<1>4. /\ db'.profiles[n] = profile
      /\ \A p \in ProfileIds : p # n => db'.profiles[p] = db.profiles[p]
  BY <1>1, <1>2 DEF Database
<1>5. secret' = [p \in ProfileIds |->
        CASE db'.profiles[p] = None                          -> None
          [] db'.profiles[p] # None /\ db.profiles[p] = None -> password
          [] OTHER                                           -> secret[p]]
  BY DEF Remember
<1>6. /\ secret'[n] = password
      /\ \A p \in ProfileIds : p # n => secret'[p] = secret[p]
  <2>1. secret'[n] = password
    BY <1>2, <1>4, <1>5
  <2>2. ASSUME NEW p \in ProfileIds, p # n
        PROVE  secret'[p] = secret[p]
    <3>1. CASE db.profiles[p] = None
      BY <1>4, <1>5, <2>2, <3>1 DEF AccountsAreSound, Live
    <3>2. CASE db.profiles[p] # None
      BY <1>4, <1>5, <2>2, <3>2
    <3> QED
      BY <3>1, <3>2
  <2> QED
    BY <2>1, <2>2
<1>7. secret' \in [ProfileIds -> Strong \cup {None}]
  BY <1>1, <1>5
<1>8. IInv'
  BY <1>1, NewAccountSound
<1>9. Administered'
  <2>1. CASE role = AdminRole
    BY <1>2, <1>4, <2>1 DEF Administered, Live
  <2>2. CASE Administered
    BY <1>2, <1>4, <2>2 DEF Administered, Live
  <2> QED
    BY <2>1, <2>2
<1>10. \A p \in ProfileIds : secret'[p] = None <=> ~Live(db', p)
  BY <1>1, <1>2, <1>4, <1>6 DEF AccountsAreSound, Live
<1>11. \A p \in ProfileIds :
         Live(db', p) => /\ db'.profiles[p].email \in Company
                         /\ Lower[db'.profiles[p].email] = db'.profiles[p].email
  BY <1>2, <1>4 DEF AccountsAreSound, Live
<1>12. \A p, q \in ProfileIds :
         Live(db', p) /\ Live(db', q) /\ db'.profiles[p].email = db'.profiles[q].email
           => p = q
  BY <1>2, <1>3, <1>4 DEF AccountsAreSound, Live, EmailTaken
<1>13. AccountsAreSound'
  BY <1>7, <1>8, <1>9, <1>10, <1>11, <1>12 DEF AccountsAreSound
<1>14. \A e : EmailTaken(db', e) <=> EmailTaken(db, e) \/ e = email
  BY <1>2, <1>4 DEF EmailTaken
<1> QED
  BY <1>2, <1>4, <1>6, <1>9, <1>13, <1>14 DEF Live

(* Only the account of an employee is removed. *)
LEMMA RemovalIsSound ==
  ASSUME AccountsAreSound, NEW t \in tokens, NEW p \in ProfileIds, DeleteProfile(t, p)
  PROVE  AccountsAreSound' /\ (Administered => Administered')
<1>1. /\ IInv /\ db \in Database /\ RemoveAccount(t, p) /\ Remember(None)
      /\ secret \in [ProfileIds -> Strong \cup {None}]
  BY DEF AccountsAreSound, IInv, TypeOK, DeleteProfile
<1>2. /\ db.profiles[p] # None /\ db.profiles[p].role = "employee"
      /\ db'.profiles = [db.profiles EXCEPT ![p] = None]
      /\ UNCHANGED tokens
  BY <1>1, RemoveAccountEffect
<1>3. /\ db'.profiles[p] = None
      /\ \A q \in ProfileIds : q # p => db'.profiles[q] = db.profiles[q]
  BY <1>1, <1>2 DEF Database
<1>4. secret' = [q \in ProfileIds |->
        CASE db'.profiles[q] = None                          -> None
          [] db'.profiles[q] # None /\ db.profiles[q] = None -> None
          [] OTHER                                           -> secret[q]]
  BY <1>1 DEF Remember
<1>5. secret'[p] = None
  BY <1>3, <1>4
<1>6. ASSUME NEW q \in ProfileIds, q # p
      PROVE  secret'[q] = secret[q]
  <2>1. CASE db.profiles[q] = None
    BY <1>3, <1>4, <1>6, <2>1 DEF AccountsAreSound, Live
  <2>2. CASE db.profiles[q] # None
    BY <1>3, <1>4, <1>6, <2>2
  <2> QED
    BY <2>1, <2>2
<1>7. secret' \in [ProfileIds -> Strong \cup {None}]
  BY <1>1, <1>4
<1>8. IInv'
  BY <1>1, RemoveAccountSound
<1>9. Administered => Administered'
  BY <1>2, <1>3 DEF Administered, Live, AdminRole
<1>10. Administered
  BY <1>1 DEF AccountsAreSound
<1>11. \A q \in ProfileIds : secret'[q] = None <=> ~Live(db', q)
  BY <1>3, <1>5, <1>6 DEF AccountsAreSound, Live
<1>12. \A q \in ProfileIds :
         Live(db', q) => /\ db'.profiles[q].email \in Company
                         /\ Lower[db'.profiles[q].email] = db'.profiles[q].email
  BY <1>3 DEF AccountsAreSound, Live
<1>13. \A q, o \in ProfileIds :
         Live(db', q) /\ Live(db', o) /\ db'.profiles[q].email = db'.profiles[o].email
           => q = o
  BY <1>3 DEF AccountsAreSound, Live
<1> QED
  BY <1>7, <1>8, <1>9, <1>10, <1>11, <1>12, <1>13 DEF AccountsAreSound

(* Nothing happens to accounts. *)
LEMMA QuietKeeps ==
  ASSUME AccountsAreSound, UNCHANGED <<db, tokens, secret>>
  PROVE  /\ AccountsAreSound'
         /\ Administered => Administered'
         /\ Blank => Blank'
         /\ \A e : EmailTaken(db', e) <=> EmailTaken(db, e)
<1>1. IInv'
  <2>1. {} \in SUBSET tokens /\ UNCHANGED vars /\ IInv
    BY DEF vars, AccountsAreSound
  <2> QED
    BY <2>1, ExpireSound
<1>2. Blank => Blank'
  BY DEF Blank, Live
<1> QED
  BY <1>1, <1>2, SameAccounts

-----------------------------------------------------------------------------
(* The start. *)

LEMMA BootInitGood ==
  ASSUME BootInit
  PROVE  BootIInv
<1>1. /\ db = [hardware |-> [h \in HardwareIds |-> None],
               profiles |-> [p \in ProfileIds |-> None],
               rentals  |-> [k \in RentalIds |-> None]]
      /\ tokens = {} /\ secret = [p \in ProfileIds |-> None]
      /\ version = [t \in GooseTables |-> 0]
      /\ phase = "down" /\ env = None /\ admins = <<>>
  BY DEF BootInit
<1>2. db \in Database
  BY <1>1 DEF Database
<1>3. /\ \A p \in ProfileIds : db.profiles[p] = None
      /\ \A k \in RentalIds : db.rentals[k] = None
      /\ DOMAIN db.rentals = RentalIds
  BY <1>1
<1>4. IInv
  BY <1>1, <1>2, <1>3
     DEF IInv, TypeOK, ReferentialIntegrity, OpenRentalHoldsItsDevice,
         OneOpenRentalPerDevice, AdminTokensNameTheirAccount, IsOpen, Rows
<1>5. AccountsAreSound
  BY <1>1, <1>3, <1>4 DEF AccountsAreSound, Live
<1>6. Blank
  BY <1>1, <1>3 DEF Blank, Live
<1>7. EnsuringIsOnCourse
  BY <1>1 DEF EnsuringIsOnCourse, Ensuring
<1>8. MigratingIsOnCourse
  BY <1>1, <1>6 DEF MigratingIsOnCourse, Ensuring, Migrations
<1> QED
  BY <1>1, <1>5, <1>7, <1>8 DEF BootIInv, StartIsOnCourse

LEMMA StartGood ==
  ASSUME BootIInv, NEW e \in Environments, Start(e)
  PROVE  BootIInv'
<1>1. /\ phase' = "migrate" /\ env' = e
      /\ UNCHANGED <<db, tokens, secret, version, admins>>
  BY DEF Start
<1>2. AccountsAreSound' /\ (Blank => Blank')
  BY <1>1, QuietKeeps DEF BootIInv
<1>3. EnsuringIsOnCourse' /\ MigratingIsOnCourse'
  BY <1>1, <1>2
     DEF BootIInv, StartIsOnCourse, EnsuringIsOnCourse, MigratingIsOnCourse, Unseeded, Ensuring
<1> QED
  BY <1>1, <1>2, <1>3 DEF BootIInv, StartIsOnCourse

LEMMA ExitGood ==
  ASSUME BootIInv, Exit
  PROVE  BootIInv'
<1>1. /\ phase' = "down" /\ env' = None /\ admins' = <<>>
      /\ UNCHANGED <<db, tokens, secret, version>>
  BY DEF Exit
<1>2. AccountsAreSound' /\ (Blank => Blank')
  BY <1>1, QuietKeeps DEF BootIInv
<1>3. EnsuringIsOnCourse' /\ MigratingIsOnCourse'
  BY <1>1, <1>2
     DEF BootIInv, StartIsOnCourse, EnsuringIsOnCourse, MigratingIsOnCourse, Unseeded, Ensuring
<1> QED
  BY <1>1, <1>2, <1>3 DEF BootIInv, StartIsOnCourse

(* The seed is inserted beside the devices that are there. *)
LEMMA SeedingAdds ==
  ASSUME db \in Database, ~SeedConflicts
  PROVE  /\ Seeded(db.hardware) \in [HardwareIds -> Statuses \cup {None}]
         /\ \A h \in HardwareIds :
              db.hardware[h] # None => Seeded(db.hardware)[h] = db.hardware[h]
<1>1. /\ Seed \in [HardwareIds -> Statuses \cup {None}]
      /\ db.hardware \in [HardwareIds -> Statuses \cup {None}]
  BY SeedIsIdle DEF Statuses, Database
<1> QED
  BY <1>1 DEF Seeded, SeedConflicts

(* A migration that succeeds removes nothing and writes no account. *)
LEMMA MigrateEffect ==
  ASSUME BootIInv, Migrate, ~Exit
  PROVE  /\ db' \in Database
         /\ db'.profiles = db.profiles /\ db'.rentals = db.rentals
         /\ \A h \in HardwareIds : db.hardware[h] # None => db'.hardware[h] = db.hardware[h]
         /\ UNCHANGED <<tokens, secret, phase, env, admins>>
         /\ version' = [version EXCEPT ![env.GooseTable] = @ + 1]
<1>1. db \in Database
  BY DEF BootIInv, AccountsAreSound, IInv, TypeOK
<1>2. /\ UNCHANGED <<tokens, secret, phase, env, admins>>
      /\ version' = [version EXCEPT ![env.GooseTable] = @ + 1]
      /\ db' = IF version[env.GooseTable] = 1
                 THEN [db EXCEPT !.hardware = Seeded(@)] ELSE db
      /\ version[env.GooseTable] = 1 => ~SeedConflicts
  BY DEF Migrate
<1>3. CASE version[env.GooseTable] # 1
  BY <1>1, <1>2, <1>3
<1>4. CASE version[env.GooseTable] = 1
  BY <1>1, <1>2, <1>4, SeedingAdds DEF Database
<1> QED
  BY <1>2, <1>3, <1>4

LEMMA MigrateGood ==
  ASSUME BootIInv, Migrate
  PROVE  BootIInv'
<1>1. CASE Exit
  BY <1>1, ExitGood
<1>2. CASE ~Exit
  <2>1. /\ phase = "migrate" /\ version[env.GooseTable] < Migrations
        /\ env \in Environments /\ env.GooseTable \in GooseTables
        /\ AccountsAreSound /\ IInv /\ MigratingIsOnCourse /\ EnsuringIsOnCourse
    BY RulesAreTyped
       DEF Migrate, BootIInv, StartIsOnCourse, AccountsAreSound, Environment
  <2>2. /\ db \in Database /\ db' \in Database
        /\ db'.profiles = db.profiles /\ db'.rentals = db.rentals
        /\ \A h \in HardwareIds : db.hardware[h] # None => db'.hardware[h] = db.hardware[h]
        /\ UNCHANGED <<tokens, secret, phase, env, admins>>
        /\ version' = [version EXCEPT ![env.GooseTable] = @ + 1]
    BY <1>2, <2>1, MigrateEffect DEF IInv, TypeOK
  <2>3. IInv'
    <3>1. TypeOK'
      BY <2>1, <2>2 DEF IInv, TypeOK
    <3>2. ReferentialIntegrity'
      BY <2>1, <2>2 DEF IInv, ReferentialIntegrity, Database, Rental, Rows
    <3>3. OpenRentalHoldsItsDevice'
      BY <2>1, <2>2, NoneIsNoRow
         DEF IInv, OpenRentalHoldsItsDevice, IsOpen, Statuses, Database, Rental
    <3>4. OneOpenRentalPerDevice' /\ AdminTokensNameTheirAccount'
      BY <2>1, <2>2
         DEF IInv, OneOpenRentalPerDevice, IsOpen, AdminTokensNameTheirAccount, Live, TokenOf
    <3> QED
      BY <3>1, <3>2, <3>3, <3>4 DEF IInv
  <2>4. AccountsAreSound'
    BY <2>1, <2>2, <2>3, SameAccounts
  <2>5. EnsuringIsOnCourse'
    BY <2>1, <2>2 DEF EnsuringIsOnCourse, Ensuring
  <2>6. MigratingIsOnCourse'
    <3>1. version' \in [GooseTables -> 0 .. Migrations]
      BY <2>1, <2>2 DEF MigratingIsOnCourse, Migrations
    <3>2. \A t \in GooseTables : version'[t] > 0 => \E e \in Environments : e.GooseTable = t
      BY <2>1, <2>2 DEF MigratingIsOnCourse
    <3>3. ASSUME Unseeded' PROVE Blank'
      <4>1. version[env.GooseTable] # 1 /\ Unseeded
        BY <2>1, <2>2, <3>3 DEF Unseeded, MigratingIsOnCourse, Migrations
      <4>2. db' = db
        BY <1>2, <4>1 DEF Migrate
      <4> QED
        BY <2>1, <2>2, <4>1, <4>2 DEF MigratingIsOnCourse, Blank, Live
    <3> QED
      BY <2>1, <2>2, <3>1, <3>2, <3>3 DEF MigratingIsOnCourse, Ensuring
  <2> QED
    BY <2>1, <2>2, <2>4, <2>5, <2>6 DEF BootIInv, StartIsOnCourse
<1> QED
  BY <1>1, <1>2

(* Where a migration table is complete, the seed is there. *)
LEMMA SeededBySomeone ==
  ASSUME BootIInv, phase \in Ensuring \cup {"validate", "serving"}
  PROVE  env \in Environments /\ ~Unseeded
<1>1. env \in Environments /\ version[env.GooseTable] = Migrations
  BY DEF BootIInv, StartIsOnCourse, MigratingIsOnCourse, Ensuring
<1>2. env.GooseTable \in GooseTables
  BY <1>1, RulesAreTyped DEF Environment
<1> QED
  BY <1>1, <1>2 DEF Unseeded, Migrations

LEMMA MigrationsDoneGood ==
  ASSUME BootIInv, MigrationsDone
  PROVE  BootIInv'
<1>1. /\ phase = "migrate" /\ version[env.GooseTable] = Migrations /\ phase' = "validate"
      /\ UNCHANGED <<db, tokens, secret, version, env, admins>>
  BY DEF MigrationsDone
<1>2. AccountsAreSound' /\ (Blank => Blank')
  BY <1>1, QuietKeeps DEF BootIInv
<1>3. EnsuringIsOnCourse' /\ MigratingIsOnCourse'
  BY <1>1, <1>2
     DEF BootIInv, StartIsOnCourse, EnsuringIsOnCourse, MigratingIsOnCourse, Unseeded, Ensuring
<1> QED
  BY <1>1, <1>2, <1>3 DEF BootIInv, StartIsOnCourse

(* From one phase of the start to the next. *)
LEMMA AdminsDoneGood ==
  ASSUME BootIInv, AdminsDone
  PROVE  BootIInv'
<1>1. /\ phase = "admins" /\ phase' = "backfill" /\ admins = <<>>
      /\ UNCHANGED <<db, tokens, secret, version, env, admins>>
  BY DEF AdminsDone
<1>2. AccountsAreSound' /\ (Blank => Blank')
  BY <1>1, QuietKeeps DEF BootIInv
<1>3. EnsuringIsOnCourse' /\ MigratingIsOnCourse'
  BY <1>1, <1>2
     DEF BootIInv, StartIsOnCourse, EnsuringIsOnCourse, MigratingIsOnCourse, Unseeded, Ensuring
<1> QED
  BY <1>1, <1>2, <1>3 DEF BootIInv, StartIsOnCourse, Ensuring

LEMMA EmbeddingsDoneGood ==
  ASSUME BootIInv, EmbeddingsDone
  PROVE  BootIInv'
<1>1. /\ phase = "backfill" /\ phase' = "build"
      /\ UNCHANGED <<db, tokens, secret, version, env, admins>>
  BY DEF EmbeddingsDone
<1>2. AccountsAreSound' /\ (Blank => Blank')
  BY <1>1, QuietKeeps DEF BootIInv
<1>3. EnsuringIsOnCourse' /\ MigratingIsOnCourse'
  BY <1>1, <1>2
     DEF BootIInv, StartIsOnCourse, EnsuringIsOnCourse, MigratingIsOnCourse, Unseeded, Ensuring
<1> QED
  BY <1>1, <1>2, <1>3 DEF BootIInv, StartIsOnCourse, Ensuring

(* The list that passes is normalized entry by entry. *)
LEMMA ValidateAdminsGood ==
  ASSUME BootIInv, ValidateAdmins
  PROVE  BootIInv'
<1> DEFINE n == Len(env.Admins)
           list == [i \in 1 .. n |->
             [email    |-> AdminEmail(env.Admins[i].email),
              password |-> env.Admins[i].password]]
<1>1. phase = "validate" /\ env \in Environments /\ MigratingIsOnCourse
  BY DEF ValidateAdmins, BootIInv, StartIsOnCourse
<1>2. env.Admins \in Seq(Account) /\ n \in Nat
  BY <1>1, RulesAreTyped DEF Environment
<1>3. CASE ~ListIsValid(env.Admins)
  BY <1>3, ExitGood DEF ValidateAdmins
<1>4. CASE ListIsValid(env.Admins)
  <2>1. /\ phase' = "admins" /\ admins' = list
        /\ UNCHANGED <<db, tokens, secret, version, env>>
    BY <1>4 DEF ValidateAdmins
  <2>2. \A i \in 1 .. n :
          [email |-> AdminEmail(env.Admins[i].email),
           password |-> env.Admins[i].password] \in Ensurable
    <3> SUFFICES ASSUME NEW i \in 1 .. n
                 PROVE  [email |-> AdminEmail(env.Admins[i].email),
                         password |-> env.Admins[i].password] \in Ensurable
      OBVIOUS
    <3>1. env.Admins[i].email \in Emails
      <4>1. env.Admins[i] \in Account
        BY <1>2
      <4> QED
        BY <4>1 DEF Account
    <3>2. /\ AdminEmail(env.Admins[i].email) \in Company
          /\ env.Admins[i].password \in Strong
      BY <1>4 DEF ListIsValid, PassesRules
    <3>3. Lower[AdminEmail(env.Admins[i].email)] = AdminEmail(env.Admins[i].email)
      BY <3>1, LowerIsIdempotent DEF AdminEmail
    <3> QED
      BY <3>2, <3>3 DEF Ensurable
  <2>3. list \in Seq(Ensurable) /\ Len(list) = n
    BY <1>2, <2>2
  <2>4. \A i \in 1 .. n : list[i].email = AdminEmail(env.Admins[i].email)
    OBVIOUS
  <2>5. EnsuringIsOnCourse'
    <3> HIDE DEF list
    <3> QED
      BY <1>4, <2>1, <2>3, <2>4 DEF EnsuringIsOnCourse, Ensuring
  <2>6. AccountsAreSound' /\ MigratingIsOnCourse'
    BY <1>1, <2>1, QuietKeeps DEF BootIInv, MigratingIsOnCourse, Unseeded, Ensuring
  <2> QED
    BY <1>1, <2>1, <2>5, <2>6 DEF BootIInv, StartIsOnCourse, Ensuring
<1> QED
  BY <1>3, <1>4

(* One entry less to be ensured, and its mailbox has an account. *)
LEMMA EnsureNextGood ==
  ASSUME BootIInv, EnsureNext
  PROVE  /\ BootIInv'
         /\ \A p \in ProfileIds : Live(db, p) =>
              db'.profiles[p] = db.profiles[p] /\ secret'[p] = secret[p]
<1> DEFINE a == Head(admins)
<1>1. /\ phase = "admins" /\ admins # <<>> /\ admins' = Tail(admins)
      /\ UNCHANGED <<version, phase, env>>
      /\ AccountsAreSound /\ StartIsOnCourse /\ EnsuringIsOnCourse
  BY DEF EnsureNext, BootIInv, StartIsOnCourse
<1>2. admins \in Seq(Ensurable)
  BY <1>1 DEF EnsuringIsOnCourse
<1>3. /\ a \in Ensurable /\ Tail(admins) \in Seq(Ensurable)
      /\ Len(Tail(admins)) = Len(admins) - 1 /\ a = admins[1]
      /\ \A i \in 1 .. Len(Tail(admins)) : Tail(admins)[i] = admins[i + 1]
  BY <1>1, <1>2, HeadTailProperties
<1>4. a.email \in Company /\ a.password \in Strong /\ Lower[a.email] = a.email
  BY <1>3 DEF Ensurable
<1> HIDE DEF a
<1>5. /\ AccountsAreSound'
      /\ \A e : EmailTaken(db', e) <=> EmailTaken(db, e) \/ e = a.email
      /\ \A p \in ProfileIds : Live(db, p) =>
           db'.profiles[p] = db.profiles[p] /\ secret'[p] = secret[p]
  <2>1. CASE EmailTaken(db, a.email)
    <3>1. UNCHANGED <<db, tokens, secret>>
      BY <2>1 DEF EnsureNext, a
    <3> QED
      BY <1>1, <2>1, <3>1, QuietKeeps
  <2>2. CASE ~EmailTaken(db, a.email)
    <3>1. NewAccount(a.email, AdminRole) /\ Remember(a.password)
      BY <2>2 DEF EnsureNext, EnsureAdmin, a
    <3>2. AdminRole \in Roles
      BY DEF AdminRole, Roles
    <3> QED
      BY <1>1, <1>4, <3>1, <3>2, NewAccountIsSound
  <2> QED
    BY <2>1, <2>2
<1>6. EnsuringIsOnCourse'
  <2> SUFFICES ASSUME NEW i \in 1 .. Len(env.Admins)
               PROVE  LET e == AdminEmail(env.Admins[i].email) IN
                      \/ EmailTaken(db', e)
                      \/ \E j \in 1 .. Len(Tail(admins)) : Tail(admins)[j].email = e
    BY <1>1, <1>3 DEF EnsuringIsOnCourse, Ensuring
  <2> DEFINE e == AdminEmail(env.Admins[i].email)
  <2>1. CASE EmailTaken(db, e)
    BY <1>5, <2>1
  <2>2. CASE \E j \in 1 .. Len(admins) : admins[j].email = e
    <3>1. PICK j \in 1 .. Len(admins) : admins[j].email = e
      BY <2>2
    <3>2. CASE j = 1
      BY <1>3, <1>5, <3>1, <3>2
    <3>3. CASE j # 1
      <4>1. j - 1 \in 1 .. Len(Tail(admins)) /\ (j - 1) + 1 = j
        BY <1>2, <1>3, <3>3
      <4> QED
        BY <1>3, <3>1, <4>1
    <3> QED
      BY <3>2, <3>3
  <2> QED
    BY <1>1, <2>1, <2>2 DEF EnsuringIsOnCourse, Ensuring
<1>7. MigratingIsOnCourse'
  BY <1>1, SeededBySomeone DEF StartIsOnCourse, MigratingIsOnCourse, Unseeded, Ensuring
<1>8. env' \in Environments /\ phase' = "admins"
  BY <1>1 DEF StartIsOnCourse
<1>9. StartIsOnCourse'
  BY <1>6, <1>7, <1>8 DEF StartIsOnCourse, Ensuring
<1> QED
  BY <1>5, <1>9 DEF BootIInv

(* When all have been ensured, the first of them has an account, so there   *)
(* is an administrator.                                                     *)
LEMMA AllAreEnsured ==
  ASSUME BootIInv, phase \in Ensuring, admins = <<>>
  PROVE  /\ \A i \in 1 .. Len(env.Admins) :
              EmailTaken(db, AdminEmail(env.Admins[i].email))
         /\ Administered
<1>1. Len(admins) = 0 /\ EnsuringIsOnCourse /\ ListIsValid(env.Admins)
  BY DEF BootIInv, StartIsOnCourse, EnsuringIsOnCourse
<1>2. \A i \in 1 .. Len(env.Admins) : EmailTaken(db, AdminEmail(env.Admins[i].email))
  BY <1>1 DEF EnsuringIsOnCourse
<1>3. env \in Environments
  BY DEF BootIInv, StartIsOnCourse, Ensuring
<1>4. 1 \in 1 .. Len(env.Admins)
  <2>1. Len(env.Admins) \in Nat
    BY <1>3, RulesAreTyped DEF Environment
  <2> QED
    BY <1>1, <2>1 DEF ListIsValid
<1>5. \E p \in ProfileIds : Live(db, p)
  BY <1>2, <1>4 DEF EmailTaken, Live
<1> QED
  BY <1>2, <1>5 DEF BootIInv, AccountsAreSound

LEMMA ServeGood ==
  ASSUME BootIInv, Serve
  PROVE  BootIInv'
<1>1. phase = "build" /\ admins = <<>>
  BY DEF Serve, BootIInv, StartIsOnCourse, EnsuringIsOnCourse
<1>2. CASE Exit
  BY <1>2, ExitGood
<1>3. CASE phase' = "serving" /\ UNCHANGED <<db, tokens, secret, version, env, admins>>
  <2>1. AccountsAreSound' /\ Administered'
    BY <1>1, <1>3, QuietKeeps, AllAreEnsured DEF BootIInv, Ensuring
  <2>2. MigratingIsOnCourse'
    BY <1>1, <1>3, QuietKeeps
       DEF BootIInv, StartIsOnCourse, MigratingIsOnCourse, Unseeded, Ensuring
  <2>3. EnsuringIsOnCourse'
    BY <1>3 DEF BootIInv, StartIsOnCourse, EnsuringIsOnCourse, Ensuring
  <2> QED
    BY <1>1, <1>3, <2>1, <2>2, <2>3 DEF BootIInv, StartIsOnCourse
<1> QED
  BY <1>2, <1>3 DEF Serve

-----------------------------------------------------------------------------
(* The requests. *)

(* Every request keeps the accounts sound and an administrator there. *)
LEMMA RequestKeepsAccounts ==
  ASSUME BootIInv, Request
  PROVE  AccountsAreSound' /\ Administered'
<1>1. AccountsAreSound /\ IInv /\ Administered
  BY DEF Request, BootIInv, StartIsOnCourse, AccountsAreSound
<1>2. ASSUME NEW email \in Emails, NEW password \in Passwords, SignIn(email, password)
      PROVE  AccountsAreSound' /\ Administered'
  <2>1. PICK p \in ProfileIds : Live(db, p) /\ LogIn(p) /\ UNCHANGED secret
    BY <1>2 DEF SignIn
  <2>2. IInv' /\ db' = db
    BY <1>1, <2>1, LogInSound DEF LogIn
  <2> QED
    BY <1>1, <2>1, <2>2 DEF AccountsAreSound, Administered
<1>3. ASSUME NEW t \in tokens, NEW email \in Emails, NEW password \in Passwords,
             NEW role \in Roles, CreateProfile(t, email, password, role)
      PROVE  AccountsAreSound' /\ Administered'
  <2>1. /\ NewAccount(Lower[email], role) /\ Remember(password)
        /\ Lower[email] \in Company /\ password \in Strong
        /\ Lower[Lower[email]] = Lower[email]
    BY <1>3, LowerIsIdempotent DEF CreateProfile, AddAccount, ProfileEmail, PassesRules
  <2> QED
    BY <1>1, <2>1, NewAccountIsSound
<1>4. ASSUME NEW t \in tokens, NEW p \in ProfileIds, DeleteProfile(t, p)
      PROVE  AccountsAreSound' /\ Administered'
  BY <1>1, <1>4, RemovalIsSound
<1>5. ASSUME NEW t \in tokens, NEW h \in HardwareIds, DeleteDevice(t, h)
      PROVE  AccountsAreSound' /\ Administered'
  <2>1. RemoveDevice(t, h) /\ UNCHANGED secret
    BY <1>5 DEF DeleteDevice
  <2>2. IInv' /\ db'.profiles = db.profiles /\ UNCHANGED tokens
    BY <1>1, <2>1, RemoveDeviceSound, RemoveDeviceEffect
  <2> QED
    BY <1>1, <2>1, <2>2, SameAccounts
<1>6. ASSUME NEW t \in tokens, CreateDevice(t)
      PROVE  AccountsAreSound' /\ Administered'
  <2>1. AddDevice(t) /\ UNCHANGED secret
    BY <1>6 DEF CreateDevice
  <2>2. IInv' /\ db'.profiles = db.profiles /\ UNCHANGED tokens
    BY <1>1, <2>1, AddDeviceSound, AddDeviceEffect
  <2> QED
    BY <1>1, <2>1, <2>2, SameAccounts
<1>7. ASSUME NEW t \in tokens, NEW op \in {"mark_repair", "mark_available"},
             NEW h \in HardwareIds, MarkDevice(t, op, h)
      PROVE  AccountsAreSound' /\ Administered'
  <2>1. Mark(t, op, h) /\ UNCHANGED secret
    BY <1>7 DEF MarkDevice
  <2>2. IInv' /\ db'.profiles = db.profiles /\ UNCHANGED tokens
    BY <1>1, <2>1, MarkSound, MarkEffect
  <2> QED
    BY <1>1, <2>1, <2>2, SameAccounts
<1> QED
  BY <1>2, <1>3, <1>4, <1>5, <1>6, <1>7 DEF Request

LEMMA RequestGood ==
  ASSUME BootIInv, Request
  PROVE  BootIInv'
<1>1. phase = "serving" /\ UNCHANGED <<version, phase, env, admins>>
  BY DEF Request
<1>2. MigratingIsOnCourse'
  BY <1>1, SeededBySomeone DEF BootIInv, StartIsOnCourse, MigratingIsOnCourse, Unseeded
<1>3. EnsuringIsOnCourse'
  BY <1>1 DEF BootIInv, StartIsOnCourse, EnsuringIsOnCourse, Ensuring
<1> QED
  BY <1>1, <1>2, <1>3, RequestKeepsAccounts DEF BootIInv, StartIsOnCourse

LEMMA TokenExpiresGood ==
  ASSUME BootIInv, TokenExpires
  PROVE  BootIInv'
<1>1. PICK t \in tokens : Expire({t}) /\ UNCHANGED <<secret, version, phase, env, admins>>
  BY DEF TokenExpires
<1>2. {t} \in SUBSET tokens /\ AccountsAreSound /\ IInv
  BY DEF BootIInv, AccountsAreSound
<1>3. IInv' /\ db' = db /\ tokens' \subseteq tokens
  BY <1>1, <1>2, ExpireSound DEF Expire
<1>4. /\ AccountsAreSound'
      /\ Administered => Administered'
      /\ \A e : EmailTaken(db', e) <=> EmailTaken(db, e)
  BY <1>1, <1>2, <1>3, SameAccounts
<1>5. Blank => Blank'
  BY <1>3 DEF Blank, Live
<1>6. EnsuringIsOnCourse' /\ MigratingIsOnCourse'
  BY <1>1, <1>3, <1>5
     DEF BootIInv, StartIsOnCourse, EnsuringIsOnCourse, MigratingIsOnCourse, Unseeded
<1> QED
  BY <1>1, <1>4, <1>6 DEF BootIInv, StartIsOnCourse

LEMMA BootNextGood ==
  ASSUME BootIInv, [BootNext]_bootVars
  PROVE  BootIInv'
<1>1. ASSUME NEW e \in Environments, Start(e)
      PROVE  BootIInv'
  BY <1>1, StartGood
<1>2. CASE BootStep
  BY <1>2, MigrateGood, MigrationsDoneGood, ValidateAdminsGood, EnsureNextGood,
     AdminsDoneGood, EmbeddingsDoneGood, ServeGood DEF BootStep
<1>3. CASE Die
  BY <1>3, ExitGood DEF Die
<1>4. CASE Request \/ TokenExpires
  BY <1>4, RequestGood, TokenExpiresGood
<1>5. CASE UNCHANGED bootVars
  <2>1. UNCHANGED <<db, tokens, secret>> /\ UNCHANGED <<version, phase, env, admins>>
    BY <1>5 DEF bootVars
  <2>2. /\ AccountsAreSound' /\ (Administered => Administered') /\ (Blank => Blank')
        /\ EnsuringIsOnCourse'
    BY <2>1, QuietKeeps DEF BootIInv, StartIsOnCourse, EnsuringIsOnCourse
  <2>3. MigratingIsOnCourse'
    BY <2>1, <2>2 DEF BootIInv, StartIsOnCourse, MigratingIsOnCourse, Unseeded
  <2> QED
    BY <2>1, <2>2, <2>3 DEF BootIInv, StartIsOnCourse
<1> QED
  BY <1>1, <1>2, <1>3, <1>4, <1>5 DEF BootNext

-----------------------------------------------------------------------------
(* What steps do to accounts. *)

(* Outside serving, accounts are written by EnsureNext only. *)
LEMMA StartsWriteByEnsuring ==
  ASSUME BootIInv, [BootNext]_bootVars, phase # "serving"
  PROVE  EnsureNext \/ (db'.profiles = db.profiles /\ secret' = secret)
<1>1. CASE Migrate
  <2>1. CASE Exit
    BY <2>1 DEF Exit
  <2>2. CASE ~Exit
    BY <1>1, <2>2, MigrateEffect
  <2> QED
    BY <2>1, <2>2
<1>2. CASE TokenExpires
  BY <1>2 DEF TokenExpires, Expire
<1>3. CASE Request
  BY <1>3 DEF Request
<1>4. CASE \/ \E e \in Environments : Start(e)
           \/ MigrationsDone \/ ValidateAdmins \/ AdminsDone \/ EmbeddingsDone
           \/ Serve \/ Die \/ UNCHANGED bootVars
  BY <1>4 DEF Start, MigrationsDone, ValidateAdmins, AdminsDone, EmbeddingsDone, Serve,
              Die, Exit, bootVars
<1> QED
  BY <1>1, <1>2, <1>3, <1>4 DEF BootNext, BootStep

(* Outside serving, devices are written by Migrate only. *)
LEMMA StartsSeedByMigrating ==
  ASSUME BootIInv, [BootNext]_bootVars, phase # "serving"
  PROVE  (Migrate /\ ~Exit) \/ db'.hardware = db.hardware
<1>1. CASE Exit
  BY <1>1 DEF Exit
<1>2. CASE TokenExpires
  BY <1>2 DEF TokenExpires, Expire
<1>3. CASE Request
  BY <1>3 DEF Request
<1>4. CASE EnsureNext
  <2>1. CASE UNCHANGED db
    BY <2>1
  <2>2. CASE EnsureAdmin(Head(admins).email)
    <3>1. PICK n, profile : db' = InsertProfile(db, n, profile)
      BY <2>2 DEF EnsureAdmin, NewAccount
    <3>2. db \in Database
      BY DEF BootIInv, AccountsAreSound, IInv, TypeOK
    <3> QED
      BY <3>1, <3>2 DEF InsertProfile, Database
  <2> QED
    BY <1>4, <2>1, <2>2 DEF EnsureNext
<1>5. CASE \/ \E e \in Environments : Start(e)
           \/ MigrationsDone \/ ValidateAdmins \/ AdminsDone \/ EmbeddingsDone
           \/ Serve \/ Die \/ UNCHANGED bootVars
  BY <1>5 DEF Start, MigrationsDone, ValidateAdmins, AdminsDone, EmbeddingsDone, Serve,
              Die, Exit, bootVars
<1> QED
  BY <1>1, <1>2, <1>3, <1>4, <1>5 DEF BootNext, BootStep

(* A list that passes is right in every entry, and names no mailbox twice. *)
LEMMA ValidListIsRight ==
  ASSUME NEW list \in Seq(Account), ListIsValid(list)
  PROVE  ListIsRight(list)
<1> DEFINE n == Len(list)
           mailboxes == {Lower[list[i].email] : i \in 1 .. n}
<1>1. \A i \in 1 .. n : Lower[list[i].email] \in Company /\ list[i].password \in Strong
  BY DEF ListIsValid, PassesRules, AdminEmail
<1>2. \A i, j \in 1 .. n : Lower[list[i].email] = Lower[list[j].email] => i = j
  BY DEF ListIsValid, AdminEmail
<1>3. Cardinality(mailboxes) = n
  <2> DEFINE f == [i \in 1 .. n |-> Lower[list[i].email]]
  <2>1. f \in Bijection(1 .. n, mailboxes)
    <3>1. f \in [1 .. n -> mailboxes] /\ \A t \in mailboxes : \E i \in 1 .. n : f[i] = t
      OBVIOUS
    <3>2. \A i, j \in 1 .. n : f[i] = f[j] => i = j
      BY <1>2
    <3> HIDE DEF f, mailboxes
    <3> QED
      BY <3>1, <3>2 DEF Bijection, Injection, Surjection, IsInjective
  <2>2. ExistsBijection(1 .. n, mailboxes)
    BY <2>1 DEF ExistsBijection
  <2>3. n \in Nat /\ 1 \in Int /\ n \in Int
    OBVIOUS
  <2>4. IsFiniteSet(1 .. n) /\ Cardinality(1 .. n) = n
    <3>1. IsFiniteSet(1 .. n) /\ Cardinality(1 .. n) = IF 1 > n THEN 0 ELSE n - 1 + 1
      BY <2>3, FS_Interval
    <3> QED
      BY <2>3, <3>1
  <2> HIDE DEF mailboxes, n
  <2> QED
    BY <2>2, <2>4, FS_Bijection
<1> QED
  BY <1>1, <1>3 DEF ListIsRight

-----------------------------------------------------------------------------
(* What is presented to Inventory. *)

(* The schema of Served is the schema of Boot. *)
LEMMA SameSchema ==
  /\ Served!HardwareIds = HardwareIds /\ Served!ProfileIds = ProfileIds
  /\ Served!RentalIds = RentalIds /\ Served!Roles = Roles
  /\ \A table, n : Served!IsNewRowid(table, n) <=> IsNewRowid(table, n)
  /\ \A d, e : Served!EmailTaken(d, e) <=> EmailTaken(d, e)
  /\ \A d, p : Served!RemoveMatches(d, p) <=> RemoveMatches(d, p)
  /\ \A d, h : Served!DeleteHardwareRow(d, h) = DeleteHardwareRow(d, h)
  /\ \A d, n : Served!InsertHardware(d, n) = InsertHardware(d, n)
  /\ \A d, h, status : Served!SetStatus(d, h, status) = SetStatus(d, h, status)
  /\ \A op : Served!MarkFrom(op) = MarkFrom(op) /\ Served!MarkTo(op) = MarkTo(op)
  /\ \A d, p, profile : Served!InsertProfile(d, p, profile) = InsertProfile(d, p, profile)
  /\ \A d, p : Served!DeleteProfileRow(d, p) = DeleteProfileRow(d, p)
BY DEF Served!HardwareIds, HardwareIds, Served!ProfileIds, ProfileIds,
       Served!RentalIds, RentalIds, Served!Roles, Roles,
       Served!IsNewRowid, IsNewRowid, Served!Rows, Rows,
       Served!EmailTaken, EmailTaken, Served!RemoveMatches, RemoveMatches,
       Served!DeleteHardwareRow, DeleteHardwareRow, Served!InsertHardware, InsertHardware,
       Served!SetStatus, SetStatus, Served!MarkFrom, MarkFrom, Served!MarkTo, MarkTo,
       Served!InsertProfile, InsertProfile,
       Served!DeleteProfileRow, DeleteProfileRow

LEMMA PresentedIsStored ==
  ASSUME db \in Database, ~Unseeded
  PROVE  Presented = db
BY DEF Presented, Unseeded, Database

LEMMA NewAccountIsServed ==
  ASSUME Presented = db, Presented' = db', NEW email, NEW role, NewAccount(email, role)
  PROVE  Served!NewAccount(email, role)
BY SameSchema DEF NewAccount, Served!NewAccount

(* Once there is a schema, each change of the database is one of Inventory. *)
LEMMA EnsureNextIsServed ==
  ASSUME BootIInv, EnsureNext, Presented = db, Presented' = db'
  PROVE  [Served!Next]_(Served!vars)
<1> DEFINE a == Head(admins)
<1>1. a.email \in Emails
  <2>1. admins \in Seq(Ensurable) /\ admins # <<>>
    BY DEF BootIInv, StartIsOnCourse, EnsuringIsOnCourse, EnsureNext
  <2>2. a \in Ensurable
    BY <2>1, HeadTailProperties
  <2> QED
    BY <2>2, RulesAreTyped DEF Ensurable
<1>2. CASE EmailTaken(db, a.email)
  BY <1>2 DEF EnsureNext, Served!vars
<1>3. CASE ~EmailTaken(db, a.email)
  <2>1. NewAccount(a.email, AdminRole)
    BY <1>3 DEF EnsureNext, EnsureAdmin
  <2>2. Served!NewAccount(a.email, AdminRole)
    BY <2>1, NewAccountIsServed
  <2>3. Served!EnsureAdmin(a.email)
    BY <2>2 DEF Served!EnsureAdmin, Served!AdminRole, AdminRole
  <2> QED
    BY <1>1, <2>3 DEF Served!Next
<1> QED
  BY <1>2, <1>3

LEMMA RequestIsServed ==
  ASSUME BootIInv, Request, Presented = db, Presented' = db'
  PROVE  Served!Next
<1>1. ASSUME NEW email \in Emails, NEW password \in Passwords, SignIn(email, password)
      PROVE  Served!Next
  <2>1. PICK p \in ProfileIds : LogIn(p)
    BY <1>1 DEF SignIn
  <2>2. Served!LogIn(p)
    BY <2>1 DEF LogIn, Served!LogIn, Live, Served!Live, TokenOf, Served!TokenOf
  <2> QED
    BY <2>2, SameSchema DEF Served!Next
<1>2. ASSUME NEW t \in tokens, NEW email \in Emails, NEW password \in Passwords,
             NEW role \in Roles, CreateProfile(t, email, password, role)
      PROVE  Served!Next
  <2>1. Lower[email] \in Emails
    BY LowerIsIdempotent
  <2>2. t.role = AdminRole /\ NewAccount(Lower[email], role)
    BY <1>2 DEF CreateProfile, AddAccount, ProfileEmail
  <2>3. Served!AddAccount(t, Lower[email], role)
    BY <2>2, NewAccountIsServed DEF Served!AddAccount, Served!AdminRole, AdminRole
  <2> QED
    BY <2>1, <2>3, SameSchema DEF Served!Next
<1>3. ASSUME NEW t \in tokens, NEW p \in ProfileIds, DeleteProfile(t, p)
      PROVE  Served!Next
  <2>1. Served!RemoveAccount(t, p)
    BY <1>3, SameSchema
       DEF DeleteProfile, RemoveAccount, Served!RemoveAccount, CanRemoveAccount,
           Served!CanRemoveAccount, Served!AdminRole, AdminRole
  <2> QED
    BY <2>1, SameSchema DEF Served!Next
<1>4. ASSUME NEW t \in tokens, NEW h \in HardwareIds, DeleteDevice(t, h)
      PROVE  Served!Next
  <2>1. Served!RemoveDevice(t, h)
    BY <1>4, SameSchema
       DEF DeleteDevice, RemoveDevice, Served!RemoveDevice, Served!AdminRole, AdminRole
  <2> QED
    BY <2>1, SameSchema DEF Served!Next
<1>5. ASSUME NEW t \in tokens, CreateDevice(t)
      PROVE  Served!Next
  <2>1. Served!AddDevice(t)
    BY <1>5, SameSchema
       DEF CreateDevice, AddDevice, Served!AddDevice, Served!AdminRole, AdminRole
  <2> QED
    BY <2>1 DEF Served!Next
<1>6. ASSUME NEW t \in tokens, NEW op \in {"mark_repair", "mark_available"},
             NEW h \in HardwareIds, MarkDevice(t, op, h)
      PROVE  Served!Next
  <2>1. Served!Mark(t, op, h)
    BY <1>6, SameSchema
       DEF MarkDevice, Mark, Served!Mark, CanMark, Served!CanMark,
           Served!AdminRole, AdminRole
  <2> QED
    BY <2>1, SameSchema DEF Served!Next
<1> QED
  BY <1>1, <1>2, <1>3, <1>4, <1>5, <1>6 DEF Request

(* With one goose table the second migration is applied once, to an empty   *)
(* table, and what it inserts was presented from the beginning.             *)
LEMMA MigrateIsServed ==
  ASSUME OneTable, BootIInv, Migrate, ~Exit
  PROVE  UNCHANGED <<Presented, tokens>>
<1>1. /\ env \in Environments /\ env.GooseTable \in GooseTables
      /\ MigratingIsOnCourse /\ db \in Database /\ phase = "migrate"
  BY RulesAreTyped
     DEF Migrate, BootIInv, StartIsOnCourse, Environment, AccountsAreSound, IInv, TypeOK
<1>2. \A t \in GooseTables : t # env.GooseTable => version[t] = 0
  BY <1>1 DEF OneTable, MigratingIsOnCourse, Migrations
<1>3. /\ UNCHANGED tokens
      /\ version' = [version EXCEPT ![env.GooseTable] = @ + 1]
      /\ db' = IF version[env.GooseTable] = 1
                 THEN [db EXCEPT !.hardware = Seeded(@)] ELSE db
  BY DEF Migrate
<1>4. CASE version[env.GooseTable] = 1
  <2>1. Unseeded /\ Blank
    BY <1>1, <1>2, <1>4 DEF Unseeded, MigratingIsOnCourse
  <2>2. ~Unseeded'
    BY <1>1, <1>3, <1>4 DEF Unseeded, MigratingIsOnCourse
  <2>3. Seeded(db.hardware) = Seed
    BY <2>1, SeedIsIdle DEF Seeded, Blank
  <2>4. db'.hardware = Seed /\ db'.profiles = db.profiles /\ db'.rentals = db.rentals
    BY <1>1, <1>3, <1>4, <2>3 DEF Database
  <2> QED
    BY <1>3, <2>1, <2>2, <2>4 DEF Presented, Unseeded
<1>5. CASE version[env.GooseTable] # 1
  <2>1. db' = db
    BY <1>3, <1>5
  <2>2. Unseeded' <=> Unseeded
    BY <1>1, <1>2, <1>3, <1>5 DEF Unseeded, MigratingIsOnCourse, Migrations
  <2> QED
    BY <1>3, <2>1, <2>2 DEF Presented, Unseeded
<1> QED
  BY <1>4, <1>5

LEMMA BootStepIsServed ==
  ASSUME OneTable, BootIInv, [BootNext]_bootVars
  PROVE  [Served!Next]_(Served!vars)
<1>1. db \in Database /\ db' \in Database
  BY BootNextGood DEF BootIInv, AccountsAreSound, IInv, TypeOK
<1>2. CASE EnsureNext \/ Request
  <2>1. version' = version /\ ~Unseeded
    BY <1>2, SeededBySomeone DEF EnsureNext, Request, Ensuring
  <2>2. Presented = db /\ Presented' = db'
    BY <1>1, <2>1, PresentedIsStored DEF Presented, Unseeded, Database
  <2> QED
    BY <1>2, <2>2, EnsureNextIsServed, RequestIsServed
<1>3. CASE TokenExpires
  <2>1. PICK t \in tokens : Expire({t}) /\ UNCHANGED version
    BY <1>3 DEF TokenExpires
  <2>2. Presented' = Presented
    BY <2>1 DEF Expire, Presented
  <2>3. Served!Expire({t})
    BY <2>1, <2>2 DEF Expire, Served!Expire
  <2>4. {t} \in SUBSET tokens
    OBVIOUS
  <2> QED
    BY <2>3, <2>4 DEF Served!Next
<1>4. CASE Migrate /\ ~Exit
  BY <1>4, MigrateIsServed DEF Served!vars
<1>5. CASE \/ Exit \/ \E e \in Environments : Start(e)
           \/ MigrationsDone \/ ValidateAdmins \/ AdminsDone \/ EmbeddingsDone
           \/ Serve \/ Die \/ UNCHANGED bootVars
  <2>1. UNCHANGED <<db, tokens, version>>
    BY <1>5 DEF Start, MigrationsDone, ValidateAdmins, AdminsDone, EmbeddingsDone, Serve,
                Die, Exit, bootVars
  <2>2. Presented' = Presented
    BY <2>1 DEF Presented
  <2> QED
    BY <2>1, <2>2 DEF Served!vars
<1> QED
  BY <1>2, <1>3, <1>4, <1>5 DEF BootNext, BootStep

LEMMA BootInitIsServed ==
  ASSUME BootInit
  PROVE  Served!Init
<1>1. Presented = [hardware |-> Seed, profiles |-> [p \in ProfileIds |-> None],
                   rentals |-> [k \in RentalIds |-> None]]
  <2>1. \A t \in GooseTables : version[t] < 2
    BY DEF BootInit
  <2> QED
    BY <2>1 DEF BootInit, Presented
<1>2. \A p \in ProfileIds : ~(p <= Len(<<>>))
  BY BoundsAreNaturals DEF ProfileIds
<1>3. Served!InitialDatabase =
        [hardware |-> Seed, profiles |-> [p \in ProfileIds |-> None],
         rentals |-> [k \in RentalIds |-> None]]
  BY <1>2, SameSchema DEF Served!InitialDatabase
<1> QED
  BY <1>1, <1>3 DEF Served!Init, BootInit

-----------------------------------------------------------------------------
(* The specification. *)

(* The inductive invariant of the process. *)
THEOREM BootInvariance == BootSpec => []BootIInv
<1>1. BootInit => BootIInv
  BY BootInitGood
<1>2. BootIInv /\ [BootNext]_bootVars => BootIInv'
  BY BootNextGood
<1> QED
  BY <1>1, <1>2, PTL DEF BootSpec

(* Every variable keeps its shape, and every account the address and the    *)
(* password that the rules accept.                                          *)
THEOREM BootTypeCorrect == BootSpec => []BootTypeOK
<1>1. BootIInv => BootTypeOK
  <2> SUFFICES ASSUME BootIInv PROVE BootTypeOK
    OBVIOUS
  <2>1. admins \in Seq([email : Company, password : Strong])
    <3>1. admins \in Seq(Ensurable) /\ Ensurable \subseteq [email : Company, password : Strong]
      BY DEF BootIInv, StartIsOnCourse, EnsuringIsOnCourse, Ensurable
    <3> QED
      BY <3>1, SeqMonotonic, Zenon
  <2> QED
    BY <2>1 DEF BootIInv, AccountsAreSound, StartIsOnCourse, MigratingIsOnCourse,
                Ensuring, BootTypeOK, IInv
<1> QED
  BY <1>1, BootInvariance, PTL

(* However often it is restarted and whoever removes whom, a server that    *)
(* serves has an administrator.                                             *)
THEOREM SomebodyAlwaysAdministers == BootSpec => []SomebodyAdministers
<1>1. BootIInv => SomebodyAdministers
  BY DEF BootIInv, StartIsOnCourse, Administered, SomebodyAdministers
<1> QED
  BY <1>1, BootInvariance, PTL

(* A token outlives the process that signed it: an administrator's still    *)
(* speaks for the account it was issued for, whatever starts and removals   *)
(* came in between.                                                         *)
THEOREM TokensOutliveRestarts == BootSpec => []AdminTokensNameTheirAccount
<1>1. BootIInv => AdminTokensNameTheirAccount
  BY DEF BootIInv, AccountsAreSound, IInv
<1> QED
  BY <1>1, BootInvariance, PTL

(* A mailbox has one account and every spelling of its address finds it. *)
THEOREM MailboxesStayReachable == BootSpec => []MailboxesAreReachable
<1>1. BootIInv => MailboxesAreReachable
  BY DEF BootIInv, AccountsAreSound, MailboxesAreReachable, LogInEmail
<1> QED
  BY <1>1, BootInvariance, PTL

(* A start writes accounts for a list that is right in every entry only. *)
THEOREM BadListsWriteNothing == BootSpec => BadListWritesNothing
<1>1. BootIInv /\ [BootNext]_bootVars =>
        [phase # "serving" /\ db'.profiles # db.profiles
           => ListIsRight(env.Admins)]_bootVars
  <2> SUFFICES ASSUME BootIInv, [BootNext]_bootVars, phase # "serving",
                      db'.profiles # db.profiles
               PROVE  ListIsRight(env.Admins)
    OBVIOUS
  <2>1. phase = "admins"
    BY StartsWriteByEnsuring DEF EnsureNext
  <2>2. ListIsValid(env.Admins) /\ env \in Environments
    BY <2>1 DEF BootIInv, StartIsOnCourse, EnsuringIsOnCourse, Ensuring
  <2>3. env.Admins \in Seq(Account)
    BY <2>2, RulesAreTyped DEF Environment
  <2> QED
    BY <2>2, <2>3, ValidListIsRight
<1> QED
  BY <1>1, BootInvariance, PTL DEF BootSpec, BadListWritesNothing

(* A start never touches an account that is there. *)
THEOREM StartsKeepAccounts == BootSpec => StartKeepsAccounts
<1>1. BootIInv /\ [BootNext]_bootVars =>
        [phase # "serving" =>
           \A p \in ProfileIds : Live(db, p) =>
             db'.profiles[p] = db.profiles[p] /\ secret'[p] = secret[p]]_bootVars
  BY StartsWriteByEnsuring, EnsureNextGood
<1> QED
  BY <1>1, BootInvariance, PTL DEF BootSpec, StartKeepsAccounts

(* A start never touches a device that is there, whichever goose table it   *)
(* migrates by.                                                             *)
THEOREM StartsKeepDevices == BootSpec => StartKeepsDevices
<1>1. BootIInv /\ [BootNext]_bootVars =>
        [phase # "serving" =>
           \A h \in HardwareIds :
             db.hardware[h] # None => db'.hardware[h] = db.hardware[h]]_bootVars
  BY StartsSeedByMigrating, MigrateEffect
<1> QED
  BY <1>1, BootInvariance, PTL DEF BootSpec, StartKeepsDevices

(* A server that begins to serve has an account for every listed mailbox. *)
THEOREM ListedGetAccounts == BootSpec => ListedHaveAccounts
<1>1. BootIInv /\ [BootNext]_bootVars =>
        [phase # "serving" /\ phase' = "serving" =>
           \A i \in 1 .. Len(env.Admins) :
             EmailTaken(db, Lower[env.Admins[i].email])]_bootVars
  <2> SUFFICES ASSUME BootIInv, [BootNext]_bootVars, phase # "serving", phase' = "serving"
               PROVE  \A i \in 1 .. Len(env.Admins) :
                        EmailTaken(db, Lower[env.Admins[i].email])
    OBVIOUS
  <2>1. Serve
    BY DEF BootNext, BootStep, Start, Migrate, MigrationsDone, ValidateAdmins, EnsureNext,
           AdminsDone, EmbeddingsDone, Die, Exit, Request, TokenExpires, bootVars
  <2>2. phase \in Ensuring /\ admins = <<>>
    BY <2>1 DEF Serve, Ensuring, BootIInv, StartIsOnCourse, EnsuringIsOnCourse
  <2> QED
    BY <2>2, AllAreEnsured DEF AdminEmail
<1> QED
  BY <1>1, BootInvariance, PTL DEF BootSpec, ListedHaveAccounts

(* Starts, crashes and restarts with one goose table do nothing that        *)
(* Inventory does not allow.                                                *)
THEOREM BootImplements ==
  ASSUME OneTable
  PROVE  BootSpec => BootImplementsInventory
<1>1. BootInit => Served!Init
  BY BootInitIsServed
<1>2. BootIInv /\ [BootNext]_bootVars => [Served!Next]_(Served!vars)
  BY OneTable, BootStepIsServed
<1> QED
  BY <1>1, <1>2, BootInvariance, PTL
     DEF BootSpec, BootImplementsInventory, Served!Spec
=============================================================================
