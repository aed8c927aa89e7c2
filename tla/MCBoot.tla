------------------------------- MODULE MCBoot -------------------------------
(* Boot with three mailboxes of the company, one of them in two spellings,  *)
(* an address of another company, and one seeded device.                    *)
EXTENDS Boot

CONSTANTS root, ROOT, ann, bob, stranger, good, better, weak, goose_migrations, goose

MCEmails == {root, ROOT, ann, bob, stranger}
MCLower == [e \in MCEmails |-> IF e = ROOT THEN root ELSE e]
MCCompany == {root, ROOT, ann, bob}
MCPasswords == {good, better, weak}
MCStrong == {good, better}
NoAdmins == <<>>
MCSeed == [h \in HardwareIds |-> IF h = 1 THEN "available" ELSE None]

Entry(email, password) == [email |-> email, password |-> password]
Sound == [Env |-> "production", Port |-> TRUE, DatabaseUrl |-> 1, JWTSecret |-> 32,
          JWTTTL |-> 1, CORSOrigins |-> [number |-> 1, accepted |-> TRUE],
          OpenAIEmbeddingsModel |-> 1, EmbeddingsModelDim |-> 512, SearchTopK |-> 5,
          RateLimitRPS |-> 15, GooseTable |-> goose_migrations,
          Admins |-> <<Entry(ROOT, good)>>]
Lists == {<<Entry(ROOT, good)>>,
          <<Entry(ann, good), Entry(root, better)>>,
          <<Entry(bob, better), Entry(ann, better), Entry(root, good)>>,
          <<Entry(root, good), Entry(ROOT, better)>>,
          <<Entry(root, good), Entry(ann, weak)>>,
          <<Entry(ann, good), Entry(stranger, good)>>}
Unsound == {[Sound EXCEPT !.Env = "staging"], [Sound EXCEPT !.JWTSecret = 31],
            [Sound EXCEPT !.DatabaseUrl = 0], [Sound EXCEPT !.JWTTTL = 0],
            [Sound EXCEPT !.OpenAIEmbeddingsModel = 0], [Sound EXCEPT !.CORSOrigins.number = 0],
            [Sound EXCEPT !.EmbeddingsModelDim = 0], [Sound EXCEPT !.SearchTopK = 0],
            [Sound EXCEPT !.RateLimitRPS = 0], [Sound EXCEPT !.Admins = <<>>]}
(* Refused when the administrators have been written. *)
Malformed == [Sound EXCEPT !.CORSOrigins.accepted = FALSE]

(* As Malformed, but for its port or because development does not look. *)
OneTableEnvironments ==
  {[Sound EXCEPT !.Admins = list] : list \in Lists} \cup Unsound \cup
  {Malformed, [Malformed EXCEPT !.Env = "development"], [Sound EXCEPT !.Port = FALSE]}

TwoTables == {goose_migrations, goose}
TwoTableEnvironments ==
  {[Sound EXCEPT !.Admins = list] : list \in Lists} \cup Unsound \cup
  {Malformed, [Sound EXCEPT !.GooseTable = goose]}
=============================================================================
