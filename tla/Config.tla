------------------------------- MODULE Config -------------------------------
(***************************************************************************)
(* Config::loadFromFile (utils/Config.cpp): the settings are taken over    *)
(* one by one, in the order of the code, until one of them makes the       *)
(* loading fail or the end is reached.  The values are left out.           *)
(***************************************************************************)
EXTENDS Naturals, Sequences, FiniteSets

(* The settings, in the order in which the parsers take them. *)
Order ==
  << <<"database", "host">>, <<"database", "port">>, <<"database", "user">>,
     <<"database", "password">>, <<"database", "dbname">>,
     <<"database", "connection_pool_size">>, <<"database", "connection_timeout">>,
     <<"server", "host">>, <<"server", "port">>, <<"server", "threads">>,
     <<"server", "request_timeout">>,
     <<"jwt", "secret">>, <<"jwt", "expire_time">>, <<"jwt", "issuer">>,
     <<"log", "level">>, <<"log", "path">>,
     <<"verify_service", "smtp_server_url">>, <<"verify_service", "smtp_user">>,
     <<"verify_service", "smtp_password">>,
     <<"verify_service", "verification_code_expiry">>,
     <<"verify_service", "email_from">> >>

Sections == {"database", "server", "jwt", "log", "verify_service"}
Required == Sections \ {"verify_service"}
SettingsOf(sections) == {Order[n] : n \in {m \in DOMAIN Order : Order[m][1] \in sections}}

(* A file: whether it can be opened and is JSON, the sections it has, and  *)
(* the settings that are there with a value of their type.  Bound: at most *)
(* one section and one setting are wrong.                                  *)
Files ==
  [json : BOOLEAN,
   sections : {S \in SUBSET Sections : Cardinality(Sections \ S) <= 1},
   settings : {SettingsOf(Sections)} \cup
              {SettingsOf(Sections) \ {x} : x \in SettingsOf(Sections)}]

NoFile == [json |-> FALSE, sections |-> {}, settings |-> {}]

Present(file, n) == n \in DOMAIN Order /\ Order[n][1] \in file.sections

(* Setting n is assigned to its member. *)
Takes(file, n) == file.json /\ Present(file, n) /\ Order[n] \in file.settings

(* Mutant: no section has to be there. *)
SectionsOptional(file, n) == file.json /\ ~Present(file, n)

(* loadFromFile returns true: every section is done, or the one that may   *)
(* be left out is.                                                         *)
Loaded(file, n) ==
  /\ file.json
  /\ n \in DOMAIN Order => Order[n][1] = "verify_service" /\ ~Present(file, n)

(* It returns false: the file cannot be read, a section is not there, or   *)
(* setting n is missing or has another type, and its parser throws.        *)
Refuses(file, n) ==
  \/ ~file.json
  \/ n \in DOMAIN Order /\ Order[n][1] \in Required /\ ~Present(file, n)
  \/ Present(file, n) /\ Order[n] \notin file.settings
=============================================================================
