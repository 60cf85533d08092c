------------------------------- MODULE Startup -------------------------------
(***************************************************************************)
(* main up to the gRPC server: Settings::from_source reads the environment *)
(* key by key and stops at the first error, the Drive client is built, the *)
(* server listens.                                                         *)
(*                                                                         *)
(* A value is unset, a number, another text, or bytes that are not         *)
(* Unicode; of a listen address and of the Drive credentials it only       *)
(* matters whether they can be parsed, and "number 0" stands for one that  *)
(* can.                                                                    *)
(***************************************************************************)
EXTENDS Integers, Sequences

CONSTANTS
    Ports, Levels, Counts, Seconds,  \* the numbers tried for each key
    Garbled                          \* the keys that may be set to no Unicode

ASSUME NumbersAssumption == Ports \cup Levels \cup Counts \cup Seconds \subseteq Int

VARIABLES
    env,       \* the environment: a value for each key
    next,      \* the key from_source is about to read
    settings,  \* the numbers read so far
    stage,     \* "read", "connect", "listen", "serving", "failed"
    error      \* the key an error is about, "drive", "listen" or "none"

startVars == <<env, next, settings, stage, error>>

Unset == [type |-> "unset", n |-> 0]

NotUnicode == [type |-> "not_unicode", n |-> 0]

Text == [type |-> "text", n |-> 0]

Number(n) == [type |-> "number", n |-> n]

\* The keys in the order from_source reads them.
Keys ==
    <<"DB_HOST", "DB_PORT", "DB_USERNAME", "DB_PASSWORD", "DB_NAME", "COMPRESSION_LEVEL",
      "DRIVE_RETENTION_COUNT", "PG_TIMEOUT_SECS", "LISTEN_ADDR", "DRIVE_CREDS",
      "DRIVE_FOLDER_ID">>

Required ==
    {"DB_HOST", "DB_USERNAME", "DB_PASSWORD", "DB_NAME", "DRIVE_CREDS", "DRIVE_FOLDER_ID"}

U16 == 0..65535

\* The constants of settings.rs and level.rs.
DefaultDbPort == 5432

DefaultLevel == 3

DefaultPgTimeoutSecs == 3600

\* What holds for the keys that are not set; retention None is 0.
Defaults ==
    [port |-> DefaultDbPort, level |-> DefaultLevel,
     retention |-> 0, timeout |-> DefaultPgTimeoutSecs]

Field ==
    [k \in {"DB_PORT", "COMPRESSION_LEVEL", "DRIVE_RETENTION_COUNT", "PG_TIMEOUT_SECS"} |->
       CASE k = "DB_PORT" -> "port"
         [] k = "COMPRESSION_LEVEL" -> "level"
         [] k = "DRIVE_RETENTION_COUNT" -> "retention"
         [] OTHER -> "timeout"]

----------------------------------------------------------------------------
\* Mutant: the level is cast to u8 instead of converted.
ZstdLevelCast(n) == n % 256 \in 1..22

\* ZstdLevel::new accepts n.
ZstdLevel(n) == n \in 0..255 /\ n \in 1..22

\* The number n parses as the type of the key and passes its check.
Accepts(key, n) ==
    CASE key = "DB_PORT" -> n \in U16
      [] key = "COMPRESSION_LEVEL" -> ZstdLevel(n)
      [] key \in {"DRIVE_RETENTION_COUNT", "PG_TIMEOUT_SECS"} -> n >= 0 /\ n # 0
      [] OTHER -> TRUE

\* from_env, env::var(key).ok(): a value that is not Unicode looks unset.
Get(value) == IF value.type = "not_unicode" THEN Unset ELSE value

\* What from_source does with a key: required, or an optional one with a
\* default.
Good(key, value) ==
    IF key \in Required THEN value.type # "unset"
    ELSE value.type = "unset" \/ (value.type = "number" /\ Accepts(key, value.n))

\* Mutant: a bad value is replaced by the default.
ReadKeyLenient ==
    /\ stage = "read"
    /\ LET key == Keys[next]
           value == Get(env[key])
       IN  \/ /\ Good(key, value) \/ key \notin Required
              /\ settings' = IF key \in DOMAIN Field /\ value.type = "number" /\ Good(key, value)
                             THEN [settings EXCEPT ![Field[key]] = value.n] ELSE settings
              /\ next' = next + 1
              /\ stage' = IF next = Len(Keys) THEN "connect" ELSE "read"
              /\ UNCHANGED error
           \/ /\ ~Good(key, value) /\ key \in Required
              /\ stage' = "failed" /\ error' = key
              /\ UNCHANGED <<next, settings>>
    /\ UNCHANGED env

ReadKey ==
    /\ stage = "read"
    /\ LET key == Keys[next]
           value == Get(env[key])
       IN  \/ /\ Good(key, value)
              /\ settings' = IF key \in DOMAIN Field /\ value.type = "number"
                             THEN [settings EXCEPT ![Field[key]] = value.n] ELSE settings
              /\ next' = next + 1
              /\ stage' = IF next = Len(Keys) THEN "connect" ELSE "read"
              /\ UNCHANGED error
           \/ /\ ~Good(key, value)
              /\ stage' = "failed" /\ error' = key
              /\ UNCHANGED <<next, settings>>
    /\ UNCHANGED env

\* The outcomes of build_hub: the credentials must parse, and the connectors
\* and the authenticator can still fail.  No request is made yet.
BuildHub ==
    IF env["DRIVE_CREDS"].type = "number" THEN {"Ok", "error"} ELSE {"error"}

\* GoogleDriveStorage::connect.
ConnectDrive ==
    /\ stage = "connect"
    /\ \/ "Ok" \in BuildHub /\ stage' = "listen" /\ UNCHANGED error
       \/ "error" \in BuildHub /\ stage' = "failed" /\ error' = "drive"
    /\ UNCHANGED <<env, next, settings>>

\* serve_with_shutdown binds the address.
Listen ==
    /\ stage = "listen"
    /\ \/ stage' = "serving" /\ UNCHANGED error
       \/ stage' = "failed" /\ error' = "listen"
    /\ UNCHANGED <<env, next, settings>>

----------------------------------------------------------------------------
Values(key, numbers) ==
    {Unset, Text} \cup {Number(n) : n \in numbers}
    \cup (IF key \in Garbled THEN {NotUnicode} ELSE {})

StartInit ==
    /\ env \in [DB_HOST : Values("DB_HOST", {}), DB_PORT : Values("DB_PORT", Ports),
                DB_USERNAME : Values("DB_USERNAME", {}), DB_PASSWORD : Values("DB_PASSWORD", {}),
                DB_NAME : Values("DB_NAME", {}),
                COMPRESSION_LEVEL : Values("COMPRESSION_LEVEL", Levels),
                DRIVE_RETENTION_COUNT : Values("DRIVE_RETENTION_COUNT", Counts),
                PG_TIMEOUT_SECS : Values("PG_TIMEOUT_SECS", Seconds),
                LISTEN_ADDR : Values("LISTEN_ADDR", {0}),
                DRIVE_CREDS : Values("DRIVE_CREDS", {0}),
                DRIVE_FOLDER_ID : Values("DRIVE_FOLDER_ID", {})]
    /\ next = 1 /\ settings = Defaults /\ stage = "read" /\ error = "none"

Up == stage \in {"serving", "failed"} /\ UNCHANGED startVars

StartNext == ReadKey \/ ConnectDrive \/ Listen \/ Up

StartSpec == StartInit /\ [][StartNext]_startVars

----------------------------------------------------------------------------
\* The key is set to text that from_env can hand over.
Given(k) == env[k].type \notin {"unset", "not_unicode"}

\* What the other modules take for granted holds of every server that gets
\* as far as its Drive client: the port and the zstd level are in range, it
\* keeps at least one backup if it prunes at all, and pg_dump, pg_restore and
\* psql have time to run.
SettingsUsable ==
    stage \in {"connect", "listen", "serving"} =>
      /\ settings.port \in U16 /\ settings.level \in 1..22
      /\ Given("DRIVE_RETENTION_COUNT") => settings.retention >= 1
      /\ settings.timeout >= 1

\* A key that is set to Unicode text is the value in use, or the server does
\* not start: no such value is dropped for a default.  A key that is unset
\* has its default, and so has one whose value is not Unicode; a required key
\* of either kind stops the start.
SettingsAsGiven ==
    stage \in {"connect", "listen", "serving"} =>
      /\ \A k \in Required : Given(k)
      /\ \A k \in DOMAIN Field :
           IF Given(k) THEN env[k] = Number(settings[Field[k]])
           ELSE settings[Field[k]] = Defaults[Field[k]]
=============================================================================
