------------------------------- MODULE PgTools -------------------------------
(***************************************************************************)
(* PgTools: pg_dump, pg_restore and psql as child processes with a time    *)
(* limit, down to the sessions these have with the PostgreSQL server.      *)
(*                                                                         *)
(* A child that is killed, by us or by somebody else, or that is cut off   *)
(* from the server leaves its session behind: the server notices some time *)
(* later, and meanwhile carries out what it was sent, a COMMIT included.   *)
(* The database is a set of objects; the n-th call, when it is a restore,  *)
(* gives them the content n.                                               *)
(*                                                                         *)
(* dump and restore run one at a time (write_lock); ping runs beside them  *)
(* but touches nothing they do, so that one call at a time is enough.      *)
(***************************************************************************)
EXTENDS Naturals, FiniteSets

CONSTANTS
    Objects,   \* the objects of the database
    MaxCalls   \* bound of the model

ASSUME PgAssumption == IsFiniteSet(Objects) /\ Objects # {} /\ MaxCalls \in Nat

VARIABLES
    calls,     \* calls made
    cmd,       \* the command of the current call
    child,     \* its process: "none", "running", "success", "failure"
    stdout,    \* what psql printed: "none", "1", "other"
    session,   \* the child's session with the server
    orphans,   \* the sessions whose child was killed or cut off
    db,        \* the committed content of each object
    dump,      \* the dump file: the content of each object, or Missing
    snapshot,  \* what pg_dump sees
    result,    \* what the last call returned
    last,      \* history: the program of the last call
    aborted    \* history: restores that ended before they sent COMMIT

vars == <<calls, cmd, child, stdout, session, orphans, db, dump, snapshot, result, last, aborted>>

----------------------------------------------------------------------------
\* A command: the program and its flags; the connection is the same for all.
Command(program, flags) == [program |-> program, flags |-> flags]

DumpCommand ==
    Command("pg_dump", {"--format=custom", "--no-owner", "--no-privileges"})

\* Mutant: without --single-transaction.
RestoreCommandAutocommit ==
    Command("pg_restore", {"--clean", "--if-exists", "--no-owner", "--no-privileges",
                           "--exit-on-error"})

RestoreCommand ==
    Command("pg_restore", {"--clean", "--if-exists", "--no-owner", "--no-privileges",
                           "--single-transaction", "--exit-on-error"})

QueryCommand ==
    Command("psql", {"--no-psqlrc", "--tuples-only", "--no-align", "--set=ON_ERROR_STOP=1"})

NoCommand == Command("none", {})

Commands == {DumpCommand, RestoreCommand, QueryCommand}

\* Mutant: the raw output gets out of ping.
OutcomeRaw(program, exit, out) ==
    CASE exit = "failure" -> "Process"
      [] exit = "success" /\ program = "psql" -> out
      [] OTHER -> "Ok"

\* Mutant: what SELECT 1 printed is not compared.
OutcomeUncompared(program, exit, out) ==
    CASE exit = "failure" -> "Process"
      [] OTHER -> "Ok"

\* Mutant: the exit status of pg_restore is taken for warnings.
OutcomeRestoreLenient(program, exit, out) ==
    CASE exit = "failure" /\ program # "pg_restore" -> "Process"
      [] exit = "success" /\ program = "psql" /\ out # "1" -> "FailedPrecondition"
      [] OTHER -> "Ok"

\* Mutant: the exit status of pg_dump is not looked at.
OutcomeDumpLenient(program, exit, out) ==
    CASE exit = "failure" /\ program # "pg_dump" -> "Process"
      [] exit = "success" /\ program = "psql" /\ out # "1" -> "FailedPrecondition"
      [] OTHER -> "Ok"

\* execute, and ping behind it, on the output of a finished child.
Outcome(program, exit, out) ==
    CASE exit = "failure" -> "Process"
      [] exit = "success" /\ program = "psql" /\ out # "1" -> "FailedPrecondition"
      [] OTHER -> "Ok"

----------------------------------------------------------------------------
Missing == MaxCalls + 1

\* done: the objects the session has replaced; commit: COMMIT has been sent;
\* alive: its client runs.
NoSession == [open |-> FALSE, done |-> {}, commit |-> FALSE, alive |-> FALSE, content |-> 0]

Idle == cmd = NoCommand

\* A session that has changed an object holds it locked until it ends.
Locked(o) == \E s \in orphans : o \in s.done

SingleTransaction == "--single-transaction" \in cmd.flags

\* The call is over; its session is left to the server if the child did not
\* close it.
EndCall(outcome) ==
    /\ cmd' = NoCommand /\ child' = "none"
    /\ result' = outcome
    /\ last' = cmd.program
    /\ UNCHANGED <<calls, stdout, db, dump, snapshot>>

\* dump, restore, ping: the child is spawned.
Execute(c) ==
    /\ Idle /\ calls < MaxCalls
    /\ calls' = calls + 1
    /\ cmd' = c /\ child' = "running" /\ stdout' = "none"
    /\ session' = NoSession
    /\ dump' = IF c = DumpCommand THEN [o \in Objects |-> Missing] ELSE dump
    /\ result' = "none"
    /\ UNCHANGED <<orphans, db, snapshot, last, aborted>>

\* The child has exited and run has its output.
Finish ==
    /\ ~Idle /\ child \in {"success", "failure"}
    /\ EndCall(Outcome(cmd.program, child, stdout))
    /\ session' = NoSession
    /\ aborted' = IF cmd.program = "pg_restore" /\ ~session.commit
                  THEN aborted \cup {calls} ELSE aborted
    /\ UNCHANGED orphans

\* Mutant: without kill_on_drop.
AbandonAlive(outcome) ==
    /\ ~Idle
    /\ EndCall(outcome)
    /\ orphans' = IF session.open THEN orphans \cup {session} ELSE orphans
    /\ session' = NoSession
    /\ aborted' = IF cmd.program = "pg_restore" /\ ~session.commit
                  THEN aborted \cup {calls} ELSE aborted

\* The future of run is dropped, after the time limit ("Timeout") or because
\* the caller went away ("dropped"), or output() itself fails ("Io"): a child
\* that runs is killed.
Abandon(outcome) ==
    /\ ~Idle
    /\ EndCall(outcome)
    /\ orphans' = IF session.open THEN orphans \cup {[session EXCEPT !.alive = FALSE]}
                  ELSE orphans
    /\ session' = NoSession
    /\ aborted' = IF cmd.program = "pg_restore" /\ ~session.commit
                  THEN aborted \cup {calls} ELSE aborted

\* Mutant: no time limit.
TimeoutNever == FALSE /\ Abandon("Timeout")

Timeout == Abandon("Timeout")

\* The program cannot be started, or its output cannot be read to the end.
RunFails == Abandon("Io")

----------------------------------------------------------------------------
\* The programs.  None of their steps is certain to come: a child may hang.
local == <<calls, cmd, result, last, aborted>>

Exits(status) == child' = status

\* The child connects; pg_dump sees what is committed at this moment.
Connect ==
    /\ child = "running" /\ ~session.open
    /\ session' = [NoSession EXCEPT !.open = TRUE, !.alive = TRUE, !.content = calls]
    /\ snapshot' = db
    /\ UNCHANGED <<local, child, stdout, orphans, db, dump>>

\* The child gives up, connected or not: the server rolls back.
ChildFails ==
    /\ child = "running" /\ ~session.commit
    /\ Exits("failure")
    /\ session' = [session EXCEPT !.open = FALSE]
    /\ UNCHANGED <<local, stdout, orphans, db, dump, snapshot>>

DumpObject(o) ==
    /\ child = "running" /\ session.open /\ cmd.program = "pg_dump"
    /\ dump[o] = Missing
    /\ dump' = [dump EXCEPT ![o] = snapshot[o]]
    /\ UNCHANGED <<local, child, stdout, session, orphans, db, snapshot>>

DumpEnds ==
    /\ child = "running" /\ session.open /\ cmd.program = "pg_dump"
    /\ \A o \in Objects : dump[o] # Missing
    /\ Exits("success")
    /\ session' = [session EXCEPT !.open = FALSE]
    /\ UNCHANGED <<local, stdout, orphans, db, dump, snapshot>>

Query ==
    /\ child = "running" /\ session.open /\ cmd.program = "psql"
    /\ stdout' \in {"1", "other"}
    /\ Exits("success")
    /\ session' = [session EXCEPT !.open = FALSE]
    /\ UNCHANGED <<local, orphans, db, dump, snapshot>>

\* pg_restore drops and creates an object; alone, each statement is a
\* transaction of its own.
RestoreObject(o) ==
    /\ child = "running" /\ session.open /\ cmd.program = "pg_restore"
    /\ o \notin session.done /\ ~Locked(o)
    /\ session' = [session EXCEPT !.done = @ \cup {o}]
    /\ db' = IF SingleTransaction THEN db ELSE [db EXCEPT ![o] = session.content]
    /\ UNCHANGED <<local, child, stdout, orphans, dump, snapshot>>

SendCommit ==
    /\ child = "running" /\ session.open /\ cmd.program = "pg_restore"
    /\ session.done = Objects /\ ~session.commit
    /\ session' = [session EXCEPT !.commit = TRUE]
    /\ UNCHANGED <<local, child, stdout, orphans, db, dump, snapshot>>

\* The server commits and says so; the answer may be lost.
Commit ==
    /\ child = "running" /\ session.open /\ session.commit
    /\ db' = [o \in Objects |-> session.content]
    /\ \E status \in {"success", "failure"} : Exits(status)
    /\ session' = [session EXCEPT !.open = FALSE]
    /\ UNCHANGED <<local, stdout, orphans, dump, snapshot>>

\* The server answers COMMIT with an error.
CommitFails ==
    /\ child = "running" /\ session.open /\ session.commit
    /\ Exits("failure")
    /\ session' = [session EXCEPT !.open = FALSE]
    /\ UNCHANGED <<local, stdout, orphans, db, dump, snapshot>>

\* The child is killed from outside, or its connection breaks, with or without
\* COMMIT sent: it exits with a failure, and its session stays.
ChildLost ==
    /\ child = "running" /\ session.open
    /\ Exits("failure")
    /\ orphans' = orphans \cup {[session EXCEPT !.alive = FALSE]}
    /\ session' = [NoSession EXCEPT !.commit = session.commit]
    /\ UNCHANGED <<local, stdout, db, dump, snapshot>>

\* A session whose client is gone: it is rolled back, or commits if it was
\* told to.  A client that was left running would finish its work.
OrphanEnds ==
    /\ \E s \in orphans :
         /\ orphans' = orphans \ {s}
         /\ \/ UNCHANGED db
            \/ /\ s.commit \/ (s.alive /\ s.done # {})
               /\ db' = [o \in Objects |-> s.content]
    /\ UNCHANGED <<local, child, stdout, session, dump, snapshot>>

----------------------------------------------------------------------------
Init ==
    /\ calls = 0 /\ cmd = NoCommand /\ child = "none" /\ stdout = "none"
    /\ session = NoSession /\ orphans = {}
    /\ db = [o \in Objects |-> 0]
    /\ dump = [o \in Objects |-> Missing] /\ snapshot = db
    /\ result = "none" /\ last = "none" /\ aborted = {}

ChildStep ==
    \/ Connect \/ ChildFails
    \/ \E o \in Objects : DumpObject(o) \/ RestoreObject(o)
    \/ DumpEnds \/ Query \/ SendCommit \/ Commit \/ CommitFails \/ ChildLost

AllServed == Idle /\ calls = MaxCalls /\ UNCHANGED vars

Next ==
    \/ \E c \in Commands : Execute(c)
    \/ RunFails \/ Finish \/ Timeout \/ Abandon("dropped")
    \/ ChildStep \/ OrphanEnds
    \/ AllServed

Spec == Init /\ [][Next]_vars

\* The timer of tokio::time::timeout fires and a finished child is noticed;
\* the child itself owes nothing.
FairSpec == Spec /\ WF_vars(Finish \/ Timeout)

----------------------------------------------------------------------------
Contents == 0..MaxCalls

Sessions ==
    [open : BOOLEAN, done : SUBSET Objects, commit : BOOLEAN, alive : BOOLEAN, content : Contents]

\* The type of the state.
TypeOK ==
    /\ calls \in 0..MaxCalls
    /\ cmd \in Commands \cup {NoCommand}
    /\ child \in {"none", "running", "success", "failure"}
    /\ stdout \in {"none", "1", "other"}
    /\ session \in Sessions /\ orphans \subseteq Sessions
    /\ db \in [Objects -> Contents] /\ snapshot \in [Objects -> Contents]
    /\ dump \in [Objects -> Contents \cup {Missing}]
    /\ result \in {"none", "Ok", "Process", "FailedPrecondition", "Io", "Timeout", "dropped"}
    /\ last \in {"none", "pg_dump", "pg_restore", "psql"}
    /\ aborted \subseteq 1..MaxCalls

\* The abstract database.  A restore may take effect while its child runs,
\* and later, whatever was returned, if its COMMIT is with the server.
Method ==
    CASE cmd = DumpCommand -> "dump"
      [] cmd = RestoreCommand -> "restore"
      [] cmd = QueryCommand -> "ping"
      [] OTHER -> "none"

MayCommit ==
    {s.content : s \in {t \in orphans : t.commit}}
    \cup (IF cmd = RestoreCommand /\ child = "running" THEN {calls} ELSE {})

Seen ==
    IF cmd = DumpCommand /\ (session.open \/ child = "success") THEN {snapshot} ELSE {}

Answered == cmd = QueryCommand /\ child = "success" /\ stdout = "1"

Returned == IF result = "Ok" /\ last = "pg_dump" THEN {dump} ELSE {}

Database ==
    INSTANCE DatabasePort WITH method <- Method, open <- MayCommit, seen <- Seen,
                               answered <- Answered, dumped <- Returned

\* dump, restore and ping of PgTools keep the contract of the ports Dumper,
\* Restorer and DbHealth.  A dump that returned Ok is the database at one
\* moment of the call.  A restore takes effect whole, at most once and in the
\* order of the calls; one that returned an error, whichever, may still do so
\* later, but not after a later restore has taken effect.  Ok from restore is
\* true, and no earlier restore can undo it.  ping says what the database
\* answered.
ImplementsDatabase == Database!Spec

\* A restore is all or nothing: no failing statement, time limit, cancelled
\* call or killed child leaves the database between two contents.
RestoreAtomic == \A o, p \in Objects : db[o] = db[p]

\* Ok from restore: the database holds the backup, and what an earlier,
\* abandoned restore still does at the server cannot change it afterwards.
RestoredStays ==
    result = "Ok" /\ last = "pg_restore" => \A o \in Objects : db[o] = calls

\* Ok from dump: the file is complete and is the database at one moment, even
\* if an abandoned restore commits while it is written.
DumpIsSnapshot ==
    result = "Ok" /\ last = "pg_dump" =>
      \E n \in Contents : \A o \in Objects : dump[o] = n

\* A restore that was given up before it sent COMMIT never shows: its child
\* is killed and does not go on behind the back of the caller.
AbortedLeavesNoTrace == \A o \in Objects : db[o] \notin aborted

\* Every call returns, whatever its child does.
CallEnds == ~Idle ~> Idle
=============================================================================
