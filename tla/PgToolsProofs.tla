---------------------------- MODULE PgToolsProofs ----------------------------
(***************************************************************************)
(* Proofs about PgTools, for any database and any number of calls: what    *)
(* dump and restore promise holds with killed children, abandoned sessions *)
(* and lost answers.  At the end, the proofs about StderrTail, for any     *)
(* text and limit, and about Startup, for any environment.                 *)
(***************************************************************************)
EXTENDS PgTools, StderrTail, Startup, WellFoundedInduction, TLAPS

\* The current call: its session belongs to it, and COMMIT is only sent by a
\* restore that has replaced every object.
CallInv ==
    /\ Idle <=> child = "none"
    /\ ~Idle => calls > 0 /\ result = "none"
    /\ session.open => child = "running" /\ session.content = calls
    /\ session.commit => cmd = RestoreCommand /\ (session.open => session.done = Objects)
    /\ child = "running" /\ session.commit => session.open

\* The sessions of killed children have no client, hold no object that the
\* current session has changed, and come from earlier calls, but for that of
\* the current call after its child was lost.
OrphanInv ==
    \A s \in orphans :
      /\ ~s.alive /\ (s.commit => s.done = Objects)
      /\ s.content <= calls
      /\ ~Idle => s.content < calls \/ (child = "failure" /\ (s.commit => session.commit))
      /\ s.done \cap session.done = {}
      /\ s.commit => s.content \notin aborted

\* Where the content of the database comes from.
TraceInv ==
    /\ aborted \subseteq 1..calls /\ (~Idle => calls \notin aborted)
    /\ \A o \in Objects : db[o] <= calls /\ db[o] \notin aborted
    /\ ~Idle /\ ~session.commit => \A o \in Objects : db[o] < calls

\* A restore that has succeeded, until the next call.
Restored ==
    \/ child = "success" /\ cmd = RestoreCommand
    \/ result = "Ok" /\ last = "pg_restore"

\* No session can change the database after a restore that has succeeded.
RestoreInv ==
    /\ RestoreAtomic
    /\ Restored => /\ \A o \in Objects : db[o] = calls
                   /\ \A s \in orphans : ~s.commit

\* A dump that has succeeded, until the next call.
Dumped ==
    \/ child = "success" /\ cmd = DumpCommand
    \/ result = "Ok" /\ last = "pg_dump"

\* What is in the dump file is what pg_dump saw when it connected.
DumpInv ==
    /\ \A o, p \in Objects : snapshot[o] = snapshot[p]
    /\ cmd = DumpCommand => \A o \in Objects : dump[o] \in {Missing, snapshot[o]}
    /\ cmd = DumpCommand /\ child = "running" /\ ~session.open =>
         \A o \in Objects : dump[o] = Missing
    /\ Dumped => \A o \in Objects : dump[o] = snapshot[o]

\* The inductive invariant.
Inv == TypeOK /\ CallInv /\ OrphanInv /\ TraceInv /\ RestoreInv /\ DumpInv

----------------------------------------------------------------------------
\* The commands are told apart by their programs.
LEMMA CommandFacts ==
  /\ DumpCommand.program = "pg_dump" /\ RestoreCommand.program = "pg_restore"
  /\ QueryCommand.program = "psql" /\ NoCommand.program = "none"
  /\ DumpCommand # RestoreCommand /\ DumpCommand # QueryCommand /\ DumpCommand # NoCommand
  /\ RestoreCommand # QueryCommand /\ RestoreCommand # NoCommand /\ QueryCommand # NoCommand
  /\ "--single-transaction" \in RestoreCommand.flags
  BY DEF DumpCommand, RestoreCommand, QueryCommand, NoCommand, Command

\* The program names the command.
LEMMA ProgramFacts ==
  ASSUME NEW c \in Commands \cup {NoCommand}
  PROVE  /\ c.program \in {"none", "pg_dump", "pg_restore", "psql"}
         /\ c.program = "pg_dump" => c = DumpCommand
         /\ c.program = "pg_restore" => c = RestoreCommand
         /\ c.program = "psql" => c = QueryCommand
  BY CommandFacts DEF Commands

\* The fields of a session.
LEMMA SessionFacts ==
  /\ NoSession \in Sessions /\ ~NoSession.open /\ ~NoSession.commit /\ NoSession.done = {}
  /\ NoSession.content = 0
  BY PgAssumption DEF NoSession, Sessions, Contents

\* The calls start in the invariant.
LEMMA InitInv == Init => Inv
  <1> SUFFICES ASSUME Init PROVE Inv
    OBVIOUS
  <1>1. TypeOK
    BY PgAssumption, SessionFacts DEF Init, TypeOK, Contents, Missing
  <1>2. CallInv /\ OrphanInv /\ TraceInv
    BY PgAssumption, SessionFacts DEF Init, CallInv, OrphanInv, TraceInv, Idle
  <1>3. RestoreInv /\ DumpInv
    BY CommandFacts DEF Init, RestoreInv, RestoreAtomic, Restored, DumpInv, Dumped
  <1>4. QED
    BY <1>1, <1>2, <1>3 DEF Inv

\* A new call: everything known of earlier calls is older than it.
LEMMA ExecuteKeeps ==
  ASSUME Inv, NEW c \in Commands, Execute(c)
  PROVE  Inv'
  <1>1. /\ Idle /\ calls < MaxCalls /\ calls' = calls + 1
        /\ cmd' = c /\ child' = "running" /\ stdout' = "none" /\ session' = NoSession
        /\ result' = "none" /\ orphans' = orphans /\ db' = db /\ snapshot' = snapshot
        /\ last' = last /\ aborted' = aborted
        /\ dump' = IF c = DumpCommand THEN [o \in Objects |-> Missing] ELSE dump
    BY DEF Execute
  <1>2. calls \in 0..MaxCalls /\ MaxCalls \in Nat /\ c # NoCommand
    BY CommandFacts, PgAssumption DEF Inv, TypeOK, Commands
  <1>3. TypeOK'
    BY <1>1, <1>2, SessionFacts DEF Inv, TypeOK, Missing
  <1>4. CallInv'
    BY <1>1, <1>2, SessionFacts DEF CallInv, Idle
  <1>5. OrphanInv'
    <2>1. ASSUME NEW s \in orphans
          PROVE  /\ s.content \in Nat /\ s.content <= calls
                 /\ ~s.alive /\ (s.commit => s.done = Objects)
                 /\ s.commit => s.content \notin aborted
      BY PgAssumption DEF Inv, TypeOK, Sessions, Contents, OrphanInv
    <2>2. QED
      BY <1>1, <1>2, <2>1, SessionFacts DEF OrphanInv
  <1>6. TraceInv'
    <2>1. db \in [Objects -> Nat] /\ \A o \in Objects : db[o] <= calls /\ db[o] \notin aborted
      BY PgAssumption DEF Inv, TypeOK, Contents, TraceInv
    <2>2. aborted \subseteq 1..calls
      BY DEF Inv, TraceInv
    <2>3. QED
      BY <1>1, <1>2, <2>1, <2>2 DEF TraceInv
  <1>7. RestoreInv'
    BY <1>1 DEF Inv, RestoreInv, RestoreAtomic, Restored
  <1>8. DumpInv'
    BY <1>1 DEF Inv, DumpInv, Dumped
  <1>9. QED
    BY <1>3, <1>4, <1>5, <1>6, <1>7, <1>8 DEF Inv

\* What Finish and Abandon have in common: the call ends, its open session
\* is left to the server, and a restore that has not sent COMMIT counts as
\* aborted.
CallOver(outcome) ==
    /\ ~Idle
    /\ EndCall(outcome)
    /\ session' = NoSession
    /\ orphans' \subseteq orphans \cup {[session EXCEPT !.alive = FALSE]}
    /\ ~session.open => orphans' \subseteq orphans
    /\ aborted' = IF cmd.program = "pg_restore" /\ ~session.commit
                  THEN aborted \cup {calls} ELSE aborted

\* The end of a call keeps the invariant, if Ok is true.
LEMMA CallOverKeeps ==
  ASSUME Inv,
         NEW outcome \in {"Ok", "Process", "FailedPrecondition", "Io", "Timeout", "dropped"},
         CallOver(outcome), outcome = "Ok" => child = "success"
  PROVE  Inv'
  <1>1. /\ ~Idle
        /\ cmd' = NoCommand /\ child' = "none" /\ result' = outcome /\ last' = cmd.program
        /\ UNCHANGED <<calls, stdout, db, dump, snapshot>>
        /\ session' = NoSession
        /\ orphans' \subseteq orphans \cup {[session EXCEPT !.alive = FALSE]}
        /\ ~session.open => orphans' \subseteq orphans
        /\ aborted' = IF cmd.program = "pg_restore" /\ ~session.commit
                      THEN aborted \cup {calls} ELSE aborted
    BY DEF CallOver, EndCall
  <1>2. /\ session \in Sessions /\ orphans \subseteq Sessions
        /\ cmd \in Commands \cup {NoCommand} /\ aborted \subseteq 1..MaxCalls
        /\ calls \in 1..MaxCalls /\ MaxCalls \in Nat
    BY <1>1, PgAssumption DEF Inv, TypeOK, CallInv
  <1> DEFINE killed == [session EXCEPT !.alive = FALSE]
  <1>3. /\ killed \in Sessions /\ killed.alive = FALSE /\ killed.commit = session.commit
        /\ killed.done = session.done /\ killed.content = session.content
        /\ killed.open = session.open
    BY <1>2 DEF Sessions
  <1>4. TypeOK'
    <2>1. aborted' \subseteq 1..MaxCalls
      BY <1>1, <1>2
    <2>2. orphans' \subseteq Sessions
      BY <1>1, <1>2, <1>3
    <2>3. last' \in {"none", "pg_dump", "pg_restore", "psql"}
      BY <1>1, <1>2, ProgramFacts
    <2>4. QED
      BY <1>1, <2>1, <2>2, <2>3, SessionFacts DEF Inv, TypeOK
  <1>5. CallInv'
    BY <1>1, SessionFacts DEF CallInv, Idle
  <1>6. OrphanInv'
    <2>1. ASSUME NEW s \in orphans
          PROVE  /\ s.content \in Nat /\ s.content <= calls
                 /\ s.content < calls \/ (s.commit => session.commit)
                 /\ ~s.alive /\ (s.commit => s.done = Objects)
                 /\ s.commit => s.content \notin aborted
      BY <1>1, PgAssumption DEF Inv, TypeOK, Sessions, Contents, OrphanInv
    <2>2. ASSUME NEW s \in orphans, s.commit
          PROVE  s.content \notin aborted'
      <3>1. CASE session.commit
        BY <1>1, <2>1, <2>2, <3>1
      <3>2. CASE ~session.commit
        <4>1. s.content # calls
          BY <1>2, <2>1, <2>2, <3>2
        <4>2. QED
          BY <1>1, <2>1, <2>2, <4>1
      <3>3. QED
        BY <3>1, <3>2
    <2>3. ASSUME killed \in orphans'
          PROVE  /\ killed.content <= calls /\ (killed.commit => killed.done = Objects)
                 /\ killed.commit => killed.content \notin aborted'
      <3>1. CASE killed \in orphans
        BY <2>1, <2>2, <3>1
      <3>2. CASE killed \notin orphans
        <4>1. session.open
          BY <1>1, <2>3, <3>2
        <4>2. /\ session.content = calls /\ calls \notin aborted
              /\ session.commit => session.done = Objects
          BY <1>1, <4>1 DEF Inv, CallInv, TraceInv
        <4>3. QED
          BY <1>1, <1>2, <1>3, <4>2
      <3>3. QED
        BY <3>1, <3>2
    <2>4. QED
      BY <1>1, <1>3, <2>1, <2>2, <2>3, SessionFacts DEF OrphanInv, Idle
  <1>7. TraceInv'
    <2>1. aborted' \subseteq 1..calls
      BY <1>1, <1>2 DEF Inv, TraceInv
    <2>2. \A o \in Objects : db[o] <= calls /\ db[o] \notin aborted
      BY DEF Inv, TraceInv
    <2>3. cmd.program = "pg_restore" /\ ~session.commit => \A o \in Objects : db[o] # calls
      BY <1>1, <1>2, PgAssumption DEF Inv, TypeOK, Contents, TraceInv
    <2>4. \A o \in Objects : db'[o] <= calls' /\ db'[o] \notin aborted'
      BY <1>1, <2>2, <2>3
    <2>5. QED
      BY <1>1, <2>1, <2>4 DEF TraceInv, Idle
  <1>8. RestoreInv'
    <2>1. RestoreAtomic'
      BY <1>1 DEF Inv, RestoreInv, RestoreAtomic
    <2>2. ASSUME Restored' PROVE Restored /\ child = "success"
      BY <1>1, <1>2, <2>2, ProgramFacts, CommandFacts DEF Restored
    <2>3. child = "success" => orphans' \subseteq orphans
      BY <1>1 DEF Inv, CallInv
    <2>4. QED
      BY <1>1, <2>1, <2>2, <2>3 DEF Inv, RestoreInv
  <1>9. DumpInv'
    <2>1. ASSUME Dumped' PROVE Dumped
      BY <1>1, <1>2, <2>1, ProgramFacts, CommandFacts DEF Dumped
    <2>2. QED
      BY <1>1, <2>1, CommandFacts DEF Inv, DumpInv
  <1>10. QED
    BY <1>4, <1>5, <1>6, <1>7, <1>8, <1>9 DEF Inv

\* run has the output of the child.
LEMMA FinishKeeps ==
  ASSUME Inv, Finish
  PROVE  Inv'
  <1> DEFINE outcome == Outcome(cmd.program, child, stdout)
  <1>1. /\ outcome \in {"Ok", "Process", "FailedPrecondition"}
        /\ outcome = "Ok" => child = "success"
    BY DEF Finish, Outcome
  <1>2. CallOver(outcome)
    BY DEF Finish, CallOver
  <1> HIDE DEF outcome
  <1>3. QED
    BY <1>1, <1>2, CallOverKeeps

\* The child is killed.
LEMMA AbandonKeeps ==
  ASSUME Inv, NEW outcome \in {"Io", "Timeout", "dropped"}, Abandon(outcome)
  PROVE  Inv'
  <1>1. CallOver(outcome)
    BY DEF Abandon, CallOver
  <1>2. QED
    BY <1>1, CallOverKeeps

\* A child exits without a commit: only a pg_dump that wrote every object, or
\* psql, does so with success.
LEMMA ExitKeeps ==
  ASSUME Inv, child = "running", child' \in {"success", "failure"},
         session' = [session EXCEPT !.open = FALSE],
         UNCHANGED <<calls, cmd, result, last, aborted, orphans, db, dump, snapshot>>,
         stdout' \in {"none", "1", "other"},
         child' = "success" => /\ cmd # RestoreCommand
                               /\ cmd = DumpCommand => \A o \in Objects : dump[o] # Missing
  PROVE  Inv'
  <1>1. /\ session' \in Sessions /\ ~session'.open /\ session'.done = session.done
        /\ session'.commit = session.commit
    BY DEF Inv, TypeOK, Sessions
  <1>2. result = "none" /\ ~Idle
    BY DEF Inv, CallInv
  <1>3. TypeOK'
    BY <1>1 DEF Inv, TypeOK
  <1>4. CallInv'
    BY <1>1, <1>2 DEF Inv, CallInv, Idle
  <1>5. OrphanInv' /\ TraceInv'
    BY <1>1 DEF Inv, OrphanInv, TraceInv, Idle
  <1>6. RestoreInv'
    BY <1>2 DEF Inv, RestoreInv, RestoreAtomic, Restored
  <1>7. DumpInv'
    BY <1>2 DEF Inv, DumpInv, Dumped
  <1>8. QED
    BY <1>3, <1>4, <1>5, <1>6, <1>7 DEF Inv

\* The child is lost and its session stays, with every object it holds.
LEMMA ChildLostKeeps ==
  ASSUME Inv, ChildLost
  PROVE  Inv'
  <1> DEFINE lost == [session EXCEPT !.alive = FALSE]
  <1>1. /\ child = "running" /\ session.open /\ child' = "failure"
        /\ orphans' = orphans \cup {lost}
        /\ session' = [NoSession EXCEPT !.commit = session.commit]
        /\ UNCHANGED <<calls, cmd, result, last, aborted, stdout, db, dump, snapshot>>
    BY DEF ChildLost, Exits, local
  <1>2. /\ session \in Sessions /\ session' \in Sessions /\ lost \in Sessions
        /\ ~session'.open /\ session'.done = {} /\ session'.commit = session.commit
        /\ ~lost.alive /\ lost.commit = session.commit /\ lost.done = session.done
        /\ lost.content = session.content
    BY <1>1, SessionFacts DEF Inv, TypeOK, Sessions
  <1>3. /\ result = "none" /\ ~Idle /\ session.content = calls /\ calls \notin aborted
        /\ session.commit => cmd = RestoreCommand /\ session.done = Objects
        /\ calls \in Nat
    BY <1>1 DEF Inv, CallInv, TraceInv, TypeOK
  <1> HIDE DEF lost
  <1>4. TypeOK'
    BY <1>1, <1>2 DEF Inv, TypeOK
  <1>5. CallInv'
    BY <1>1, <1>2, <1>3 DEF Inv, CallInv, Idle
  <1>6. OrphanInv'
    <2>1. ASSUME NEW s \in orphans
          PROVE  /\ ~s.alive /\ (s.commit => s.done = Objects)
                 /\ s.content <= calls /\ s.content < calls
                 /\ s.commit => s.content \notin aborted
      BY <1>1, <1>3 DEF Inv, OrphanInv
    <2>2. /\ ~lost.alive /\ (lost.commit => lost.done = Objects)
          /\ lost.content <= calls
          /\ lost.commit => lost.content \notin aborted
      BY <1>2, <1>3
    <2>3. QED
      BY <1>1, <1>2, <2>1, <2>2 DEF OrphanInv
  <1>7. TraceInv'
    BY <1>1, <1>2 DEF Inv, TraceInv, Idle
  <1>8. RestoreInv'
    BY <1>1, <1>3 DEF Inv, RestoreInv, RestoreAtomic, Restored
  <1>9. DumpInv'
    BY <1>1, <1>3 DEF Inv, DumpInv, Dumped
  <1>10. QED
    BY <1>4, <1>5, <1>6, <1>7, <1>8, <1>9 DEF Inv

\* The child connects: pg_dump's snapshot is one content.
LEMMA ConnectKeeps ==
  ASSUME Inv, Connect
  PROVE  Inv'
  <1>1. /\ child = "running" /\ ~session.open /\ snapshot' = db
        /\ session' = [NoSession EXCEPT !.open = TRUE, !.alive = TRUE, !.content = calls]
        /\ UNCHANGED <<calls, cmd, result, last, aborted, child, stdout, orphans, db, dump>>
    BY DEF Connect, local
  <1>2. /\ session' \in Sessions /\ session'.open /\ session'.done = {} /\ ~session'.commit
        /\ session'.content = calls
    BY <1>1, SessionFacts DEF Inv, TypeOK, Sessions, Contents
  <1>3. result = "none" /\ ~Idle /\ ~session.commit
    BY <1>1 DEF Inv, CallInv
  <1>4. TypeOK'
    BY <1>1, <1>2 DEF Inv, TypeOK
  <1>5. CallInv'
    BY <1>1, <1>2, <1>3 DEF Inv, CallInv, Idle
  <1>6. OrphanInv' /\ TraceInv'
    BY <1>1, <1>2, <1>3 DEF Inv, OrphanInv, TraceInv, Idle
  <1>7. RestoreInv'
    BY <1>1, <1>3 DEF Inv, RestoreInv, RestoreAtomic, Restored
  <1>8. DumpInv'
    BY <1>1, <1>2, <1>3 DEF Inv, DumpInv, Dumped, RestoreInv, RestoreAtomic
  <1>9. QED
    BY <1>4, <1>5, <1>6, <1>7, <1>8 DEF Inv

\* pg_dump writes an object as it saw it.
LEMMA DumpObjectKeeps ==
  ASSUME Inv, NEW o \in Objects, DumpObject(o)
  PROVE  Inv'
  <1>1. /\ child = "running" /\ session.open /\ dump' = [dump EXCEPT ![o] = snapshot[o]]
        /\ UNCHANGED <<calls, cmd, result, last, aborted, child, stdout, session, orphans, db,
                       snapshot>>
    BY DEF DumpObject, local
  <1>2. result = "none"
    BY <1>1 DEF Inv, CallInv
  <1>3. TypeOK'
    BY <1>1 DEF Inv, TypeOK
  <1>4. CallInv' /\ OrphanInv' /\ TraceInv'
    BY <1>1 DEF Inv, CallInv, OrphanInv, TraceInv, Idle
  <1>5. RestoreInv'
    BY <1>1 DEF Inv, RestoreInv, RestoreAtomic, Restored
  <1>6. DumpInv'
    BY <1>1, <1>2 DEF Inv, TypeOK, DumpInv, Dumped
  <1>7. QED
    BY <1>3, <1>4, <1>5, <1>6 DEF Inv

\* pg_restore replaces an object, in its transaction, that no other session
\* holds.
LEMMA RestoreObjectKeeps ==
  ASSUME Inv, NEW o \in Objects, RestoreObject(o)
  PROVE  Inv'
  <1>1. /\ child = "running" /\ session.open /\ cmd.program = "pg_restore"
        /\ o \notin session.done /\ ~Locked(o)
        /\ session' = [session EXCEPT !.done = @ \cup {o}]
        /\ UNCHANGED <<calls, cmd, result, last, aborted, child, stdout, orphans, dump, snapshot>>
    BY DEF RestoreObject, local
  <1>2. db' = db
    BY ProgramFacts, CommandFacts DEF RestoreObject, SingleTransaction, Inv, TypeOK
  <1>3. /\ session' \in Sessions /\ session'.open = session.open /\ session'.content = session.content
        /\ session'.commit = session.commit /\ session'.done = session.done \cup {o}
    BY <1>1 DEF Inv, TypeOK, Sessions
  <1>4. result = "none" /\ ~session.commit
    BY <1>1 DEF Inv, CallInv
  <1>5. TypeOK'
    BY <1>1, <1>2, <1>3 DEF Inv, TypeOK
  <1>6. CallInv' /\ TraceInv'
    BY <1>1, <1>2, <1>3, <1>4 DEF Inv, CallInv, TraceInv, Idle
  <1>7. OrphanInv'
    BY <1>1, <1>3 DEF Inv, OrphanInv, Locked, Idle
  <1>8. RestoreInv' /\ DumpInv'
    BY <1>1, <1>2, <1>3, <1>4 DEF Inv, RestoreInv, RestoreAtomic, Restored, DumpInv, Dumped
  <1>9. QED
    BY <1>5, <1>6, <1>7, <1>8 DEF Inv

\* COMMIT is sent when every object is replaced.
LEMMA SendCommitKeeps ==
  ASSUME Inv, SendCommit
  PROVE  Inv'
  <1>1. /\ child = "running" /\ session.open /\ cmd.program = "pg_restore"
        /\ session.done = Objects
        /\ session' = [session EXCEPT !.commit = TRUE]
        /\ UNCHANGED <<calls, cmd, result, last, aborted, child, stdout, orphans, db, dump,
                       snapshot>>
    BY DEF SendCommit, local
  <1>2. /\ session' \in Sessions /\ session'.open = session.open
        /\ session'.content = session.content
        /\ session'.commit /\ session'.done = session.done /\ cmd = RestoreCommand
    BY <1>1, ProgramFacts DEF Inv, TypeOK, Sessions
  <1>3. TypeOK'
    BY <1>1, <1>2 DEF Inv, TypeOK
  <1>4. CallInv' /\ TraceInv' /\ OrphanInv'
    BY <1>1, <1>2 DEF Inv, CallInv, TraceInv, OrphanInv, Idle
  <1>5. RestoreInv' /\ DumpInv'
    BY <1>1, <1>2 DEF Inv, RestoreInv, RestoreAtomic, Restored, DumpInv, Dumped
  <1>6. QED
    BY <1>3, <1>4, <1>5 DEF Inv

\* The server commits a restore.  It had every object locked, so that no
\* abandoned session has anything left to commit.
LEMMA CommitKeeps ==
  ASSUME Inv, Commit
  PROVE  Inv'
  <1>1. /\ child = "running" /\ session.open /\ session.commit
        /\ db' = [o \in Objects |-> session.content]
        /\ child' \in {"success", "failure"}
        /\ session' = [session EXCEPT !.open = FALSE]
        /\ UNCHANGED <<calls, cmd, result, last, aborted, stdout, orphans, dump, snapshot>>
    BY DEF Commit, Exits, local
  <1>2. /\ session' \in Sessions /\ ~session'.open /\ session'.done = session.done
        /\ session'.commit = session.commit
    BY <1>1 DEF Inv, TypeOK, Sessions
  <1>3. /\ result = "none" /\ ~Idle /\ cmd = RestoreCommand /\ session.done = Objects
        /\ session.content = calls /\ calls \notin aborted
        /\ calls \in Contents
    BY <1>1 DEF Inv, CallInv, TraceInv, TypeOK, Contents
  <1>4. \A s \in orphans : ~s.commit
    BY <1>3, PgAssumption DEF Inv, OrphanInv
  <1>5. TypeOK'
    BY <1>1, <1>2, <1>3 DEF Inv, TypeOK
  <1>6. CallInv'
    BY <1>1, <1>2, <1>3 DEF Inv, CallInv, Idle
  <1>7. OrphanInv'
    BY <1>1, <1>2 DEF Inv, OrphanInv, Idle
  <1>8. TraceInv'
    BY <1>1, <1>2, <1>3, PgAssumption DEF Inv, TraceInv, Idle, Contents
  <1>9. RestoreInv'
    BY <1>1, <1>3, <1>4 DEF RestoreInv, RestoreAtomic, Restored
  <1>10. DumpInv'
    BY <1>1, <1>3, CommandFacts DEF Inv, DumpInv, Dumped
  <1>11. QED
    BY <1>5, <1>6, <1>7, <1>8, <1>9, <1>10 DEF Inv

\* The server gets to the session of a killed child.
LEMMA OrphanEndsKeeps ==
  ASSUME Inv, OrphanEnds
  PROVE  Inv'
  <1>1. PICK s \in orphans :
          /\ orphans' = orphans \ {s}
          /\ \/ db' = db
             \/ (s.commit \/ (s.alive /\ s.done # {})) /\ db' = [o \in Objects |-> s.content]
    BY DEF OrphanEnds
  <1>2. UNCHANGED <<calls, cmd, result, last, aborted, child, stdout, session, dump, snapshot>>
    BY DEF OrphanEnds, local
  <1>3. /\ ~s.alive /\ s.content <= calls
        /\ ~Idle => s.content < calls \/ (s.commit => session.commit)
        /\ (s.commit => s.content \notin aborted) /\ s.content \in Contents
    BY <1>1 DEF Inv, OrphanInv, TypeOK, Sessions
  <1>4. CASE db' = db
    <2>1. TypeOK'
      BY <1>1, <1>2, <1>4 DEF Inv, TypeOK
    <2>2. CallInv' /\ OrphanInv' /\ TraceInv'
      BY <1>1, <1>2, <1>4 DEF Inv, CallInv, OrphanInv, TraceInv, Idle
    <2>3. RestoreInv' /\ DumpInv'
      BY <1>1, <1>2, <1>4 DEF Inv, RestoreInv, RestoreAtomic, Restored, DumpInv, Dumped
    <2>4. QED
      BY <2>1, <2>2, <2>3 DEF Inv
  <1>5. CASE s.commit /\ db' = [o \in Objects |-> s.content]
    <2>1. ~Restored
      BY <1>1, <1>5 DEF Inv, RestoreInv
    <2>2. TypeOK'
      BY <1>1, <1>2, <1>3, <1>5 DEF Inv, TypeOK
    <2>3. CallInv' /\ OrphanInv'
      BY <1>1, <1>2 DEF Inv, CallInv, OrphanInv, Idle
    <2>4. TraceInv'
      BY <1>2, <1>3, <1>5 DEF Inv, TraceInv, Idle
    <2>5. RestoreInv'
      BY <1>2, <1>5, <2>1 DEF RestoreInv, RestoreAtomic, Restored
    <2>6. DumpInv'
      BY <1>2 DEF Inv, DumpInv, Dumped
    <2>7. QED
      BY <2>2, <2>3, <2>4, <2>5, <2>6 DEF Inv
  <1>6. QED
    BY <1>1, <1>3, <1>4, <1>5

\* Every step keeps the invariant.
LEMMA StepInv == Inv /\ [Next]_vars => Inv'
  <1> SUFFICES ASSUME Inv, [Next]_vars PROVE Inv'
    OBVIOUS
  <1>1. CASE UNCHANGED vars
    <2>1. TypeOK' /\ CallInv' /\ OrphanInv'
      BY <1>1 DEF vars, Inv, TypeOK, CallInv, OrphanInv, Idle
    <2>2. TraceInv' /\ RestoreInv' /\ DumpInv'
      BY <1>1 DEF vars, Inv, TraceInv, RestoreInv, RestoreAtomic, Restored, DumpInv, Dumped, Idle
    <2>3. QED
      BY <2>1, <2>2 DEF Inv
  <1>2. CASE \E c \in Commands : Execute(c)
    BY <1>2, ExecuteKeeps
  <1>3. CASE RunFails \/ Finish \/ Timeout \/ Abandon("dropped")
    BY <1>3, FinishKeeps, AbandonKeeps DEF RunFails, Timeout
  <1>4. CASE Connect \/ \E o \in Objects : DumpObject(o) \/ RestoreObject(o)
    BY <1>4, ConnectKeeps, DumpObjectKeeps, RestoreObjectKeeps
  <1>5. CASE SendCommit \/ Commit \/ ChildLost \/ OrphanEnds
    BY <1>5, SendCommitKeeps, CommitKeeps, ChildLostKeeps, OrphanEndsKeeps
  <1>6. CASE ChildFails \/ CommitFails
    <2>1. /\ child = "running" /\ child' = "failure"
          /\ session' = [session EXCEPT !.open = FALSE]
          /\ UNCHANGED <<calls, cmd, result, last, aborted, orphans, db, dump, snapshot>>
          /\ stdout' \in {"none", "1", "other"}
      BY <1>6 DEF ChildFails, CommitFails, Exits, local, Inv, TypeOK
    <2>2. QED
      BY <2>1, ExitKeeps
  <1>7. CASE DumpEnds \/ Query
    <2>1. /\ child = "running" /\ child' = "success" /\ cmd.program \in {"pg_dump", "psql"}
          /\ session' = [session EXCEPT !.open = FALSE]
          /\ UNCHANGED <<calls, cmd, result, last, aborted, orphans, db, dump, snapshot>>
          /\ stdout' \in {"none", "1", "other"}
          /\ cmd.program = "pg_dump" => \A o \in Objects : dump[o] # Missing
      BY <1>7 DEF DumpEnds, Query, Exits, local, Inv, TypeOK
    <2>2. cmd # RestoreCommand /\ (cmd = DumpCommand => cmd.program = "pg_dump")
      BY <2>1, CommandFacts
    <2>3. QED
      BY <2>1, <2>2, ExitKeeps
  <1>8. QED
    BY <1>1, <1>2, <1>3, <1>4, <1>5, <1>6, <1>7 DEF Next, ChildStep, AllServed

\* The inductive invariant always holds.
THEOREM InvCorrect == Spec => []Inv
  <1>1. Init => Inv
    BY InitInv
  <1>2. Inv /\ [Next]_vars => Inv'
    BY StepInv
  <1>3. QED
    BY <1>1, <1>2, PTL DEF Spec

\* No program runs with another command line than those of dump, restore and
\* ping, and the database, the dump and every session hold contents of calls.
THEOREM TypeCorrect == Spec => []TypeOK
  <1>1. Inv => TypeOK
    BY DEF Inv
  <1>2. QED
    BY <1>1, InvCorrect, PTL

\* No time limit, cancelled call or killed child leaves the database between
\* two contents (pg_restore --single-transaction).
THEOREM RestoreAtomicCorrect == Spec => []RestoreAtomic
  <1>1. Inv => RestoreAtomic
    BY DEF Inv, RestoreInv
  <1>2. QED
    BY <1>1, InvCorrect, PTL

\* Ok from PgTools::restore is true and stays true until the next call.
THEOREM RestoredStaysCorrect == Spec => []RestoredStays
  <1>1. Inv => RestoredStays
    BY DEF Inv, RestoreInv, Restored, RestoredStays
  <1>2. QED
    BY <1>1, InvCorrect, PTL

\* Ok from PgTools::dump: a complete dump of one committed content.
THEOREM DumpIsSnapshotCorrect == Spec => []DumpIsSnapshot
  <1>1. Inv => DumpIsSnapshot
    <2>1. SUFFICES ASSUME Inv, Dumped
                   PROVE  \E n \in Contents : \A o \in Objects : dump[o] = n
      BY DEF DumpIsSnapshot, Dumped
    <2>2. /\ \A o \in Objects : dump[o] = snapshot[o]
          /\ \A o, p \in Objects : snapshot[o] = snapshot[p]
      BY <2>1 DEF Inv, DumpInv
    <2>3. PICK p \in Objects : TRUE
      BY PgAssumption
    <2>4. snapshot[p] \in Contents
      BY <2>1 DEF Inv, TypeOK
    <2>5. \A o \in Objects : dump[o] = snapshot[p]
      BY <2>2
    <2>6. QED
      BY <2>4, <2>5
  <1>2. QED
    BY <1>1, InvCorrect, PTL

\* A restore given up before COMMIT never shows in the database (its child
\* is killed with the call).
THEOREM AbortedLeavesNoTraceCorrect == Spec => []AbortedLeavesNoTrace
  <1>1. Inv => AbortedLeavesNoTrace
    BY DEF Inv, TraceInv, AbortedLeavesNoTrace
  <1>2. QED
    BY <1>1, InvCorrect, PTL

----------------------------------------------------------------------------
\* No object is held by two sessions of killed children.
OrphansApart == \A s, t \in orphans : s # t => s.done \cap t.done = {}

\* Every step keeps the abandoned sessions apart: what the current session
\* has replaced is held by none of them.
LEMMA ApartStep == Inv /\ OrphansApart /\ [Next]_vars => OrphansApart'
  <1> SUFFICES ASSUME Inv, OrphansApart, [Next]_vars PROVE OrphansApart'
    OBVIOUS
  <1>1. CASE orphans' \subseteq orphans
    BY <1>1 DEF OrphansApart
  <1>2. CASE ChildLost \/ \E outcome \in {"Io", "Timeout", "dropped"} : Abandon(outcome)
    <2> DEFINE killed == [session EXCEPT !.alive = FALSE]
    <2>1. orphans' \subseteq orphans \cup {killed}
      BY <1>2 DEF Abandon, ChildLost
    <2>2. killed.done = session.done
      BY DEF Inv, TypeOK, Sessions
    <2>3. \A s \in orphans : s.done \cap session.done = {}
      BY DEF Inv, OrphanInv
    <2> HIDE DEF killed
    <2>4. QED
      BY <2>1, <2>2, <2>3 DEF OrphansApart
  <1>3. QED
    BY <1>1, <1>2 DEF Next, ChildStep, Execute, RunFails, Finish, Timeout, Connect, ChildFails,
       DumpObject, RestoreObject, DumpEnds, Query, SendCommit, Commit, CommitFails, OrphanEnds,
       AllServed, vars

\* What the calls of the abstract database are, command by command.
LEMMA Mapping ==
  /\ cmd = NoCommand => Method = "none" /\ Seen = {} /\ Answered = FALSE
  /\ cmd = DumpCommand => Method = "dump" /\ Answered = FALSE
  /\ cmd = RestoreCommand => Method = "restore" /\ Seen = {} /\ Answered = FALSE
  /\ cmd = QueryCommand => Method = "ping" /\ Seen = {}
  BY CommandFacts DEF Method, Seen, Answered

\* The same after a step.
LEMMA MappingNext ==
  /\ cmd' = NoCommand => Method' = "none" /\ Seen' = {} /\ Answered' = FALSE
  /\ cmd' = DumpCommand => Method' = "dump" /\ Answered' = FALSE
  /\ cmd' = RestoreCommand => Method' = "restore" /\ Seen' = {} /\ Answered' = FALSE
  /\ cmd' = QueryCommand => Method' = "ping" /\ Seen' = {}
  BY CommandFacts DEF Method, Seen, Answered

\* A database that has one content everywhere is that backup.
LEMMA WholeBackup ==
  ASSUME Inv, NEW n, \A o \in Objects : db[o] = n
  PROVE  db = Database!Backup(n)
  BY DEF Inv, TypeOK, Database!Backup

\* The initial states are initial states of the abstract database.
LEMMA InitPort == Init => Database!Init
  BY Mapping, CommandFacts DEF Init, Database!Init, Database!Backup, MayCommit, Returned

\* A call begins.
LEMMA ExecutePort ==
  ASSUME Inv, NEW c \in Commands, Execute(c)
  PROVE  Database!Next
  <1>1. /\ cmd = NoCommand /\ calls' = calls + 1 /\ cmd' = c /\ child' = "running"
        /\ session' = NoSession /\ result' = "none" /\ orphans' = orphans /\ db' = db
    BY DEF Execute, Idle
  <1>2. c \in {DumpCommand, RestoreCommand, QueryCommand}
    BY DEF Commands
  <1>3. Seen' = {} /\ Answered' = FALSE
    BY <1>1, SessionFacts, CommandFacts DEF Seen, Answered
  <1>4. Returned' = {}
    BY <1>1 DEF Returned
  <1>5. MayCommit' = IF c = RestoreCommand THEN MayCommit \cup {calls + 1} ELSE MayCommit
    BY <1>1, CommandFacts DEF MayCommit
  <1>6. Method' \in Database!Methods /\ (Method' = "restore" <=> c = RestoreCommand)
    BY <1>1, <1>2, CommandFacts DEF Method, Database!Methods
  <1>7. Database!Call(Method')
    BY <1>1, <1>3, <1>4, <1>5, <1>6, Mapping DEF Database!Call
  <1>8. QED
    BY <1>6, <1>7 DEF Database!Next

\* run has the output of the child: Ok is what it says.
LEMMA FinishPort ==
  ASSUME Inv, Finish
  PROVE  Database!Next
  <1> DEFINE outcome == Outcome(cmd.program, child, stdout)
  <1>1. /\ ~Idle /\ child \in {"success", "failure"}
        /\ cmd' = NoCommand /\ result' = outcome /\ last' = cmd.program
        /\ UNCHANGED <<calls, db, dump, orphans>>
    BY DEF Finish, EndCall
  <1>2. /\ outcome \in {"Ok", "Process", "FailedPrecondition"}
        /\ outcome = "Ok" => child = "success" /\ (cmd.program = "psql" => stdout = "1")
        /\ outcome = "FailedPrecondition" => cmd.program = "psql" /\ stdout # "1"
    BY <1>1 DEF Outcome
  <1> HIDE DEF outcome
  <1>3. cmd \in {DumpCommand, RestoreCommand, QueryCommand}
    BY <1>1 DEF Idle, Inv, TypeOK, Commands
  <1>4. Method # "none"
    BY <1>3, Mapping
  <1>5. MayCommit' \subseteq MayCommit
    BY <1>1, CommandFacts DEF MayCommit
  <1>6. outcome = "Ok" /\ cmd = RestoreCommand => db = Database!Backup(calls) /\ MayCommit' = {}
    BY <1>1, <1>2, WholeBackup, CommandFacts DEF Inv, RestoreInv, Restored, MayCommit
  <1>7. outcome = "Ok" /\ cmd = DumpCommand => Seen = {dump}
    BY <1>2 DEF Seen, Inv, TypeOK, DumpInv, Dumped
  <1>8. Returned' = IF outcome = "Ok" /\ cmd = DumpCommand THEN {dump} ELSE {}
    BY <1>1, <1>3, CommandFacts DEF Returned
  <1>9. outcome = "Ok" /\ cmd = QueryCommand => Answered
    BY <1>2, CommandFacts DEF Answered
  <1>10. (Method = "dump" <=> cmd = DumpCommand) /\ (Method = "restore" <=> cmd = RestoreCommand)
         /\ (Method = "ping" <=> cmd = QueryCommand)
    BY <1>3, Mapping
  <1>11. outcome = "FailedPrecondition" => cmd = QueryCommand /\ ~Answered
    BY <1>2, <1>3, CommandFacts DEF Answered
  <1>12. Database!Return(outcome)
    BY <1>1, <1>2, <1>4, <1>5, <1>6, <1>7, <1>8, <1>9, <1>10, <1>11, MappingNext
       DEF Database!Return
  <1>13. QED
    BY <1>2, <1>12 DEF Database!Next, Database!Results

\* The child is killed: a COMMIT that was sent stays with the server.
LEMMA AbandonPort ==
  ASSUME Inv, NEW outcome \in {"Io", "Timeout", "dropped"}, Abandon(outcome)
  PROVE  Database!Next
  <1> DEFINE killed == [session EXCEPT !.alive = FALSE]
  <1>1. /\ ~Idle
        /\ cmd' = NoCommand /\ result' = outcome
        /\ UNCHANGED <<calls, db>>
        /\ orphans' = IF session.open THEN orphans \cup {killed} ELSE orphans
    BY DEF Abandon, EndCall
  <1>2. Method # "none"
    BY <1>1, Mapping DEF Idle, Inv, TypeOK, Commands
  <1>3. killed.commit = session.commit /\ killed.content = session.content
    BY DEF Inv, TypeOK, Sessions
  <1>4. /\ session.open => child = "running" /\ session.content = calls
        /\ session.commit => cmd = RestoreCommand
    BY DEF Inv, CallInv
  <1> HIDE DEF killed
  <1>5. MayCommit' \subseteq MayCommit
    BY <1>1, <1>3, <1>4, CommandFacts DEF MayCommit
  <1>6. Returned' = {}
    BY <1>1 DEF Returned
  <1>7. Database!Return(outcome)
    BY <1>1, <1>2, <1>5, <1>6, MappingNext DEF Database!Return
  <1>8. QED
    BY <1>7 DEF Database!Next, Database!Results

\* The child connects: pg_dump looks at the database.
LEMMA ConnectPort ==
  ASSUME Inv, Connect
  PROVE  Database!Look \/ UNCHANGED Database!vars
  <1>1. /\ child = "running" /\ ~session.open /\ snapshot' = db /\ session'.open
        /\ UNCHANGED <<calls, cmd, result, last, child, stdout, orphans, db, dump>>
    BY SessionFacts DEF Connect, local, Sessions
  <1>2. /\ Method' = Method /\ MayCommit' = MayCommit /\ Answered' = Answered
        /\ Returned' = Returned
    BY <1>1 DEF Method, MayCommit, Answered, Returned
  <1>3. Seen' = IF cmd = DumpCommand THEN {db} ELSE {}
    BY <1>1 DEF Seen
  <1>4. CASE cmd = DumpCommand
    BY <1>1, <1>2, <1>3, <1>4, Mapping DEF Database!Look
  <1>5. CASE cmd # DumpCommand
    <2>1. Seen = {}
      BY <1>5 DEF Seen
    <2>2. QED
      BY <1>1, <1>2, <1>3, <1>5, <2>1 DEF Database!vars
  <1>6. QED
    BY <1>4, <1>5

\* A child that fails before it has sent COMMIT, or whose COMMIT fails.
LEMMA FailurePort ==
  ASSUME Inv, ChildFails \/ CommitFails
  PROVE  Database!GiveUp
  <1>1. /\ child = "running" /\ child' = "failure"
        /\ session' = [session EXCEPT !.open = FALSE]
        /\ UNCHANGED <<calls, cmd, result, last, stdout, orphans, db, dump, snapshot>>
    BY DEF ChildFails, CommitFails, Exits, local
  <1>2. ~session'.open
    BY <1>1 DEF Inv, TypeOK, Sessions
  <1>3. Method' = Method /\ Returned' = Returned
    BY <1>1 DEF Method, Returned
  <1>4. MayCommit' \subseteq MayCommit
    BY <1>1 DEF MayCommit
  <1>5. Seen' = {}
    BY <1>1, <1>2 DEF Seen
  <1>6. Answered' = Answered
    BY <1>1 DEF Answered
  <1>7. QED
    BY <1>1, <1>3, <1>4, <1>5, <1>6 DEF Database!GiveUp

\* The child is lost: a COMMIT that was sent stays with the server.
LEMMA ChildLostPort ==
  ASSUME Inv, ChildLost
  PROVE  Database!GiveUp
  <1> DEFINE lost == [session EXCEPT !.alive = FALSE]
  <1>1. /\ child = "running" /\ child' = "failure" /\ session.open
        /\ orphans' = orphans \cup {lost}
        /\ session' = [NoSession EXCEPT !.commit = session.commit]
        /\ UNCHANGED <<calls, cmd, result, last, stdout, db, dump, snapshot>>
    BY DEF ChildLost, Exits, local
  <1>2. ~session'.open
    BY <1>1, SessionFacts DEF Sessions
  <1>3. Method' = Method /\ Returned' = Returned /\ Answered' = Answered
    BY <1>1 DEF Method, Returned, Answered
  <1>4. /\ lost.commit = session.commit /\ lost.content = calls
        /\ session.commit => cmd = RestoreCommand
    BY <1>1 DEF Inv, TypeOK, Sessions, CallInv
  <1> HIDE DEF lost
  <1>5. MayCommit' \subseteq MayCommit
    BY <1>1, <1>4 DEF MayCommit
  <1>6. Seen' = {}
    BY <1>1, <1>2 DEF Seen
  <1>7. QED
    BY <1>1, <1>3, <1>5, <1>6 DEF Database!GiveUp

\* pg_dump writes and ends, pg_restore works in its transaction and sends
\* COMMIT: the abstract database takes no notice.
LEMMA HiddenPort ==
  ASSUME Inv, DumpEnds \/ SendCommit \/ \E o \in Objects : DumpObject(o) \/ RestoreObject(o)
  PROVE  UNCHANGED Database!vars
  <1>1. CASE DumpEnds
    <2>1. /\ child = "running" /\ child' = "success" /\ session.open /\ cmd.program = "pg_dump"
          /\ UNCHANGED <<calls, cmd, result, last, stdout, orphans, db, dump, snapshot>>
      BY <1>1 DEF DumpEnds, Exits, local
    <2>2. cmd = DumpCommand
      BY <2>1, ProgramFacts DEF Inv, TypeOK
    <2>3. Method' = Method /\ Returned' = Returned /\ Seen' = Seen
      BY <2>1, <2>2 DEF Method, Returned, Seen
    <2>4. MayCommit' = MayCommit /\ Answered' = Answered
      BY <2>1, <2>2, CommandFacts DEF MayCommit, Answered
    <2>5. QED
      BY <2>1, <2>3, <2>4 DEF Database!vars
  <1>2. CASE SendCommit
    <2>1. /\ session'.open = session.open
          /\ UNCHANGED <<calls, cmd, child, result, last, stdout, orphans, db, dump, snapshot>>
      BY <1>2 DEF SendCommit, local, Inv, TypeOK, Sessions
    <2>2. QED
      BY <2>1 DEF Database!vars, Method, MayCommit, Seen, Answered, Returned
  <1>3. ASSUME NEW o \in Objects, DumpObject(o) PROVE UNCHANGED Database!vars
    <2>1. /\ child = "running"
          /\ UNCHANGED <<calls, cmd, child, session, result, last, stdout, orphans, db, snapshot>>
      BY <1>3 DEF DumpObject, local
    <2>2. Returned = {} /\ Returned' = {}
      BY <2>1 DEF Returned, Inv, CallInv
    <2>3. QED
      BY <2>1, <2>2 DEF Database!vars, Method, MayCommit, Seen, Answered
  <1>4. ASSUME NEW o \in Objects, RestoreObject(o) PROVE UNCHANGED Database!vars
    <2>1. /\ session'.open = session.open
          /\ UNCHANGED <<calls, cmd, child, result, last, stdout, orphans, dump, snapshot>>
      BY <1>4 DEF RestoreObject, local, Inv, TypeOK, Sessions
    <2>2. db' = db
      BY <1>4, ProgramFacts, CommandFacts DEF RestoreObject, SingleTransaction, Inv, TypeOK
    <2>3. QED
      BY <2>1, <2>2 DEF Database!vars, Method, MayCommit, Seen, Answered, Returned
  <1>5. QED
    BY <1>1, <1>2, <1>3, <1>4

\* psql answers, with what was asked for or not.
LEMMA QueryPort ==
  ASSUME Inv, Query
  PROVE  Database!Answer \/ UNCHANGED Database!vars
  <1>1. /\ child = "running" /\ child' = "success" /\ cmd.program = "psql"
        /\ UNCHANGED <<calls, cmd, result, last, orphans, db, dump, snapshot>>
    BY DEF Query, Exits, local
  <1>2. cmd = QueryCommand
    BY <1>1, ProgramFacts DEF Inv, TypeOK
  <1>3. /\ Method' = Method /\ MayCommit' = MayCommit /\ Seen' = Seen /\ Returned' = Returned
        /\ Method = "ping"
    BY <1>1, <1>2, CommandFacts DEF Method, MayCommit, Seen, Returned
  <1>4. Answered = FALSE
    BY <1>1 DEF Answered
  <1>5. Answered' \in {TRUE, FALSE}
    BY DEF Answered
  <1>6. QED
    BY <1>1, <1>3, <1>4, <1>5 DEF Database!Answer, Database!vars

\* The server commits the restore of the current call, the last that is open.
LEMMA CommitPort ==
  ASSUME Inv, Commit
  PROVE  Database!Next
  <1>1. /\ child = "running" /\ session.open /\ session.commit
        /\ db' = [o \in Objects |-> session.content]
        /\ child' \in {"success", "failure"}
        /\ UNCHANGED <<calls, cmd, result, last, stdout, orphans, dump, snapshot>>
    BY DEF Commit, Exits, local
  <1>2. /\ cmd = RestoreCommand /\ session.done = Objects /\ session.content = calls
        /\ calls \in Nat
    BY <1>1 DEF Inv, CallInv, TypeOK
  <1>3. \A s \in orphans : ~s.commit
    BY <1>2, PgAssumption DEF Inv, OrphanInv
  <1>4. MayCommit = {calls} /\ MayCommit' = {}
    BY <1>1, <1>2, <1>3 DEF MayCommit
  <1>5. Method' = Method /\ Returned' = Returned
    BY <1>1 DEF Method, Returned
  <1>6. Seen' = Seen /\ Answered' = Answered
    BY <1>1, <1>2, Mapping, MappingNext
  <1>7. Database!Commit(calls)
    BY <1>1, <1>2, <1>4, <1>5, <1>6 DEF Database!Commit, Database!Backup
  <1>8. QED
    BY <1>4, <1>7 DEF Database!Next

\* The server gets to the session of a killed child: the only one that can
\* commit before the current call.
LEMMA OrphanEndsPort ==
  ASSUME Inv, OrphansApart, OrphanEnds
  PROVE  Database!Next
  <1>1. PICK s \in orphans :
          /\ orphans' = orphans \ {s}
          /\ \/ db' = db
             \/ (s.commit \/ (s.alive /\ s.done # {})) /\ db' = [o \in Objects |-> s.content]
    BY DEF OrphanEnds
  <1>2. UNCHANGED <<calls, cmd, result, last, child, stdout, session, dump, snapshot>>
    BY DEF OrphanEnds, local
  <1>3. /\ Method' = Method /\ Seen' = Seen /\ Answered' = Answered /\ Returned' = Returned
    BY <1>2 DEF Method, Seen, Answered, Returned
  <1>4. CASE db' = db
    <2>1. MayCommit' \subseteq MayCommit
      BY <1>1, <1>2 DEF MayCommit
    <2>2. Database!GiveUp
      BY <1>2, <1>3, <1>4, <2>1 DEF Database!GiveUp
    <2>3. QED
      BY <2>2 DEF Database!Next
  <1>5. CASE s.commit /\ db' = [o \in Objects |-> s.content]
    <2>1. \A t \in orphans : t.commit => t = s
      BY <1>1, <1>5, PgAssumption DEF OrphansApart, Inv, OrphanInv
    <2>2. s.content \in Nat /\ calls \in Nat /\ (child = "running" => s.content < calls)
      BY PgAssumption DEF Inv, CallInv, OrphanInv, TypeOK, Sessions, Contents
    <2> DEFINE current == IF cmd = RestoreCommand /\ child = "running" THEN {calls} ELSE {}
    <2>3. MayCommit = {s.content} \cup current
      BY <1>1, <1>5, <2>1 DEF MayCommit
    <2>4. MayCommit' = current
      BY <1>1, <1>2, <2>1 DEF MayCommit
    <2>5. \A k \in current : k = calls /\ child = "running"
      OBVIOUS
    <2> HIDE DEF current
    <2>6. MayCommit' = {k \in MayCommit : k > s.content}
      BY <2>2, <2>3, <2>4, <2>5
    <2>7. Database!Commit(s.content)
      BY <1>2, <1>3, <1>5, <2>3, <2>6 DEF Database!Commit, Database!Backup
    <2>8. QED
      BY <2>3, <2>7 DEF Database!Next
  <1>6. ~s.alive
    BY DEF Inv, OrphanInv
  <1>7. QED
    BY <1>1, <1>4, <1>5, <1>6

\* Every step is a step of the abstract database, or none.
LEMMA StepPort == Inv /\ OrphansApart /\ [Next]_vars => [Database!Next]_(Database!vars)
  <1> SUFFICES ASSUME Inv, OrphansApart, [Next]_vars PROVE Database!Next \/ UNCHANGED Database!vars
    OBVIOUS
  <1>1. CASE UNCHANGED vars
    BY <1>1 DEF vars, Database!vars, Method, MayCommit, Seen, Answered, Returned
  <1>2. CASE \E c \in Commands : Execute(c)
    BY <1>2, ExecutePort
  <1>3. CASE RunFails \/ Finish \/ Timeout \/ Abandon("dropped")
    BY <1>3, FinishPort, AbandonPort DEF RunFails, Timeout
  <1>4. CASE Connect \/ Query \/ ChildFails \/ CommitFails \/ ChildLost
    BY <1>4, ConnectPort, QueryPort, FailurePort, ChildLostPort DEF Database!Next
  <1>5. CASE DumpEnds \/ SendCommit \/ \E o \in Objects : DumpObject(o) \/ RestoreObject(o)
    BY <1>5, HiddenPort
  <1>6. CASE Commit \/ OrphanEnds
    BY <1>6, CommitPort, OrphanEndsPort
  <1>7. QED
    BY <1>1, <1>2, <1>3, <1>4, <1>5, <1>6 DEF Next, ChildStep, AllServed

\* dump, restore and ping keep the contract of the ports Dumper, Restorer and
\* DbHealth.
THEOREM DatabaseCorrect == Spec => ImplementsDatabase
  <1>1. Init => Database!Init
    BY InitPort
  <1>2. Init => OrphansApart
    BY DEF Init, OrphansApart
  <1>3. Inv /\ OrphansApart /\ [Next]_vars => OrphansApart'
    BY ApartStep
  <1>4. Inv /\ OrphansApart /\ [Next]_vars => [Database!Next]_(Database!vars)
    BY StepPort
  <1>5. QED
    BY <1>1, <1>2, <1>3, <1>4, InvCorrect, PTL DEF Spec, ImplementsDatabase, Database!Spec

----------------------------------------------------------------------------
(* tail, on texts and limits of any length. *)

\* trim_end took the blanks at the end and nothing else.
Trimmed ==
    /\ \A i \in end + 1..Len(text) : text[i] = "space"
    /\ end > 0 => text[end] # "space"

\* The inductive invariant: the loop has passed no boundary from which the
\* rest would fit.
TailInv ==
    /\ text \in Seq(Bytes) /\ end \in 0..Len(text) /\ start \in 0..end
    /\ phase \in {"trim", "cut"} => start = 0
    /\ phase \in {"trim", "cut", "align", "done"}
    /\ phase # "trim" => Trimmed
    /\ phase \in {"align", "done"} =>
         /\ end - start <= Limit
         /\ \A i \in 0..start - 1 : IsCharBoundary(i) => end - i > Limit
    /\ phase = "done" => IsCharBoundary(start)

\* Every non-empty set of numbers has a least one.
LEMMA LeastNumber ==
  ASSUME NEW S \in SUBSET Nat, S # {}
  PROVE  \E n \in S : \A m \in S : n <= m
  <1>1. PICK n \in S : \A m \in S : ~(<<m, n>> \in OpToRel(<, Nat))
    BY NatLessThanWellFounded, WFMin
  <1>2. \A m \in S : ~(m < n)
    BY <1>1 DEF OpToRel
  <1>3. QED
    BY <1>2

\* What s.trim_end() leaves.
LEMMA TrimEndTrims ==
  ASSUME TailInv, TrimEnd
  PROVE  end' \in 0..Len(text) /\ Trimmed'
  <1> DEFINE ends == {n \in 0..Len(text) : \A i \in n + 1..Len(text) : text[i] = "space"}
  <1>1. Len(text) \in Nat /\ text' = text
    BY DEF TailInv, TrimEnd
  <1>2. ends \subseteq Nat /\ Len(text) \in ends
    BY <1>1
  <1>3. PICK e \in ends : end' = e /\ \A m \in ends : e <= m
    BY <1>2, LeastNumber DEF TrimEnd
  <1>4. e \in 0..Len(text) /\ \A i \in e + 1..Len(text) : text[i] = "space"
    BY <1>3
  <1>5. ASSUME e > 0, text[e] = "space" PROVE FALSE
    <2>1. e - 1 \in 0..Len(text)
      BY <1>1, <1>4, <1>5
    <2>2. \A i \in (e - 1) + 1..Len(text) : text[i] = "space"
      BY <1>1, <1>4, <1>5
    <2>3. e - 1 \in ends
      BY <2>1, <2>2
    <2>4. ~(e <= e - 1)
      BY <1>4
    <2>5. QED
      BY <1>3, <2>3, <2>4
  <1>6. QED
    BY <1>1, <1>3, <1>4, <1>5 DEF Trimmed

\* A text is a sequence of bytes.
LEMMA TailInitInv == TailInit => TailInv
  <1> SUFFICES ASSUME TailInit PROVE TailInv
    OBVIOUS
  <1>1. text \in Seq(Bytes)
    BY TailAssumption DEF TailInit, Texts
  <1>2. QED
    BY <1>1 DEF TailInit, TailInv

\* The three steps of tail.
LEMMA TailStepInv == TailInv /\ [TailNext]_tailVars => TailInv'
  <1> SUFFICES ASSUME TailInv, [TailNext]_tailVars PROVE TailInv'
    OBVIOUS
  <1>1. CASE TrimEnd
    BY <1>1, TrimEndTrims DEF TrimEnd, TailInv
  <1>2. CASE Cut
    BY <1>2, TailAssumption DEF Cut, TailInv, Trimmed, IsCharBoundary
  <1>3. CASE Align
    BY <1>3, TailAssumption DEF Align, TailInv, Trimmed, IsCharBoundary
  <1>4. CASE UNCHANGED tailVars
    BY <1>4 DEF tailVars, TailInv, Trimmed, IsCharBoundary
  <1>5. QED
    BY <1>1, <1>2, <1>3, <1>4 DEF TailNext

\* Whatever a program printed and whatever the limit, tail returns the longest
\* end of it that fits, cut at a character: the slice never panics.
THEOREM TailCorrect == TailSpec => []TailIsLongestFit
  <1>1. TailInv => TailIsLongestFit
    BY DEF TailInv, Trimmed, TailIsLongestFit
  <1>2. QED
    BY <1>1, TailInitInv, TailStepInv, PTL DEF TailSpec

----------------------------------------------------------------------------
(***************************************************************************)
(* The settings that the tools and the rest of the server run on, for any  *)
(* environment: any numbers, texts, unset keys and values that are not     *)
(* Unicode.                                                                *)
(***************************************************************************)
AllKeys == {Keys[i] : i \in 1..Len(Keys)}

\* The keys from_source has read.
Read == {Keys[i] : i \in 1..next - 1}

ValueType == [type : {"unset", "not_unicode", "text", "number"}, n : Int]

SettingsType == [port : Int, level : Int, retention : Int, timeout : Int]

\* The inductive invariant: every key read so far was good, and a number that
\* was read is in use; everything else has its default.
StartInv ==
    /\ env \in [AllKeys -> ValueType] /\ settings \in SettingsType
    /\ stage \in {"read", "connect", "listen", "serving", "failed"}
    /\ next \in 1..Len(Keys) + 1
    /\ stage = "read" => next <= Len(Keys)
    /\ stage \in {"connect", "listen", "serving"} => next = Len(Keys) + 1
    /\ \A k \in Read : Good(k, Get(env[k]))
    /\ \A k \in DOMAIN Field :
         settings[Field[k]] =
           IF k \in Read /\ env[k].type = "number" THEN env[k].n ELSE Defaults[Field[k]]

----------------------------------------------------------------------------
\* from_source reads eleven keys.
LEMMA KeysFacts ==
  /\ Len(Keys) = 11
  /\ AllKeys = {"DB_HOST", "DB_PORT", "DB_USERNAME", "DB_PASSWORD", "DB_NAME",
                "COMPRESSION_LEVEL", "DRIVE_RETENTION_COUNT", "PG_TIMEOUT_SECS",
                "LISTEN_ADDR", "DRIVE_CREDS", "DRIVE_FOLDER_ID"}
  /\ Required \subseteq AllKeys /\ DOMAIN Field \subseteq AllKeys
  <1>1. Len(Keys) = 11
    BY DEF Keys
  <1>2. AllKeys = {"DB_HOST", "DB_PORT", "DB_USERNAME", "DB_PASSWORD", "DB_NAME",
                   "COMPRESSION_LEVEL", "DRIVE_RETENTION_COUNT", "PG_TIMEOUT_SECS",
                   "LISTEN_ADDR", "DRIVE_CREDS", "DRIVE_FOLDER_ID"}
    <2>1. 1..11 = {1, 2, 3, 4, 5, 6, 7, 8, 9, 10, 11}
      OBVIOUS
    <2>2. /\ Keys[1] = "DB_HOST" /\ Keys[2] = "DB_PORT" /\ Keys[3] = "DB_USERNAME"
          /\ Keys[4] = "DB_PASSWORD" /\ Keys[5] = "DB_NAME" /\ Keys[6] = "COMPRESSION_LEVEL"
          /\ Keys[7] = "DRIVE_RETENTION_COUNT" /\ Keys[8] = "PG_TIMEOUT_SECS"
          /\ Keys[9] = "LISTEN_ADDR" /\ Keys[10] = "DRIVE_CREDS"
          /\ Keys[11] = "DRIVE_FOLDER_ID"
      BY DEF Keys
    <2>3. QED
      BY <1>1, <2>1, <2>2 DEF AllKeys
  <1>3. QED
    BY <1>1, <1>2 DEF Required, Field

\* What from_env hands over: numbers and texts as they are, nothing else.
LEMMA GetFacts ==
  ASSUME NEW v \in ValueType
  PROVE  /\ v.type \in {"text", "number"} => Get(v) = v
         /\ v.type \in {"unset", "not_unicode"} => Get(v).type = "unset"
         /\ Get(v) \in ValueType
  BY DEF Get, Unset, ValueType

\* Each numeric key has a field of its own.
LEMMA FieldFacts ==
  /\ DOMAIN Field = {"DB_PORT", "COMPRESSION_LEVEL", "DRIVE_RETENTION_COUNT", "PG_TIMEOUT_SECS"}
  /\ Field["DB_PORT"] = "port" /\ Field["COMPRESSION_LEVEL"] = "level"
  /\ Field["DRIVE_RETENTION_COUNT"] = "retention" /\ Field["PG_TIMEOUT_SECS"] = "timeout"
  BY DEF Field

\* The defaults of settings.rs are usable themselves.
LEMMA DefaultsFacts ==
  /\ Defaults \in SettingsType
  /\ Defaults["port"] \in U16 /\ Defaults["level"] \in 1..22
  /\ Defaults["retention"] = 0 /\ Defaults["timeout"] >= 1
  <1>1. DefaultDbPort \in U16 /\ DefaultDbPort \in Int /\ DefaultPgTimeoutSecs \in Int /\ DefaultPgTimeoutSecs >= 1
    BY SMT DEF DefaultDbPort, DefaultPgTimeoutSecs, U16
  <1>2. DefaultLevel \in Int /\ DefaultLevel \in 1..22
    BY DEF DefaultLevel
  <1>3. QED
    BY <1>1, <1>2 DEF Defaults, SettingsType

\* Nothing has been read yet.
LEMMA StartInitInv == StartInit => StartInv
  <1> SUFFICES ASSUME StartInit PROVE StartInv
    OBVIOUS
  <1>1. ASSUME NEW k, NEW S \in SUBSET Int PROVE Values(k, S) \subseteq ValueType
    <2>1. {Unset, Text, NotUnicode} \subseteq ValueType
      BY DEF ValueType, Unset, NotUnicode, Text
    <2>2. {Number(n) : n \in S} \subseteq ValueType
      BY DEF ValueType, Number
    <2>3. QED
      BY <2>1, <2>2 DEF Values
  <1>2. {0} \subseteq Int /\ {} \subseteq Int
    OBVIOUS
  <1>3. env \in [AllKeys -> ValueType]
    BY <1>1, <1>2, NumbersAssumption, KeysFacts DEF StartInit
  <1>4. Read = {}
    BY DEF Read, StartInit
  <1>5. QED
    BY <1>3, <1>4, KeysFacts, DefaultsFacts DEF StartInit, StartInv

\* One key of from_source.
LEMMA ReadKeyInv == StartInv /\ ReadKey => StartInv'
  <1> SUFFICES ASSUME StartInv, ReadKey PROVE StartInv'
    OBVIOUS
  <1> DEFINE key == Keys[next]
  <1>1. /\ stage = "read" /\ env' = env /\ next \in 1..Len(Keys) /\ Len(Keys) = 11
        /\ key \in AllKeys /\ env[key] \in ValueType
    BY KeysFacts DEF ReadKey, StartInv, AllKeys
  <1>2. /\ Get(env[key]).type = "number" <=> env[key].type = "number"
        /\ env[key].type = "number" => Get(env[key]) = env[key]
    BY <1>1, GetFacts DEF ValueType
  <1>3. CASE /\ ~Good(key, Get(env[key])) /\ stage' = "failed" /\ UNCHANGED <<next, settings>>
    BY <1>1, <1>3 DEF StartInv, Read
  <1>4. CASE /\ Good(key, Get(env[key]))
             /\ settings' = IF key \in DOMAIN Field /\ env[key].type = "number"
                            THEN [settings EXCEPT ![Field[key]] = env[key].n] ELSE settings
             /\ next' = next + 1
             /\ stage' = IF next = Len(Keys) THEN "connect" ELSE "read"
    <2>1. Read' = Read \cup {key}
      BY <1>1, <1>4 DEF Read
    <2>2. \A k \in Read' : Good(k, Get(env'[k]))
      BY <1>1, <1>4, <2>1 DEF StartInv
    <2>3. settings' \in SettingsType
      BY <1>1, <1>4, FieldFacts DEF StartInv, SettingsType, ValueType
    <2>4. ASSUME NEW k \in DOMAIN Field
          PROVE  settings'[Field[k]] = IF k \in Read' /\ env[k].type = "number"
                                       THEN env[k].n ELSE Defaults[Field[k]]
      <3>1. CASE key \in DOMAIN Field /\ env[key].type = "number"
        <4>1. settings' = [settings EXCEPT ![Field[key]] = env[key].n]
          BY <1>4, <3>1
        <4>2. CASE k = key
          BY <2>1, <3>1, <4>1, <4>2, FieldFacts DEF StartInv, SettingsType
        <4>3. CASE k # key
          <5>1. settings'[Field[k]] = settings[Field[k]]
            BY <3>1, <4>1, <4>3, FieldFacts DEF StartInv, SettingsType
          <5>2. QED
            BY <2>1, <4>3, <5>1 DEF StartInv
        <4>4. QED
          BY <4>2, <4>3
      <3>2. CASE ~(key \in DOMAIN Field /\ env[key].type = "number")
        BY <1>4, <2>1, <3>2 DEF StartInv
      <3>3. QED
        BY <3>1, <3>2
    <2>5. /\ stage' \in {"read", "connect"} /\ next' \in 1..Len(Keys) + 1
          /\ stage' = "read" => next' <= Len(Keys)
          /\ stage' = "connect" => next' = Len(Keys) + 1
      BY <1>1, <1>4
    <2>6. env' \in [AllKeys -> ValueType]
      BY <1>1 DEF StartInv
    <2>7. \A k \in DOMAIN Field :
            settings'[Field[k]] = IF k \in Read' /\ env'[k].type = "number"
                                  THEN env'[k].n ELSE Defaults[Field[k]]
      BY <1>1, <2>4
    <2>8. QED
      BY <2>2, <2>3, <2>5, <2>6, <2>7 DEF StartInv
  <1>5. QED
    BY <1>2, <1>3, <1>4 DEF ReadKey

\* The invariant holds at every moment of the start.
THEOREM StartInvCorrect == StartSpec => []StartInv
  <1>1. StartInv /\ [StartNext]_startVars => StartInv'
    <2> SUFFICES ASSUME StartInv, [StartNext]_startVars PROVE StartInv'
      OBVIOUS
    <2>1. CASE ReadKey
      BY <2>1, ReadKeyInv
    <2>2. CASE ConnectDrive \/ Listen
      BY <2>2 DEF ConnectDrive, Listen, StartInv, Read
    <2>3. CASE Up \/ UNCHANGED startVars
      BY <2>3 DEF Up, startVars, StartInv, Read
    <2>4. QED
      BY <2>1, <2>2, <2>3 DEF StartNext
  <1>2. QED
    BY <1>1, StartInitInv, PTL DEF StartSpec

----------------------------------------------------------------------------
\* After the last key every one of them was good, and each number given is in
\* use.
LEMMA AllRead ==
  ASSUME StartInv, stage \in {"connect", "listen", "serving"}
  PROVE  /\ \A k \in AllKeys : Good(k, Get(env[k]))
         /\ \A k \in DOMAIN Field :
              settings[Field[k]] = IF env[k].type = "number" THEN env[k].n
                                   ELSE Defaults[Field[k]]
  <1>1. Read = AllKeys
    BY KeysFacts DEF StartInv, Read, AllKeys
  <1>2. QED
    BY <1>1, KeysFacts DEF StartInv

\* The port, the zstd level, the retention and the time limit that the other
\* modules take for granted.
THEOREM SettingsUsableCorrect == StartSpec => []SettingsUsable
  <1>1. StartInv => SettingsUsable
    <2> SUFFICES ASSUME StartInv, stage \in {"connect", "listen", "serving"}
                 PROVE  /\ settings.port \in U16 /\ settings.level \in 1..22
                        /\ Given("DRIVE_RETENTION_COUNT") => settings.retention >= 1
                        /\ settings.timeout >= 1
      BY DEF SettingsUsable
    <2>1. ASSUME NEW k \in DOMAIN Field
          PROVE  \/ env[k].type \in {"unset", "not_unicode"}
                 \/ env[k].type = "number" /\ env[k].n \in Int /\ Accepts(k, env[k].n)
      <3>1. Good(k, Get(env[k])) /\ env[k] \in ValueType /\ k \notin Required
        BY AllRead, KeysFacts, FieldFacts DEF StartInv, Required
      <3>2. QED
        BY <3>1, GetFacts DEF Good, ValueType
    <2>2. settings.port \in U16
      BY <2>1, AllRead, FieldFacts, DefaultsFacts DEF Accepts, Given
    <2>3. settings.level \in 1..22
      <3>1. "COMPRESSION_LEVEL" \in DOMAIN Field /\ Field["COMPRESSION_LEVEL"] = "level"
        BY FieldFacts
      <3>2. \/ env["COMPRESSION_LEVEL"].type \in {"unset", "not_unicode"}
            \/ /\ env["COMPRESSION_LEVEL"].type = "number"
               /\ Accepts("COMPRESSION_LEVEL", env["COMPRESSION_LEVEL"].n)
        BY <2>1, <3>1
      <3>3. CASE env["COMPRESSION_LEVEL"].type \in {"unset", "not_unicode"}
        <4>1. settings["level"] = Defaults["level"]
          BY <3>1, <3>3, AllRead
        <4>2. QED
          BY <4>1, DefaultsFacts
      <3>4. CASE /\ env["COMPRESSION_LEVEL"].type = "number"
                 /\ Accepts("COMPRESSION_LEVEL", env["COMPRESSION_LEVEL"].n)
        <4>1. settings["level"] = env["COMPRESSION_LEVEL"].n
          BY <3>1, <3>4, AllRead
        <4>2. QED
          BY <3>4, <4>1 DEF Accepts, ZstdLevel
      <3>5. QED
        BY <3>2, <3>3, <3>4
    <2>4. Given("DRIVE_RETENTION_COUNT") => settings.retention >= 1
      BY <2>1, AllRead, FieldFacts, DefaultsFacts DEF Accepts, Given
    <2>5. settings.timeout >= 1
      BY <2>1, AllRead, FieldFacts, DefaultsFacts DEF Accepts, Given
    <2>6. QED
      BY <2>2, <2>3, <2>4, <2>5
  <1>2. QED
    BY <1>1, StartInvCorrect, PTL

\* Settings::from_env and from_source: a key set to Unicode text is the value
\* in use; one that is unset, or not Unicode, has its default or, if it is
\* required, stops the start.
THEOREM SettingsAsGivenCorrect == StartSpec => []SettingsAsGiven
  <1>1. StartInv => SettingsAsGiven
    <2> SUFFICES ASSUME StartInv, stage \in {"connect", "listen", "serving"}
                 PROVE  /\ \A k \in Required : Given(k)
                        /\ \A k \in DOMAIN Field :
                             IF Given(k) THEN env[k] = Number(settings[Field[k]])
                             ELSE settings[Field[k]] = Defaults[Field[k]]
      BY DEF SettingsAsGiven
    <2>1. ASSUME NEW k \in Required PROVE Given(k)
      <3>1. env[k] \in ValueType /\ Get(env[k]).type # "unset"
        BY AllRead, KeysFacts DEF StartInv, Good
      <3>2. QED
        BY <3>1, GetFacts DEF Given
    <2>2. ASSUME NEW k \in DOMAIN Field
          PROVE  IF Given(k) THEN env[k] = Number(settings[Field[k]])
                 ELSE settings[Field[k]] = Defaults[Field[k]]
      <3>1. env[k] \in ValueType /\ Good(k, Get(env[k])) /\ k \notin Required
        BY AllRead, KeysFacts, FieldFacts DEF StartInv, Required
      <3>2. CASE ~Given(k)
        <4>1. env[k].type # "number"
          BY <3>2 DEF Given
        <4>2. QED
          BY <3>2, <4>1, AllRead
      <3>3. CASE Given(k)
        <4>1. env[k].type = "number"
          BY <3>1, <3>3, GetFacts DEF Good, Given, ValueType
        <4>2. settings[Field[k]] = env[k].n
          BY <4>1, AllRead
        <4>3. QED
          BY <3>1, <3>3, <4>1, <4>2 DEF Number, ValueType
      <3>4. QED
        BY <3>2, <3>3
    <2>3. QED
      BY <2>1, <2>2
  <1>2. QED
    BY <1>1, StartInvCorrect, PTL
=============================================================================
