---------------------------- MODULE DatabasePort ----------------------------
(***************************************************************************)
(* What the use cases count on when they call the ports Dumper, Restorer   *)
(* and DbHealth (backup-core/src/ports.rs): the specification that PgTools *)
(* implements, and that DumpOk, RestoreOk, RestoreFail and Commit of       *)
(* BackupService take for granted.                                         *)
(*                                                                         *)
(* The n-th call, when it is a restore, is one of Backup(n).               *)
(***************************************************************************)
EXTENDS Naturals

CONSTANT Objects  \* the objects of the database

VARIABLES
    calls,     \* calls made
    method,    \* the method of the current call, or "none"
    db,        \* the database
    open,      \* the restores that may still take effect
    seen,      \* what a dump has seen: nothing, or a database
    answered,  \* the database has answered a ping
    dumped,    \* what the last call, a dump, stored: nothing, or a database
    result     \* what the last call returned

vars == <<calls, method, db, open, seen, answered, dumped, result>>

Methods == {"dump", "restore", "ping"}

Results == {"Ok", "Process", "FailedPrecondition", "Io", "Timeout", "dropped"}

Backup(n) == [o \in Objects |-> n]

Init ==
    /\ calls = 0 /\ method = "none" /\ result = "none"
    /\ db = Backup(0) /\ open = {} /\ seen = {} /\ dumped = {} /\ answered = FALSE

Call(m) ==
    /\ method = "none" /\ method' = m
    /\ calls' = calls + 1
    /\ open' = IF m = "restore" THEN open \cup {calls + 1} ELSE open
    /\ dumped' = {} /\ result' = "none"
    /\ UNCHANGED <<db, seen, answered>>

Look ==
    /\ method = "dump" /\ seen' = {db}
    /\ UNCHANGED <<calls, method, db, open, answered, dumped, result>>

Answer ==
    /\ method = "ping" /\ answered' = TRUE
    /\ UNCHANGED <<calls, method, db, open, seen, dumped, result>>

\* A restore takes effect, and none that was called before it can follow.
Commit(n) ==
    /\ n \in open
    /\ db' = Backup(n) /\ open' = {k \in open : k > n}
    /\ UNCHANGED <<calls, method, seen, answered, dumped, result>>

\* A dump or a restore fails.
GiveUp ==
    /\ open' \subseteq open /\ seen' \subseteq seen
    /\ UNCHANGED <<calls, method, db, answered, dumped, result>>

\* Ok is true and final.  An error from a dump or a restore says nothing of
\* the database: a restore may have taken effect, or may still do so.
Return(r) ==
    /\ method # "none" /\ method' = "none"
    /\ result' = r
    /\ open' \subseteq open
    /\ r = "Ok" /\ method = "restore" => db = Backup(calls) /\ open' = {}
    /\ r = "Ok" /\ method = "dump" => seen # {}
    /\ r = "Ok" /\ method = "ping" => answered
    /\ r = "FailedPrecondition" => method = "ping" /\ ~answered
    /\ dumped' = IF r = "Ok" /\ method = "dump" THEN seen ELSE {}
    /\ seen' = {} /\ answered' = FALSE
    /\ UNCHANGED <<calls, db>>

Next ==
    \/ \E m \in Methods : Call(m)
    \/ Look \/ Answer \/ GiveUp
    \/ \E n \in open : Commit(n)
    \/ \E r \in Results : Return(r)

Spec == Init /\ [][Next]_vars
=============================================================================
