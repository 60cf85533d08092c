----------------------------- MODULE StoragePort -----------------------------
(***************************************************************************)
(* What the use cases count on when they call the Storage port             *)
(* (backup-core/src/ports.rs): the specification that DriveCall implements *)
(* and that UploadOk, UploadFail, DeleteOk and DeleteFail of BackupService *)
(* take for granted.                                                       *)
(*                                                                         *)
(* One call about one file.  It has its effect at most once when it is an  *)
(* upload, never after an answer that rules it out, and possibly after an  *)
(* answer that does not.                                                   *)
(***************************************************************************)
EXTENDS Naturals

VARIABLES
    op,      \* the method called
    phase,   \* "idle", "pending" or "done"
    copies,  \* how many copies of the file the storage holds
    open,    \* the effect of the call may still come
    result   \* what the call returned

vars == <<op, phase, copies, open, result>>

Reads == {"get", "list", "list_page"}

Methods == Reads \cup {"upload", "delete"}

Results == {"Ok", "NotFound", "Storage", "Unavailable", "Io", "InvalidArgument",
            "FailedPrecondition", "dropped"}

Init ==
    /\ op = "none" /\ phase = "idle" /\ result = "none" /\ open = FALSE
    /\ copies \in {0, 1}

\* An upload makes a new file: there is none of it yet.
Call(method) ==
    /\ phase = "idle" /\ phase' = "pending"
    /\ op' = method
    /\ method = "upload" => copies = 0
    /\ open' = (method \notin Reads)
    /\ UNCHANGED <<copies, result>>

\* The call fails before it reaches the storage.
FailAtOnce(method) ==
    /\ phase = "idle" /\ phase' = "done"
    /\ op' = method /\ result' = "Io"
    /\ UNCHANGED <<copies, open>>

Effect ==
    /\ open
    /\ \/ op = "upload" /\ copies' = 1 /\ copies = 0 /\ open' = FALSE
       \/ op = "delete" /\ copies' = 0 /\ open' \in BOOLEAN
    /\ UNCHANGED <<op, phase, result>>

Close == open /\ open' = FALSE /\ UNCHANGED <<op, phase, copies, result>>

\* Somebody else removes the file.
Vanish ==
    /\ op # "upload" /\ copies' = 0
    /\ UNCHANGED <<op, phase, open, result>>

Return(r) ==
    /\ phase = "pending" /\ phase' = "done"
    /\ result' = r
    /\ open' \in {open, FALSE}
    /\ r = "Ok" /\ op = "upload" => copies = 1 /\ ~open'
    /\ r = "Ok" /\ op = "delete" => copies = 0
    /\ r \in {"NotFound", "Io", "InvalidArgument", "FailedPrecondition"} /\ op = "upload"
         => copies = 0 /\ ~open'
    /\ r = "NotFound" => op # "delete"
    /\ UNCHANGED <<op, copies>>

Next ==
    \/ \E m \in Methods : Call(m) \/ FailAtOnce(m)
    \/ \E r \in Results : Return(r)
    \/ Effect \/ Close \/ Vanish

Spec == Init /\ [][Next]_vars
=============================================================================
