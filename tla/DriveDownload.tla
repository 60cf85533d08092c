---------------------------- MODULE DriveDownload ----------------------------
(***************************************************************************)
(* Storage::download of GoogleDriveStorage: download_once under the retry  *)
(* loop, down to the writes on the local file.                             *)
(*                                                                         *)
(* tokio::fs::File hands a write to the blocking pool and returns; the     *)
(* next write, and flush, wait for it.  A File that is dropped before that *)
(* leaves its write to the pool, and the pool carries it out whenever it   *)
(* gets to it, at the position the dropped File had reached.               *)
(*                                                                         *)
(* The content is a sequence of Frames blocks, numbered by their position; *)
(* a block that the transport damaged is 0, one that was never written -1. *)
(***************************************************************************)
EXTENDS Integers, Sequences, DriveErrors

CONSTANT Frames  \* the length of the file on Drive, in blocks

ASSUME FramesAssumption == Frames \in Nat \ {0}

VARIABLES
    stage,    \* "request" (headers), "create", "body", "flush", "sleep", "done"
    attempt, delay,
    md5,      \* backup.md5 is Some
    got,      \* the blocks received in this attempt: what the hasher saw
    pending,  \* the write of the open File that the pool still has, or {}
    orphans,  \* writes that dropped Files left to the pool
    disk,     \* the local file
    result,
    late      \* history: every write that a dropped File left to the pool

vars == <<stage, attempt, delay, md5, got, pending, orphans, disk, result, late>>

Content == [i \in 1..Frames |-> i]

Empty == [i \in 1..Frames |-> -1]

\* A write is a block with its position.
Write(w) == disk' = [disk EXCEPT ![w[1]] = w[2]]

----------------------------------------------------------------------------
\* The attempt ends and its File is dropped.
Leave ==
    /\ orphans' = orphans \cup pending
    /\ pending' = {}
    /\ late' = late \cup pending

\* download_once failed: retry it or give up.
Failed(err) ==
    /\ \/ Retries(err, attempt) /\ stage' = "sleep" /\ UNCHANGED result
       \/ ~Retries(err, attempt) /\ stage' = "done" /\ result' = IntoError(err)
    /\ Leave
    /\ UNCHANGED <<attempt, delay>>

Wake ==
    /\ stage = "sleep" /\ stage' = "request"
    /\ attempt' = attempt + 1
    /\ delay' = NextDelay(delay)
    /\ UNCHANGED <<md5, got, pending, orphans, disk, result, late>>

\* timed(files().get(id), alt=media): the headers arrive.
Headers ==
    /\ stage = "request" /\ stage' = "create"
    /\ UNCHANGED <<attempt, delay, md5, got, pending, orphans, disk, result, late>>

\* Drive refuses the request.
Refused ==
    /\ stage = "request"
    /\ \E r \in Refusals : Failed(ClassifyStatus(r))
    /\ UNCHANGED <<md5, got, disk>>

\* The request gets no usable answer, within its time limit or at all.
RequestBreaks(b) ==
    /\ stage = "request"
    /\ Failed(ClassifyBreak(b))
    /\ UNCHANGED <<md5, got, disk>>

\* Mutant: the file is opened for writing without being truncated.
CreateKeeping ==
    /\ stage = "create" /\ stage' = "body"
    /\ got' = <<>>
    /\ UNCHANGED <<attempt, delay, md5, pending, orphans, disk, result, late>>

\* File::create truncates what an earlier attempt left; a new hasher.
Create ==
    /\ stage = "create" /\ stage' = "body"
    /\ disk' = Empty
    /\ got' = <<>>
    /\ UNCHANGED <<attempt, delay, md5, pending, orphans, result, late>>

CreateFails == stage = "create" /\ Failed("Io") /\ UNCHANGED <<md5, got, disk>>

\* A block arrives, damaged or not, is hashed and handed to the pool.
Frame ==
    /\ stage = "body" /\ Len(got) < Frames /\ pending = {}
    /\ \E block \in {0, Len(got) + 1} :
         /\ got' = Append(got, block)
         /\ pending' = {<<Len(got) + 1, block>>}
    /\ UNCHANGED <<stage, attempt, delay, md5, orphans, disk, result, late>>

\* Mutant: body.frame() is awaited without a limit.
BodyBreaksUntimed(why) ==
    /\ stage = "body" /\ why # "idle"
    /\ Failed("Transient")
    /\ UNCHANGED <<md5, got, disk>>

\* No bytes for read_idle_timeout, or the body breaks off with an error.
BodyBreaks(why) ==
    /\ stage = "body" /\ why \in {"idle", "error"}
    /\ Failed("Transient")
    /\ UNCHANGED <<md5, got, disk>>

\* A write failed; the next write or the flush reports it.
WriteFails ==
    /\ stage \in {"body", "flush"} /\ pending # {}
    /\ Failed("Io")
    /\ UNCHANGED <<md5, got, disk>>

\* The body ends, too early perhaps.
BodyEnds ==
    /\ stage = "body" /\ stage' = "flush"
    /\ UNCHANGED <<attempt, delay, md5, got, pending, orphans, disk, result, late>>

\* Mutant: the checksum is looked at without waiting for the last write.
VerifyUnflushed ==
    /\ stage = "flush"
    /\ \/ /\ ~md5 \/ got = Content
          /\ stage' = "done" /\ result' = "Ok"
          /\ Leave /\ UNCHANGED <<attempt, delay>>
       \/ md5 /\ got # Content /\ Failed("Transient")
    /\ UNCHANGED <<md5, got, disk>>

\* Mutant: the checksum is compared, and the answer ignored.
VerifyLenient ==
    /\ stage = "flush" /\ pending = {}
    /\ stage' = "done" /\ result' = "Ok"
    /\ Leave
    /\ UNCHANGED <<attempt, delay, md5, got, disk>>

\* flush has waited for the last write; then the checksum, if there is one.
Verify ==
    /\ stage = "flush" /\ pending = {}
    /\ \/ /\ ~md5 \/ got = Content
          /\ stage' = "done" /\ result' = "Ok"
          /\ Leave /\ UNCHANGED <<attempt, delay>>
       \/ md5 /\ got # Content /\ Failed("Transient")
    /\ UNCHANGED <<md5, got, disk>>

----------------------------------------------------------------------------
\* The blocking pool carries out a write: of the open File, or of a dropped one.
PoolWrite ==
    /\ \E w \in pending : Write(w)
    /\ pending' = {}
    /\ UNCHANGED <<stage, attempt, delay, md5, got, orphans, result, late>>

OrphanWrite ==
    /\ \E w \in orphans : Write(w) /\ orphans' = orphans \ {w}
    /\ UNCHANGED <<stage, attempt, delay, md5, got, pending, result, late>>

----------------------------------------------------------------------------
Init ==
    /\ stage = "request" /\ attempt = 1 /\ delay = BaseDelay
    /\ md5 \in BOOLEAN
    /\ got = <<>> /\ pending = {} /\ orphans = {}
    /\ disk = Empty /\ result = "none" /\ late = {}

\* What happens without the server's help: the timers and the local steps.
Progress ==
    \/ Wake
    \/ RequestBreaks("timeout")
    \/ Create \/ CreateFails
    \/ BodyBreaks("idle")
    \/ PoolWrite \/ WriteFails
    \/ Verify

Server ==
    \/ Headers \/ Refused \/ Frame \/ BodyEnds
    \/ \E b \in Breaks \ {"timeout"} : RequestBreaks(b)
    \/ BodyBreaks("error")

Finished == stage = "done" /\ UNCHANGED vars

Next == Progress \/ Server \/ OrphanWrite \/ Finished

Spec == Init /\ [][Next]_vars

FairSpec == Spec /\ WF_vars(Progress)

----------------------------------------------------------------------------
\* The type of the state.
TypeOK ==
    /\ stage \in {"request", "create", "body", "flush", "sleep", "done"}
    /\ attempt \in Nat \ {0} /\ delay \in Nat \ {0}
    /\ md5 \in BOOLEAN
    /\ got \in Seq(0..Frames) /\ Len(got) <= Frames
    /\ pending \subseteq (1..Frames) \X (0..Frames)
    /\ orphans \subseteq late /\ late \subseteq (1..Frames) \X (0..Frames)
    /\ disk \in [1..Frames -> -1..Frames]
    /\ result \in {"none", "Ok", "NotFound", "Storage", "Unavailable", "Io"}

\* The file of a download that returned Ok is what its last attempt received
\* and nothing else: a block that differs was written late, by the File of an
\* attempt that had been given up.
AcceptedIsReceived ==
    result = "Ok" =>
      \A i \in 1..Frames :
        \/ disk[i] = IF i <= Len(got) THEN got[i] ELSE -1
        \/ <<i, disk[i]>> \in late

\* Ok from a download with a checksum: the file holds the content on Drive,
\* every block of it, whatever earlier attempts left behind or still write.
\* The exception is a damaged block that an attempt received and left to the
\* pool when it broke off: it may reach the file after the checksum.
DownloadIntact ==
    result = "Ok" /\ md5 /\ (\A w \in late : w[2] # 0) => disk = Content

\* download returns, whatever the server does: the request, each frame and
\* each sleep is limited, and so is the number of attempts.
DownloadEnds == <>(stage = "done")

=============================================================================
