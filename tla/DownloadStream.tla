---------------------------- MODULE DownloadStream ----------------------------
(***************************************************************************)
(* The tail of DownloadBackup: the task that streams the temporary file to *)
(* the client through a bounded channel, for several clients at a time,    *)
(* and the shutdown of the server under them.  Of the handler's first      *)
(* part, service.download, only the outcome is here; its steps are in      *)
(* BackupService.                                                          *)
(*                                                                         *)
(* A file is Chunks chunks, numbered.  A message is a chunk, the header    *)
(* (Info) or a Status (Error).                                             *)
(***************************************************************************)
EXTENDS Naturals, Sequences

CONSTANTS
    Clients,
    Readers,  \* clients that go on reading; the others may stop
    Chunks,
    Buffer    \* STREAM_BUFFER

ASSUME StreamAssumption ==
    /\ Readers \subseteq Clients
    /\ Chunks \in Nat
    /\ Buffer \in Nat \ {0}

VARIABLES
    server,   \* "serving", "draining" after the signal, "exited"
    task,     \* the spawned task: "none", "open", "read", "send", "end"
    position, \* chunks the task has read
    hand,     \* the message that tx.send is about to send
    channel,  \* the messages between the task and the response stream
    stream,   \* the response: "none", "called" (the handler waits for
              \* service.download), "open", "ok", "error", "gone" (client left)
    received, \* the messages the client got
    file      \* the temporary file exists

streamVars == <<server, task, position, hand, channel, stream, received, file>>

Info == 0

Error == Chunks + 1

\* What a client is to get: the header, then the chunks 1, 2, ...
Whole == [i \in 1..Chunks + 1 |-> IF i = 1 THEN Info ELSE i - 1]

\* A response that has come to its end; its receiver is dropped.
Over == {"ok", "error", "gone"}

\* Left of the task when it ends: the NamedTempFile goes with it.
EndTask(c) ==
    /\ task' = [task EXCEPT ![c] = "end"]
    /\ file' = [file EXCEPT ![c] = FALSE]

----------------------------------------------------------------------------
\* A request gets to download_backup.  The signal closes the listener; a
\* request under way on an open connection is still taken.
Accept(c) ==
    /\ server # "exited" /\ stream[c] = "none"
    /\ stream' = [stream EXCEPT ![c] = "called"]
    /\ UNCHANGED <<server, task, position, hand, channel, received, file>>

\* backup_target or service.download fails: a Status is the whole response.
Refuse(c) ==
    /\ stream[c] = "called"
    /\ stream' = [stream EXCEPT ![c] = "error"]
    /\ UNCHANGED <<server, task, position, hand, channel, received, file>>

\* service.download is done, before or after the signal: the channel, the
\* header, the task.
Answer(c) ==
    /\ stream[c] = "called"
    /\ stream' = [stream EXCEPT ![c] = "open"]
    /\ task' = [task EXCEPT ![c] = "send"]
    /\ hand' = [hand EXCEPT ![c] = Info]
    /\ file' = [file EXCEPT ![c] = TRUE]
    /\ UNCHANGED <<server, position, channel, received>>

\* stream_file opens the file.
Open(c) ==
    /\ task[c] = "open"
    /\ task' = [task EXCEPT ![c] = "read"]
    /\ UNCHANGED <<server, position, hand, channel, stream, received, file>>

\* Mutant: a read error is taken for the end of the file.
FailAsEnd(c) ==
    /\ task[c] \in {"open", "read"}
    /\ EndTask(c)
    /\ UNCHANGED <<server, position, hand, channel, stream, received>>

\* Mutant: a read error skips a chunk and the loop goes on.
FailSkipping(c) ==
    /\ task[c] = "read" /\ position[c] < Chunks
    /\ position' = [position EXCEPT ![c] = @ + 1]
    /\ UNCHANGED <<server, task, hand, channel, stream, received, file>>

\* Opening or reading fails: the error is sent as a Status.
Fail(c) ==
    /\ task[c] \in {"open", "read"}
    /\ task' = [task EXCEPT ![c] = "send"]
    /\ hand' = [hand EXCEPT ![c] = Error]
    /\ UNCHANGED <<server, position, channel, stream, received, file>>

ReadChunk(c) ==
    /\ task[c] = "read" /\ position[c] < Chunks
    /\ position' = [position EXCEPT ![c] = @ + 1]
    /\ hand' = [hand EXCEPT ![c] = position[c] + 1]
    /\ task' = [task EXCEPT ![c] = "send"]
    /\ UNCHANGED <<server, channel, stream, received, file>>

\* Mutant: Ok(0) does not end the loop.
ReadEndAgain(c) ==
    /\ task[c] = "read" /\ position[c] = Chunks
    /\ UNCHANGED streamVars

ReadEnd(c) ==
    /\ task[c] = "read" /\ position[c] = Chunks
    /\ EndTask(c)
    /\ UNCHANGED <<server, position, hand, channel, stream, received>>

\* Mutant: an unbounded channel.
SendUnbounded(c) ==
    /\ task[c] = "send" /\ stream[c] = "open"
    /\ channel' = [channel EXCEPT ![c] = Append(@, hand[c])]
    /\ IF hand[c] = Error THEN EndTask(c)
       ELSE /\ task' = [task EXCEPT ![c] = IF hand[c] = Info THEN "open" ELSE "read"]
            /\ UNCHANGED file
    /\ UNCHANGED <<server, position, hand, stream, received>>

\* tx.send: waits for room; after an error the task ends.
Send(c) ==
    /\ task[c] = "send" /\ stream[c] = "open" /\ Len(channel[c]) < Buffer
    /\ channel' = [channel EXCEPT ![c] = Append(@, hand[c])]
    /\ IF hand[c] = Error THEN EndTask(c)
       ELSE /\ task' = [task EXCEPT ![c] = IF hand[c] = Info THEN "open" ELSE "read"]
            /\ UNCHANGED file
    /\ UNCHANGED <<server, position, hand, stream, received>>

\* Mutant: a send that fails is repeated.
SendRepeated(c) ==
    /\ task[c] = "send" /\ stream[c] \in Over
    /\ UNCHANGED streamVars

\* tx.send fails: the receiver is gone.
SendFails(c) ==
    /\ task[c] = "send" /\ stream[c] \in Over
    /\ EndTask(c)
    /\ UNCHANGED <<server, position, hand, channel, stream, received>>

----------------------------------------------------------------------------
\* The response stream takes a message as fast as the client reads; a Status
\* ends it.
Receive(c) ==
    /\ stream[c] = "open" /\ channel[c] # <<>>
    /\ received' = [received EXCEPT ![c] = Append(@, Head(channel[c]))]
    /\ channel' = [channel EXCEPT ![c] = Tail(@)]
    /\ stream' = [stream EXCEPT ![c] = IF Head(channel[c]) = Error THEN "error" ELSE "open"]
    /\ UNCHANGED <<server, task, position, hand, file>>

\* No sender and nothing left: the stream ends without an error.
Finish(c) ==
    /\ stream[c] = "open" /\ channel[c] = <<>> /\ task[c] = "end"
    /\ stream' = [stream EXCEPT ![c] = "ok"]
    /\ UNCHANGED <<server, task, position, hand, channel, received, file>>

\* The client cancels or its connection breaks: the receiver is dropped, or
\* the handler before it answers.
Gone(c) ==
    /\ stream[c] \in {"called", "open"}
    /\ stream' = [stream EXCEPT ![c] = "gone"]
    /\ channel' = [channel EXCEPT ![c] = <<>>]
    /\ UNCHANGED <<server, task, position, hand, received, file>>

\* shutdown_signal resolves.
Signal ==
    /\ server = "serving" /\ server' = "draining"
    /\ UNCHANGED <<task, position, hand, channel, stream, received, file>>

\* serve_with_shutdown returns once every call it took is answered and every
\* stream has ended; main returns and the runtime drops the tasks that are
\* left, with their files.
Exit ==
    /\ server = "draining" /\ \A c \in Clients : stream[c] \notin {"called", "open"}
    /\ server' = "exited"
    /\ task' = [c \in Clients |-> "end"]
    /\ file' = [c \in Clients |-> FALSE]
    /\ UNCHANGED <<position, hand, channel, stream, received>>

----------------------------------------------------------------------------
StreamInit ==
    /\ server = "serving"
    /\ task = [c \in Clients |-> "none"]
    /\ position = [c \in Clients |-> 0]
    /\ hand = [c \in Clients |-> Info]
    /\ channel = [c \in Clients |-> <<>>]
    /\ stream = [c \in Clients |-> "none"]
    /\ received = [c \in Clients |-> <<>>]
    /\ file = [c \in Clients |-> FALSE]

\* The steps of the task on its own; none of them needs an I/O error.
TaskStep(c) == Open(c) \/ ReadChunk(c) \/ ReadEnd(c) \/ Send(c) \/ SendFails(c)

Reads(c) == Receive(c) \/ Finish(c)

Handles(c) == Answer(c) \/ Refuse(c)

Stopped == server = "exited" /\ UNCHANGED streamVars

StreamNext ==
    \/ \E c \in Clients :
         Accept(c) \/ Handles(c) \/ TaskStep(c) \/ Fail(c) \/ Reads(c) \/ Gone(c)
    \/ Signal \/ Exit \/ Stopped

StreamSpec == StreamInit /\ [][StreamNext]_streamVars

\* The runtime runs every task that can go on; service.download, whose waits
\* are bounded by the timeouts of Drive's calls, comes back; the Readers keep
\* reading; the server leaves when it can.  Nobody has to send the signal.
StreamFairSpec ==
    /\ StreamSpec
    /\ \A c \in Clients : WF_streamVars(TaskStep(c)) /\ WF_streamVars(Handles(c))
    /\ \A c \in Readers : WF_streamVars(Reads(c))
    /\ WF_streamVars(Exit)

----------------------------------------------------------------------------
Messages == 0..Chunks + 1

\* The type of the state.
StreamTypeOK ==
    /\ server \in {"serving", "draining", "exited"}
    /\ task \in [Clients -> {"none", "open", "read", "send", "end"}]
    /\ position \in [Clients -> 0..Chunks]
    /\ hand \in [Clients -> Messages]
    /\ channel \in [Clients -> Seq(Messages)]
    /\ \A c \in Clients : Len(channel[c]) <= Buffer
    /\ stream \in [Clients -> {"none", "called", "open"} \cup Over]
    /\ received \in [Clients -> Seq(Messages)]
    /\ file \in [Clients -> BOOLEAN]

\* A stream that ends without an error delivered the header and then the
\* whole file, in order: neither a read error nor the shutdown of the server
\* is ever mistaken for the end of the file.
StreamWhole == \A c \in Clients : stream[c] = "ok" => received[c] = Whole

\* Whatever becomes of a stream, and whenever it is cut, what its client got
\* is a beginning of the file: the header and the chunks 1, 2, ..., without a
\* gap or a repetition.  A Status among them is the last message of a stream
\* that ended in an error; stream_file never goes on after one.
ReceivedInOrder ==
    \A c \in Clients : \A i \in 1..Len(received[c]) :
      IF received[c][i] = Error
      THEN i = Len(received[c]) /\ stream[c] = "error"
      ELSE received[c][i] = i - 1

\* The file of a client that left is removed, wherever its task was; a task
\* that waits for room in the channel does not wait for ever.
FileRemoved == \A c \in Clients : stream[c] = "gone" ~> ~file[c]

\* A client that keeps reading has its call answered and gets to the end of
\* the stream.
StreamEnds == \A c \in Readers : stream[c] \in {"called", "open"} ~> stream[c] \in Over

\* After the signal the server exits, or it waits for ever for one client that
\* stopped reading and holds its stream open (serve_with_shutdown has no time
\* limit).  A call the signal met in service.download, its answer included,
\* keeps the server only as long as its client reads.
ShutdownEnds ==
    server = "draining" ~>
      (server = "exited" \/ \E c \in Clients \ Readers : [](stream[c] = "open"))
=============================================================================
