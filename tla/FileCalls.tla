----------------------------- MODULE FileCalls ------------------------------
(***************************************************************************)
(* The file procedures of the gRPC bridge (pkg/bridge/grpc/files.go) on    *)
(* one path, through the borrowed target (pkg/bridge/target) to the Docker *)
(* or Kubernetes runtime (files.go and exec.go of both deployments).  A    *)
(* write streams the client's body to a temporary file and renames it; a   *)
(* read streams what is at the path.  Clients go away, the session is      *)
(* revoked, the runtime is removed, and every command in the runtime may   *)
(* fail, lose its answer or outlive the call that started it.              *)
(*                                                                         *)
(* A file's content is known by the write it came from.  The audit's own   *)
(* failure is the subject of module NativeBridge.                          *)
(***************************************************************************)
CONSTANTS Writer, Reader

\* A call is a write or a read, and a write is none of the marks of Content.
ASSUME CallAssumption ==
  Writer \cap Reader = {} /\ Writer \cap {"absent", "old", "torn"} = {}

Call == Writer \cup Reader

VARIABLES
  backend,     \* docker or kubernetes
  \* the runtime
  alive,       \* it has not been removed
  file,        \* the path: absent, old, torn, or the write whose content it has
  temp,        \* the temporary file of each write
  late,        \* renames that run on after their call gave up
  \* the bridge
  revocation,  \* how far the session's revocation has gone
  left,        \* writes whose client went away
  body,        \* what the client has sent of each write's content
  at,          \* where each call is
  header, got, \* reads: whose size was announced, whose content was sent
  audit,       \* the record of each call
  \* history
  landed,      \* writes whose rename took effect
  doomed       \* writes cancelled before their rename could start

runtime == <<backend, alive, file, temp, late, landed>>
session == <<revocation, left, doomed>>
reads == <<header, got>>
calls == <<at, audit>>
fileVars == <<runtime, session, body, reads, calls>>

Content == {"absent", "old", "torn"} \cup Writer

FileInit ==
  /\ backend \in {"docker", "kubernetes"} /\ alive = TRUE
  /\ file \in {"absent", "old"}
  /\ temp = [w \in Writer |-> "none"] /\ late = {} /\ landed = {}
  /\ revocation = "none" /\ left = {} /\ doomed = {}
  /\ body = [w \in Writer |-> "sending"]
  /\ at = [c \in Call |-> "none"]
  /\ header = [r \in Reader |-> "absent"] /\ got = [r \in Reader |-> "absent"]
  /\ audit = [c \in Call |-> "none"]

-----------------------------------------------------------------------------
(* The context of a call ends when its client goes away or the session is  *)
(* revoked; its stream only when the client or the server goes.            *)

Cancelled(c) == c \in left \/ revocation \in {"session", "server"}
StreamEnded(c) == c \in left \/ revocation = "server"

MoveTo(c, p) == at' = [at EXCEPT ![c] = p] /\ UNCHANGED audit
\* finish: the call returns and leaves one record.  An error of the target is
\* recorded as "failed" or, if it is a cancellation or a deadline of the
\* target's own, as "canceled" (fileStatus).
Finish(c, status) ==
  /\ at' = [at EXCEPT ![c] = "done"]
  /\ audit' = [audit EXCEPT ![c] = status]

\* The calls whose rename has not been decided yet.
Undecided == {c \in Writer :
  at[c] \in {"prepare", "upload", "uploaded", "broken"}}

\* A reader's client only makes its call fail.
ClientLeaves(c) ==
  /\ at[c] \notin {"none", "done"} /\ c \notin left
  /\ left' = left \cup {c}
  /\ doomed' = doomed \cup (Undecided \cap {c})
  /\ UNCHANGED <<runtime, revocation, body, reads, calls>>

\* Borrowed.Revoke, then revoke of the gRPC session: the flag and the contexts,
\* then the server.
Revoke ==
  /\ \/ revocation = "none" /\ revocation' = "target" /\ UNCHANGED doomed
     \/ /\ revocation = "target" /\ revocation' = "session"
        /\ doomed' = doomed \cup Undecided
     \/ revocation = "session" /\ revocation' = "server" /\ UNCHANGED doomed
  /\ UNCHANGED <<runtime, left, body, reads, calls>>

\* The sandbox is removed, with the commands that still run in it; the runner
\* has asked for the revocation before, but may not have waited for its end.
RuntimeRemoved ==
  /\ alive /\ revocation # "none" /\ alive' = FALSE /\ late' = {}
  /\ UNCHANGED <<backend, file, temp, landed, session, body, reads, calls>>

-----------------------------------------------------------------------------
(* Admission: beginFile, then the target's own check.  A revocation between *)
(* the two is no different from one before them.                            *)

Begin(c) ==
  /\ at[c] = "none"
  /\ \/ revocation # "server" /\ Finish(c, "rejected")
     \/ revocation = "target" /\ Finish(c, "error")
     \/ /\ revocation = "none"
        /\ MoveTo(c, IF c \in Reader THEN "stat" ELSE "prepare")
  /\ UNCHANGED <<runtime, session, body, reads>>

-----------------------------------------------------------------------------
(* WriteFile *)

Prepared(c) ==
  /\ at[c] = "prepare"
  /\ Finish(c, "error") \/ (alive /\ ~Cancelled(c) /\ MoveTo(c, "upload"))
  /\ UNCHANGED <<runtime, session, body, reads>>

\* resolvePath of the target and of its directories, then the access check as
\* the agent's user, which creates the missing ones.
DockerPrepare(c) == backend = "docker" /\ Prepared(c)
\* The prepareScript does all of it.
KubernetesPrepare(c) == backend = "kubernetes" /\ Prepared(c)

\* streamReader: the client ends its stream with exactly the announced size, or
\* with more, with less, with a second header.
ClientSends(c) ==
  /\ at[c] \in {"upload", "broken"} /\ body[c] = "sending" /\ ~StreamEnded(c)
  /\ \E b \in {"exact", "wrong"} : body' = [body EXCEPT ![c] = b]
  /\ UNCHANGED <<runtime, session, reads, calls>>

Uploaded(c, t) ==
  /\ temp' = [temp EXCEPT ![c] = t]
  /\ MoveTo(c, "uploaded")
\* Whatever a failed upload has left is never renamed.
UploadFails(c) == MoveTo(c, "broken") /\ UNCHANGED temp

\* The archive is complete only if the body was.
DockerUpload(c) ==
  /\ backend = "docker" /\ at[c] = "upload"
  /\ (body[c] = "exact" /\ alive /\ Uploaded(c, "whole")) \/ UploadFails(c)
  /\ UNCHANGED <<backend, alive, file, late, landed, session, body, reads>>

\* kubectl may cut the stream short and still report success.
KubernetesUpload(c) ==
  /\ backend = "kubernetes" /\ at[c] = "upload"
  /\ \/ body[c] = "exact" /\ alive /\ \E t \in {"part", "whole"} : Uploaded(c, t)
     \/ UploadFails(c)
  /\ UNCHANGED <<backend, alive, file, late, landed, session, body, reads>>

\* Mutant: the end of the call's context is not seen by the stream.
JoinedByClient(c) == body[c] # "sending" \/ c \in left
\* The goroutine that reads the body is in Recv until the stream gives it
\* something or ends.
Joined(c) == body[c] # "sending" \/ StreamEnded(c)

\* Mutant: only an error of the upload stops the rename.
DecideByUpload(c) ==
  /\ at[c] \in {"uploaded", "broken"} /\ Joined(c)
  /\ MoveTo(c, IF at[c] = "broken" THEN "remove" ELSE "rename")
  /\ UNCHANGED <<runtime, session, body, reads>>

\* A cancellation is looked for before anything else: "the write must not land".
Decide(c) ==
  /\ at[c] \in {"uploaded", "broken"} /\ Joined(c)
  /\ MoveTo(c, IF Cancelled(c) \/ at[c] = "broken" THEN "remove" ELSE "rename")
  /\ UNCHANGED <<runtime, session, body, reads>>

\* Mutant: the temporary is moved as it is.
MovableAny(c) == temp[c] # "none"
\* The renameScript of Kubernetes compares sizes, the command of Docker not.
Movable(c) == temp[c] = "whole" \/ (backend = "docker" /\ temp[c] = "part")

Moves(c) ==
  /\ Movable(c)
  /\ file' = IF temp[c] = "whole" THEN c ELSE "torn"
  /\ temp' = [temp EXCEPT ![c] = "none"]
  /\ landed' = landed \cup {c}

\* The rename has a context of its own.  Its command succeeds, fails and
\* removes the temporary, or gives no answer: then it did nothing, or moved
\* the file, or will.
Rename(c) ==
  /\ at[c] = "rename"
  /\ \/ alive /\ Moves(c) /\ UNCHANGED late /\ Finish(c, "completed")
     \/ /\ alive /\ temp' = [temp EXCEPT ![c] = "none"]
        /\ UNCHANGED <<file, late, landed>>
        /\ MoveTo(c, "remove")
     \/ /\ \/ UNCHANGED <<file, temp, late, landed>>
           \/ alive /\ Moves(c) /\ UNCHANGED late
           \/ alive /\ late' = late \cup {c} /\ UNCHANGED <<file, temp, landed>>
        /\ MoveTo(c, "remove")
  /\ UNCHANGED <<backend, alive, session, body, reads>>

LateRename(c) ==
  /\ c \in late /\ late' = late \ {c}
  /\ \/ Moves(c)
     \/ ~Movable(c) /\ temp' = [temp EXCEPT ![c] = "none"] /\ UNCHANGED <<file, landed>>
  /\ UNCHANGED <<backend, alive, session, body, reads, calls>>

\* Best effort, on a fresh context; the error is the write's.
RemoveTemporary(c) ==
  /\ at[c] = "remove" /\ Finish(c, "error")
  /\ (alive /\ temp' = [temp EXCEPT ![c] = "none"]) \/ UNCHANGED temp
  /\ UNCHANGED <<backend, alive, file, late, landed, session, body, reads>>

WriteStep(c) ==
  \/ DockerPrepare(c) \/ KubernetesPrepare(c) \/ DockerUpload(c)
  \/ KubernetesUpload(c) \/ Decide(c) \/ Rename(c) \/ RemoveTemporary(c)

-----------------------------------------------------------------------------
(* Stat, ReadFile and ReadLines *)

\* Stat answers also for a missing path.
StatReturns(c) ==
  /\ at[c] = "stat" /\ alive /\ ~Cancelled(c)
  /\ Finish(c, "completed")
  /\ UNCHANGED <<runtime, session, body, reads>>

ReadStat(c) ==
  /\ at[c] = "stat"
  /\ \/ Finish(c, "error") /\ UNCHANGED header
     \/ /\ alive /\ ~Cancelled(c) /\ file # "absent"
        /\ header' = [header EXCEPT ![c] = file]
        /\ MoveTo(c, "open")
  /\ UNCHANGED <<runtime, session, body, got>>

\* Docker announces what the copy itself reports; the script of Kubernetes has
\* printed its stat line before it opens the file.
ReadOpen(c) ==
  /\ at[c] = "open"
  /\ \/ Finish(c, "error") /\ UNCHANGED reads
     \/ /\ alive /\ ~Cancelled(c) /\ file # "absent"
        /\ got' = [got EXCEPT ![c] = file]
        /\ header' = IF backend = "docker" THEN got' ELSE header
        /\ MoveTo(c, "stream")
  /\ UNCHANGED <<runtime, session, body>>

\* The content goes to the client until its end or an error; one whose stream
\* has ended sees a cancellation (streamErr).
ReadStream(c) ==
  /\ at[c] = "stream"
  /\ \E status \in {"completed", "error"} : Finish(c, status)
  /\ header' = [header EXCEPT ![c] = "absent"] /\ got' = [got EXCEPT ![c] = "absent"]
  /\ UNCHANGED <<runtime, session, body>>

-----------------------------------------------------------------------------
CallStep(c) ==
  \/ c \in Writer /\ WriteStep(c)
  \/ c \in Reader /\ (StatReturns(c) \/ ReadStat(c) \/ ReadOpen(c) \/ ReadStream(c))

FileNext ==
  \/ Revoke \/ RuntimeRemoved
  \/ \E c \in Call : Begin(c) \/ CallStep(c)
  \/ \E w \in Writer : ClientLeaves(w) \/ ClientSends(w) \/ LateRename(w)

\* Handlers run; the commands they wait for have deadlines or end with the
\* call's context; a revocation goes on once it has begun.  Clients owe nothing.
FileSpec ==
  /\ FileInit /\ [][FileNext]_fileVars
  /\ WF_fileVars(revocation # "none" /\ Revoke)
  /\ \A c \in Call : WF_fileVars(CallStep(c))

-----------------------------------------------------------------------------
(* Properties *)

\* The shape of the runtime, the session and the calls.
FileTypeOK ==
  /\ backend \in {"docker", "kubernetes"} /\ alive \in BOOLEAN
  /\ file \in Content /\ temp \in [Writer -> {"none", "part", "whole"}]
  /\ late \subseteq Writer /\ landed \subseteq Writer /\ doomed \subseteq Writer
  /\ revocation \in {"none", "target", "session", "server"}
  /\ left \subseteq Writer
  /\ body \in [Writer -> {"sending", "exact", "wrong"}]
  /\ header \in [Reader -> Content] /\ got \in [Reader -> Content]
  /\ at \in [Call -> {"none", "prepare", "upload", "uploaded", "broken", "rename",
                      "remove", "stat", "open", "stream", "done"}]
  /\ audit \in [Call -> {"none", "rejected", "completed", "error"}]

\* "A reader sees the old file or the new one" (docker/files.go): the path never
\* holds, and no read ever returns, part of a write or a body other than the
\* one its client sent to the end.  Docker also announces the size of exactly
\* what it sends ("the path can change between the stat and the copy").
WholeOrNothing ==
  /\ file # "torn" /\ \A r \in Reader : got[r] # "torn"
  /\ backend = "docker" =>
       \A r \in Reader : at[r] = "stream" => header[r] = got[r]
  /\ \A w \in landed : body[w] = "exact"

\* A write that was cancelled before its rename, or refused, never lands, not
\* even after its call has returned ("cancelled during the copy or before the
\* rename, e.g. by revocation: the write must not land"); one that is recorded
\* as completed has landed.
LandedAsRecorded ==
  /\ doomed \cap (landed \cup late) = {}
  /\ \A w \in Writer :
       /\ audit[w] = "rejected" => w \notin landed \cup late
       /\ audit[w] = "completed" => w \in landed

\* Every call of a revoked session ends and is recorded, whatever its client
\* does: Stop of the bridge waits for the handlers.
RevokedCallsEnd ==
  revocation # "none" ~> \A c \in Call : at[c] # "none" => audit[c] # "none"
=============================================================================
