---------------------------- MODULE OmegaRestore -----------------------------
(***************************************************************************)
(* The partial-backup restore of internal/device/restore.go: the host side *)
(* of the mobilebackup2 device-link protocol, against a device that asks   *)
(* for files, for directory operations and for disk space, reports         *)
(* progress, and ends with the success content, with an error, or by       *)
(* rebooting in the middle ("crash_on_purpose").                           *)
(*                                                                         *)
(* Messages travel in order over one connection that may end at any time.  *)
(* A frame is a record; a file's content is its size, cut in chunks.       *)
(***************************************************************************)
EXTENDS Naturals, Sequences

CONSTANTS Files,       \* names of the backup: the manifests and the payloads
          Size,        \* [Files -> Nat]: content sizes
          Absent,      \* names the device may ask for and the backup lacks
          Chunk,       \* bytes in a data frame
          MaxAsks      \* requests in a session (bounds the device's loop)

ASSUME OmegaAssumption == /\ Size \in [Files -> Nat]
                          /\ Files \cap Absent = {}
                          /\ Chunk \in Nat \ {0}
                          /\ MaxAsks \in Nat

VARIABLES
  host,      \* where the host is in the exchange
  queue,     \* names of the batch still to be served
  sent,      \* bytes sent of the file being served
  missing,   \* names of the batch the backup lacks
  progress,  \* the last percentage shown
  result,    \* what OmegaRestore returned
  rebooted,  \* diagnostics.Reboot was called
  dev,       \* the device's side of the protocol
  batch,     \* names the device asked for and has not got yet
  got,       \* bytes it got of the file in transit
  failed,    \* names it got an error frame for
  asks,      \* requests it may still make
  restored,  \* the device has applied the restore
  content,   \* it has sent the success content
  refused,   \* it has reported an error other than crash_on_purpose
  link,      \* "up", "eof" (closed in order) or "reset"
  toHost, toDevice

hostVars   == <<host, queue, sent, missing, progress, result, rebooted>>
deviceVars == <<dev, batch, got, failed, asks, restored, content, refused>>
vars == <<host, queue, sent, missing, progress, result, rebooted, dev, batch,
          got, failed, asks, restored, content, refused, link, toHost, toDevice>>

-----------------------------------------------------------------------------
(* Frames *)

\* A name as the device spells it: "./Manifest.plist" and "Manifest.plist" are
\* the same file.
Names     == Files \cup Absent
Spellings == [name : Names, dotted : BOOLEAN]

\* Deliberately wrong variant of the next definition: names are looked up as
\* the device spells them.
InBackupUncleaned(s) == ~s.dotted /\ s.name \in Files

\* lookup cleans the name first.
InBackup(s) == s.name \in Files

Status(c) == [kind |-> "status", code |-> c]
Msg(k)    == [kind |-> k]

DeviceFrames ==
  {Msg(k) : k \in {"hello", "deviceReady", "empty", "content", "error",
                   "findMy", "crash", "purge", "plain"}}
  \cup [kind : {"percent"}, pct : {0, 50, 100}]
  \cup [kind : {"download"}, names : UNION {[1..k -> Spellings] : k \in 1..2}]

HostFrames ==
  {Msg(k) : k \in {"versionsOk", "restore", "fileError", "fileSuccess",
                   "terminator"}}
  \cup [kind : {"status"}, code : {"zero", "one", "minus13"}]
  \cup [kind : {"name"}, of : Spellings]
  \cup [kind : {"data"}, bytes : 1..Chunk]

\* Verdicts of OmegaRestore: nil, or the kind of its error.
Results == {"none", "ok", "connection", "permission", "internal", "timeout"}

TypeOK == /\ host \in {"hello", "ready", "loop", "read", "serve", "body",
                      "ended"}
          /\ queue \in Seq(Spellings)
          /\ sent \in Nat
          /\ missing \in SUBSET Names
          /\ progress \in 0..100
          /\ result \in Results
          /\ rebooted \in BOOLEAN
          /\ dev \in {"opening", "handshake", "armed", "free", "name", "body",
                      "status", "purging", "batchStatus", "over", "protest"}
          /\ batch \in Seq(Spellings)
          /\ got \in Nat
          /\ failed \in SUBSET Names
          /\ asks \in 0..MaxAsks
          /\ restored \in BOOLEAN
          /\ content \in BOOLEAN
          /\ refused \in BOOLEAN
          /\ link \in {"up", "eof", "reset"}
          /\ toHost \in Seq(DeviceFrames)
          /\ toDevice \in Seq(HostFrames)

Init == /\ host = "hello"
        /\ queue = <<>>
        /\ sent = 0
        /\ missing = {}
        /\ progress = 0
        /\ result = "none"
        /\ rebooted = FALSE
        /\ dev = "opening"
        /\ batch = <<>>
        /\ got = 0
        /\ failed = {}
        /\ asks = MaxAsks
        /\ restored = FALSE
        /\ content = FALSE
        /\ refused = FALSE
        /\ link = "up"
        /\ toHost = <<>>
        /\ toDevice = <<>>

-----------------------------------------------------------------------------
(* The connection *)

\* The host writes frames.  On a dead connection the write fails or the bytes
\* are lost in a buffer.
Write(frames) ==
  IF link = "up" THEN toDevice' = toDevice \o frames ELSE UNCHANGED toDevice

Answered == {"hello", "deviceReady", "plain", "purge"}

WriteFails == /\ link # "up"
              /\ \/ host \in {"serve", "body"}
                 \/ /\ host \in {"hello", "ready", "read"}
                    /\ toHost # <<>>
                    /\ Head(toHost).kind \in Answered
              /\ host' = "ended"
              /\ result' = "connection"
              /\ UNCHANGED <<queue, sent, missing, progress, rebooted,
                             deviceVars, link, toHost, toDevice>>

\* The host reads a frame of kind k, in state h.
Reads(h, k) == /\ host = h
               /\ toHost # <<>>
               /\ Head(toHost).kind = k
               /\ toHost' = Tail(toHost)

End(r) == /\ host' = "ended"
          /\ result' = r

-----------------------------------------------------------------------------
(* Deliberately wrong variants of definitions below. *)

\* A device that frees disk space is not answered.
PurgeIgnored ==
  /\ Reads("read", "purge")
  /\ host' = "loop"
  /\ UNCHANGED <<queue, sent, missing, progress, result, rebooted,
                 deviceVars, link, toDevice>>

-----------------------------------------------------------------------------
(* The host *)

ReadHello ==
  /\ Reads("hello", "hello")
  /\ Write(<<Msg("versionsOk")>>)
  /\ host' = "ready"
  /\ UNCHANGED <<queue, sent, missing, progress, result, rebooted, deviceVars,
                 link>>

ReadDeviceReady ==
  /\ Reads("ready", "deviceReady")
  /\ Write(<<Msg("restore")>>)
  /\ host' = "loop"
  /\ UNCHANGED <<queue, sent, missing, progress, result, rebooted, deviceVars,
                 link>>

\* The connection ends during the handshake, or breaks in a later frame.
ReadFails ==
  /\ host \in {"hello", "ready", "read"}
  /\ toHost = <<>>
  /\ \/ link = "reset"
     \/ link = "eof" /\ host # "read"
  /\ End("connection")
  /\ UNCHANGED <<queue, sent, missing, progress, rebooted, deviceVars, link,
                 toHost, toDevice>>

\* io.EOF in the loop, whenever it comes, is success.
ReadEof ==
  /\ host = "read"
  /\ toHost = <<>>
  /\ link = "eof"
  /\ End("ok")
  /\ UNCHANGED <<queue, sent, missing, progress, rebooted, deviceVars, link,
                 toHost, toDevice>>

\* The context is looked at only here; readMessage blocks without it.
KeepOn ==
  /\ host = "loop"
  /\ host' = "read"
  /\ UNCHANGED <<queue, sent, missing, progress, result, rebooted, deviceVars,
                 link, toHost, toDevice>>

Cancelled ==
  /\ host = "loop"
  /\ End("timeout")
  /\ UNCHANGED <<queue, sent, missing, progress, rebooted, deviceVars, link,
                 toHost, toDevice>>

\* A process message without a body, or with nothing the host looks at.
ReadEmpty ==
  /\ Reads("read", "empty")
  /\ host' = "loop"
  /\ UNCHANGED <<queue, sent, missing, progress, result, rebooted,
                 deviceVars, link, toDevice>>

ReadError ==
  /\ Reads("read", "error")
  /\ End("internal")
  /\ UNCHANGED <<queue, sent, missing, progress, rebooted, deviceVars, link,
                 toDevice>>

ReadFindMy ==
  /\ Reads("read", "findMy")
  /\ End("permission")
  /\ UNCHANGED <<queue, sent, missing, progress, rebooted, deviceVars, link,
                 toDevice>>

\* "crash_on_purpose": the device has rebooted, the restore won.
ReadCrash ==
  /\ Reads("read", "crash")
  /\ End("ok")
  /\ UNCHANGED <<queue, sent, missing, progress, rebooted, deviceVars, link,
                 toDevice>>

ReadPercent ==
  /\ Reads("read", "percent")
  /\ progress' = Head(toHost).pct
  /\ host' = "loop"
  /\ UNCHANGED <<queue, sent, missing, result, rebooted, deviceVars,
                 link, toDevice>>

ReadContent ==
  /\ Reads("read", "content")
  /\ progress' = 100
  /\ rebooted' = TRUE
  /\ End("ok")
  /\ UNCHANGED <<queue, sent, missing, deviceVars, link, toDevice>>

ReadPlain ==
  /\ Reads("read", "plain")
  /\ Write(<<Status("zero")>>)
  /\ host' = "loop"
  /\ UNCHANGED <<queue, sent, missing, progress, result, rebooted,
                 deviceVars, link>>

ReadPurge ==
  /\ Reads("read", "purge")
  /\ Write(<<Status("one")>>)
  /\ host' = "loop"
  /\ UNCHANGED <<queue, sent, missing, progress, result, rebooted,
                 deviceVars, link>>

\* serveOmegaFiles: for each name the name, then data and success or an error.
ReadDownload ==
  /\ Reads("read", "download")
  /\ queue' = Head(toHost).names
  /\ missing' = {}
  /\ host' = "serve"
  /\ UNCHANGED <<sent, progress, result, rebooted, deviceVars, link, toDevice>>

ServeName ==
  /\ host = "serve"
  /\ queue # <<>>
  /\ Write(<<[kind |-> "name", of |-> Head(queue)]>>)
  /\ sent' = 0
  /\ host' = "body"
  /\ UNCHANGED <<queue, missing, progress, result, rebooted, deviceVars, link,
                 toHost>>

ServeMissing ==
  /\ host = "body"
  /\ ~InBackup(Head(queue))
  /\ Write(<<Msg("fileError")>>)
  /\ missing' = missing \cup {Head(queue).name}
  /\ queue' = Tail(queue)
  /\ host' = "serve"
  /\ UNCHANGED <<sent, progress, result, rebooted, deviceVars, link, toHost>>

ServeChunk ==
  /\ host = "body"
  /\ InBackup(Head(queue))
  /\ LET left == Size[Head(queue).name] - sent
         k    == IF left < Chunk THEN left ELSE Chunk
     IN  /\ left > 0
         /\ Write(<<[kind |-> "data", bytes |-> k]>>)
         /\ sent' = sent + k
  /\ UNCHANGED <<host, queue, missing, progress, result, rebooted, deviceVars,
                 link, toHost>>

ServeEnd ==
  /\ host = "body"
  /\ InBackup(Head(queue))
  /\ sent = Size[Head(queue).name]
  /\ Write(<<Msg("fileSuccess")>>)
  /\ queue' = Tail(queue)
  /\ host' = "serve"
  /\ UNCHANGED <<sent, missing, progress, result, rebooted, deviceVars, link,
                 toHost>>

ServeStatus ==
  /\ host = "serve"
  /\ queue = <<>>
  /\ Write(<<Msg("terminator"),
             Status(IF missing = {} THEN "zero" ELSE "minus13")>>)
  /\ host' = "loop"
  /\ UNCHANGED <<queue, sent, missing, progress, result, rebooted, deviceVars,
                 link, toHost>>

-----------------------------------------------------------------------------
(* The device *)

Says(m) == /\ link = "up"
           /\ toHost' = Append(toHost, m)
           /\ UNCHANGED <<hostVars, link, toDevice>>

Asks(m, next) == /\ dev = "free"
                 /\ asks > 0
                 /\ asks' = asks - 1
                 /\ dev' = next
                 /\ Says(m)

DeviceHello ==
  /\ dev = "opening"
  /\ dev' = "handshake"
  /\ Says(Msg("hello"))
  /\ UNCHANGED <<batch, got, failed, asks, restored, content, refused>>

AskPlain == /\ Asks(Msg("plain"), "status")
            /\ UNCHANGED <<batch, got, failed, restored, content, refused>>

AskPurge == /\ Asks(Msg("purge"), "purging")
            /\ UNCHANGED <<batch, got, failed, restored, content, refused>>

AskFiles == /\ \E k \in 1..2 : \E names \in [1..k -> Spellings] :
                 /\ Asks([kind |-> "download", names |-> names], "name")
                 /\ batch' = names
            /\ failed' = {}
            /\ UNCHANGED <<got, restored, content, refused>>

\* Progress, or a message without a body: no answer is expected.
Report == /\ \/ \E p \in {0, 50, 100} : Asks([kind |-> "percent", pct |-> p], "free")
             \/ Asks(Msg("empty"), "free")
          /\ UNCHANGED <<batch, got, failed, restored, content, refused>>

Succeed == /\ dev = "free"
           /\ dev' = "over"
           /\ restored' = TRUE
           /\ content' = TRUE
           /\ Says(Msg("content"))
           /\ UNCHANGED <<batch, got, failed, asks, refused>>

\* The restore is applied and the device reboots in the middle of it.
CrashOnPurpose == /\ dev = "free"
                  /\ dev' = "over"
                  /\ restored' = TRUE
                  /\ Says(Msg("crash"))
                  /\ UNCHANGED <<batch, got, failed, asks, content, refused>>

RefuseRestore == /\ dev = "free"
                 /\ dev' = "over"
                 /\ refused' = TRUE
                 /\ \E k \in {"error", "findMy"} : Says(Msg(k))
                 /\ UNCHANGED <<batch, got, failed, asks, restored, content>>

\* What the device makes of a frame in each of its states; anything else makes
\* it protest.
Expected(f) ==
  \/ dev = "handshake" /\ f.kind = "versionsOk"
  \/ dev = "armed"     /\ f.kind = "restore"
  \/ dev = "status"    /\ f = Status("zero")
  \/ dev = "purging"   /\ f = Status("one")
  \/ dev = "name"      /\ batch # <<>> /\ f = [kind |-> "name", of |-> Head(batch)]
  \/ dev = "name"      /\ batch = <<>> /\ f.kind = "terminator"
  \/ dev = "body"      /\ f.kind = "data"
  \/ dev = "body"      /\ f.kind = "fileSuccess" /\ Head(batch).name \in Files
                         /\ got = Size[Head(batch).name]
  \/ dev = "body"      /\ f.kind = "fileError" /\ Head(batch).name \in Absent
  \/ dev = "batchStatus" /\ f = Status(IF failed = {} THEN "zero" ELSE "minus13")

NextState(f) ==
  CASE f.kind = "versionsOk" -> "armed"
    [] f.kind \in {"restore", "status"} -> "free"
    [] f.kind \in {"name", "data"} -> "body"
    [] f.kind \in {"fileSuccess", "fileError"} -> "name"
    [] f.kind = "terminator" -> "batchStatus"

DeviceReads ==
  /\ link = "up"
  /\ toDevice # <<>>
  /\ LET f == Head(toDevice)
     IN  /\ dev' = IF Expected(f) THEN NextState(f) ELSE "protest"
         /\ toHost' = IF dev = "handshake" THEN Append(toHost, Msg("deviceReady"))
                                          ELSE toHost
         /\ got' = CASE f.kind = "data" -> got + f.bytes
                     [] f.kind = "name" -> 0
                     [] OTHER -> got
         /\ failed' = IF f.kind = "fileError" /\ batch # <<>>
                      THEN failed \cup {Head(batch).name} ELSE failed
         /\ batch' = IF f.kind \in {"fileSuccess", "fileError"} /\ batch # <<>>
                     THEN Tail(batch) ELSE batch
  /\ toDevice' = Tail(toDevice)
  /\ UNCHANGED <<hostVars, asks, restored, content, refused, link>>

\* The device reboots, is unplugged, or closes the service.
LinkEnds ==
  /\ link = "up"
  /\ link' \in {"eof", "reset"}
  /\ UNCHANGED <<hostVars, deviceVars, toHost, toDevice>>

-----------------------------------------------------------------------------

Host == \/ KeepOn \/ ReadHello \/ ReadDeviceReady \/ ReadFails \/ ReadEof
        \/ ReadEmpty \/ ReadError \/ ReadFindMy \/ ReadCrash \/ ReadPercent
        \/ ReadContent \/ ReadPlain \/ ReadPurge \/ ReadDownload
        \/ ServeName \/ ServeMissing \/ ServeChunk \/ ServeEnd \/ ServeStatus
        \/ WriteFails

Device == \/ DeviceHello \/ AskPlain \/ AskPurge \/ AskFiles \/ Report
          \/ Succeed \/ CrashOnPurpose \/ RefuseRestore

Next == Host \/ Cancelled \/ Device \/ DeviceReads \/ LinkEnds

\* The host's goroutine runs and the device takes what was sent to it; nothing
\* makes the device ask, finish or disconnect.
Spec == Init /\ [][Next]_vars
FairSpec == Spec /\ WF_vars(Host) /\ WF_vars(DeviceReads)

-----------------------------------------------------------------------------
(* Correctness *)

\* The host speaks the protocol: every frame is the one the device waits for.
\* For each name of a batch, in order, that is the name, the whole content in
\* chunks and a success, or an error for a file the backup lacks; the closing
\* status says whether there was one.  What the device refuses, the host does
\* not report as done.
DeviceSatisfied == /\ dev # "protest"
                   /\ refused => result # "ok"

\* A device that waits for an answer gets it as long as the connection and the
\* host's loop last.
Waiting == dev \in {"status", "purging", "name", "body", "batchStatus"}

DeviceIsAnswered == Waiting ~> ~Waiting \/ link # "up" \/ host = "ended"

\* The comment in restoreViaLink: "The device reboots itself when it is done
\* (crash_on_purpose); an EOF right after the success content is the normal
\* ending": a reported success is a restore the device has applied.
\* Not checked by a run: the code violates it, see the README.
OkMeansRestored == result = "ok" => restored
==============================================================================
