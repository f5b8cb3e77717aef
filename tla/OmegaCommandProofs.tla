------------------------- MODULE OmegaCommandProofs --------------------------
(***************************************************************************)
(* For any devices, versions and commands: only a device that was judged   *)
(* is restored; and for any backup and any requests, the restore keeps to  *)
(* the protocol of the device.                                             *)
(***************************************************************************)
EXTENDS OmegaCommand, SequenceTheorems, TLAPS

(* A device once chosen is the one that was named, and stays chosen; past  *)
(* the judgement its version is one that is not blocked, or was given.     *)
Judged == byHand \/ OmegaVerdict(ProductVersion[target]) # "unsupported"

JudgedInv ==
    /\ attached \subseteq Rows
    /\ target \in Devices \cup {Unset}
    /\ target \in Devices => invoked.udid \in {Unset, target}
    /\ step \in {"info", "ask"} => target \in Devices
    /\ step \in {"confirm", "open", "restore"} => Judged
    /\ step = "restore" => target \in Devices
-----------------------------------------------------------------------------
LEMMA EntryIsTarget ==
    ASSUME attached \subseteq Rows, NEW u, NEW d \in Entry(u)
    PROVE  d = u /\ d \in Devices
  <1>1. d \in {r[1] : r \in attached} /\ d = u
    BY DEF Entry, Distinct
  <1>2. PICK r \in attached : d = r[1]
    BY <1>1
  <1>3. r \in Devices \X {"USB", "Network"}
    BY <1>2 DEF Rows
  <1>. QED BY <1>1, <1>2, <1>3

LEMMA JudgedInit == CommandInit => JudgedInv
  BY CommandAssumption DEF CommandInit, JudgedInv, Judged

LEMMA JudgedNext == JudgedInv /\ [CommandNext]_commandVars => JudgedInv'
  <1>. SUFFICES ASSUME JudgedInv, [CommandNext]_commandVars PROVE JudgedInv'
    OBVIOUS
  <1>1. CASE Resolve
    <2>1. /\ step = "resolve" /\ UNCHANGED <<invoked, attached>>
          /\ \/ step' = "info" /\ target' \in Devices
                /\ invoked.udid \in {Unset, target'} /\ UNCHANGED byHand
             \/ step' = "over" /\ UNCHANGED <<target, byHand>>
      <3>1. step = "resolve" /\ UNCHANGED <<invoked, attached>>
        BY <1>1 DEF Resolve, Front
      <3>2. CASE step' = "over" /\ UNCHANGED <<target, byHand>>
        BY <3>1, <3>2
      <3>3. CASE \E d \in Distinct(attached) :
                    /\ invoked.udid = Unset \/ d \in {invoked.udid}
                    /\ target' = d /\ step' = "info" /\ UNCHANGED byHand
        <4>1. PICK d \in Distinct(attached) :
                    /\ invoked.udid = Unset \/ d \in {invoked.udid}
                    /\ target' = d /\ step' = "info" /\ UNCHANGED byHand
          BY <3>3
        <4>2. d \in Entry(d)
          BY <4>1 DEF Entry
        <4>3. d \in Devices
          BY <4>2, EntryIsTarget DEF JudgedInv
        <4>. QED BY <3>1, <4>1, <4>3
      <3>. QED BY <1>1, <3>2, <3>3 DEF Resolve, GiveUp
    <2>. QED BY <2>1 DEF JudgedInv, Judged
  <1>2. CASE ReadInfo
    <2>1. PICK d \in Entry(target) : Judge(ProductVersion[d])
      BY <1>2 DEF ReadInfo
    <2>2. d = target
      BY <2>1, EntryIsTarget DEF JudgedInv
    <2>. QED BY <1>2, <2>1, <2>2 DEF ReadInfo, Front, Judge, JudgedInv, Judged
  <1>3. CASE InfoFails
    BY <1>3 DEF InfoFails, Front, JudgedInv, Judged
  <1>4. CASE AskVersion
    BY <1>4 DEF AskVersion, Front, Judge, JudgedInv, Judged
  <1>5. CASE Confirm
    BY <1>5 DEF Confirm, Front, JudgedInv, Judged
  <1>6. CASE Decline \/ OpenFails
    BY <1>6 DEF Decline, OpenFails, GiveUp, Front, JudgedInv, Judged
  <1>7. CASE Open
    <2>1. PICK d \in Entry(target) : target' = d
      BY <1>7 DEF Open
    <2>2. d = target /\ d \in Devices
      BY <2>1, EntryIsTarget DEF JudgedInv
    <2>. QED BY <1>7, <2>1, <2>2 DEF Open, JudgedInv, Judged
  <1>8. CASE Plugged
    BY <1>8 DEF Plugged, JudgedInv, Judged
  <1>9. CASE Restoring(Next) \/ UNCHANGED commandVars
    BY <1>9 DEF Restoring, commandVars, frontVars, JudgedInv, Judged
  <1>. QED BY <1>1, <1>2, <1>3, <1>4, <1>5, <1>6, <1>7, <1>8, <1>9
       DEF CommandNext

(* "[hard block] ... xkvm will not run it" (tui/device.go 354), and the    *)
(* same of `xkvm device omega' (cli/devcmd.go 431): however devices come   *)
(* and go, a restore reaches the device that was named and none that is    *)
(* blocked, unless the user gave the version.                              *)
THEOREM RestoresWhatWasJudgedAlways == CommandSpec => []RestoresWhatWasJudged
  <1>1. JudgedInv => RestoresWhatWasJudged
    BY DEF JudgedInv, Judged, RestoresWhatWasJudged
  <1>. QED BY <1>1, JudgedInit, JudgedNext, PTL DEF CommandSpec
-----------------------------------------------------------------------------
(***************************************************************************)
(* The restore itself.  What the host has written travels while the device *)
(* is still behind, so the two sides are never compared directly: the      *)
(* invariant says that reading all that is under way brings the device     *)
(* from the state it is in to the one the host takes it to be in.          *)
(***************************************************************************)
DeviceStates == [at : {"opening", "handshake", "armed", "free", "name", "body",
                       "status", "purging", "batchStatus", "over"},
                 batch : Seq(Spellings), got : Nat, failed : SUBSET Names]

State(a, b, g, f) == [at |-> a, batch |-> b, got |-> g, failed |-> f]
Now == State(dev, batch, got, failed)

(* In state s the device expects f, which takes it to t. *)
Takes(s, f, t) ==
  \/ /\ \/ s.at = "handshake" /\ f.kind = "versionsOk" /\ t.at = "armed"
        \/ s.at = "armed" /\ f.kind = "restore" /\ t.at = "free"
        \/ s.at = "status" /\ f = Status("zero") /\ t.at = "free"
        \/ s.at = "purging" /\ f = Status("one") /\ t.at = "free"
        \/ s.at = "name" /\ s.batch = <<>> /\ f.kind = "terminator" /\ t.at = "batchStatus"
        \/ /\ s.at = "batchStatus" /\ t.at = "free"
           /\ f = Status(IF s.failed = {} THEN "zero" ELSE "minus13")
     /\ t.batch = s.batch /\ t.got = s.got /\ t.failed = s.failed
  \/ /\ s.at = "name" /\ s.batch # <<>> /\ f = [kind |-> "name", of |-> Head(s.batch)]
     /\ t = State("body", s.batch, 0, s.failed)
  \/ /\ s.at = "body" /\ f.kind = "data"
     /\ t = State("body", s.batch, s.got + f.bytes, s.failed)
  \/ /\ s.at = "body" /\ f.kind = "fileSuccess" /\ s.batch # <<>>
     /\ Head(s.batch).name \in Files /\ s.got = Size[Head(s.batch).name]
     /\ t = State("name", Tail(s.batch), s.got, s.failed)
  \/ /\ s.at = "body" /\ f.kind = "fileError" /\ s.batch # <<>>
     /\ Head(s.batch).name \in Absent
     /\ t = State("name", Tail(s.batch), s.got, s.failed \cup {Head(s.batch).name})

(* Reading q takes the device from state s to state t. *)
Path(s, q, t) ==
  \E D \in [0..Len(q) -> DeviceStates] :
    /\ D[0] = s /\ D[Len(q)] = t
    /\ \A i \in 1..Len(q) : Takes(D[i - 1], q[i], D[i])

Reports == {"percent", "empty"}
ReportsFirst(q) == \A i \in 1..(Len(q) - 1) : q[i].kind \in Reports
EndOf(q) == q[Len(q)]

(* The question under way to the host is the one the device waits at. *)
Asked(m, s) ==
  \/ m.kind \in Reports /\ s.at = "free"
  \/ m.kind = "plain" /\ s.at = "status"
  \/ m.kind = "purge" /\ s.at = "purging"
  \/ m.kind = "download" /\ s.at = "name" /\ s.batch = m.names /\ s.failed = {}
  \/ m.kind \in {"content", "crash", "error", "findMy"} /\ s.at = "over"

(* With the device in state s, the host is where it has to be. *)
Agree(s) ==
  \/ /\ host = "hello" /\ toDevice = <<>>
     /\ \/ dev = "opening" /\ toHost = <<>>
        \/ dev = "handshake" /\ toHost = <<Msg("hello")>>
  \/ /\ host = "ready" /\ s.at = "armed"
     /\ \/ dev = "handshake" /\ toDevice = <<Msg("versionsOk")>> /\ toHost = <<>>
        \/ dev = "armed" /\ toDevice = <<>> /\ toHost = <<Msg("deviceReady")>>
  \/ /\ host \in {"loop", "read"} /\ dev \notin {"opening", "handshake"}
     /\ ReportsFirst(toHost)
     /\ IF toHost = <<>> THEN s.at = "free" ELSE Asked(EndOf(toHost), s)
  \/ /\ host = "serve" /\ toHost = <<>> /\ dev \notin {"opening", "handshake"}
     /\ s.at = "name" /\ s.batch = queue /\ s.failed = missing
  \/ /\ host = "body" /\ toHost = <<>> /\ dev \notin {"opening", "handshake"}
     /\ queue # <<>>
     /\ s.at = "body" /\ s.batch = queue /\ s.failed = missing /\ s.got = sent
     /\ Head(queue).name \in Files => sent <= Size[Head(queue).name]
  \/ host = "ended"

InStep == \E s \in DeviceStates : Path(Now, toDevice, s) /\ Agree(s)

(* What the host is serving. *)
Serving == host = "body" => queue # <<>>

(* A refusal is on its way, or the host has not reported success. *)
Verdict ==
  /\ refused =>
       \/ /\ host \in {"loop", "read"} /\ ReportsFirst(toHost)
          /\ toHost # <<>> /\ EndOf(toHost).kind \in {"error", "findMy"}
       \/ host = "ended" /\ result # "ok"
  /\ result # "none" => host = "ended"
  /\ result = "ok" /\ link = "up" => dev = "over"

RestoreInv ==
  /\ TypeOK /\ Serving /\ Verdict
  /\ dev # "protest"
  /\ link = "up" => InStep
-----------------------------------------------------------------------------
(* Lemmas about what is under way. *)

LEMMA NowIsState ==
  ASSUME TypeOK, dev # "protest"
  PROVE  Now \in DeviceStates
BY DEF TypeOK, Now, State, DeviceStates

LEMMA NothingUnderWay ==
  ASSUME NEW s \in DeviceStates
  PROVE  Path(s, <<>>, s)
<1> DEFINE D == [i \in 0..0 |-> s]
<1>1. D \in [0..Len(<<>>) -> DeviceStates] /\ D[0] = s /\ D[Len(<<>>)] = s
  OBVIOUS
<1>2. \A i \in 1..Len(<<>>) : Takes(D[i - 1], <<>>[i], D[i])
  OBVIOUS
<1> QED
  BY <1>1, <1>2 DEF Path

LEMMA NothingTaken ==
  ASSUME NEW s, NEW t, Path(s, <<>>, t)
  PROVE  s = t
BY DEF Path

(* A frame is sent after all that is under way. *)
LEMMA OneMore ==
  ASSUME NEW s, NEW t, NEW u \in DeviceStates, NEW q \in Seq(HostFrames),
         NEW f \in HostFrames, Path(s, q, t), Takes(t, f, u)
  PROVE  Path(s, q \o <<f>>, u)
<1>1. PICK D \in [0..Len(q) -> DeviceStates] :
        /\ D[0] = s /\ D[Len(q)] = t
        /\ \A i \in 1..Len(q) : Takes(D[i - 1], q[i], D[i])
  BY DEF Path
<1> DEFINE r == q \o <<f>>
           E == [i \in 0..Len(r) |-> IF i = Len(r) THEN u ELSE D[i]]
<1>2. /\ Len(r) = Len(q) + 1 /\ Len(q) \in Nat /\ r[Len(r)] = f
      /\ \A i \in 1..Len(q) : r[i] = q[i]
  OBVIOUS
<1> HIDE DEF r
<1>3. E \in [0..Len(r) -> DeviceStates] /\ E[0] = s /\ E[Len(r)] = u
  BY <1>1, <1>2
<1>4. ASSUME NEW i \in 1..Len(r) PROVE Takes(E[i - 1], r[i], E[i])
  <2>1. CASE i = Len(r)
    <3>1. E[i - 1] = t /\ r[i] = f /\ E[i] = u
      BY <1>1, <1>2, <2>1
    <3> QED
      BY <3>1
  <2>2. CASE i # Len(r)
    <3>1. i \in 1..Len(q) /\ E[i - 1] = D[i - 1] /\ r[i] = q[i] /\ E[i] = D[i]
      BY <1>2, <2>2
    <3> QED
      BY <1>1, <3>1
  <2> QED
    BY <2>1, <2>2
<1> HIDE DEF E
<1>5. Path(s, r, u)
  BY <1>3, <1>4 DEF Path
<1> QED
  BY <1>5 DEF r

(* The device reads the first of them. *)
LEMMA OneLess ==
  ASSUME NEW s, NEW t, NEW q \in Seq(HostFrames), q # <<>>, Path(s, q, t)
  PROVE  \E u \in DeviceStates : Takes(s, Head(q), u) /\ Path(u, Tail(q), t)
<1>1. PICK D \in [0..Len(q) -> DeviceStates] :
        /\ D[0] = s /\ D[Len(q)] = t
        /\ \A i \in 1..Len(q) : Takes(D[i - 1], q[i], D[i])
  BY DEF Path
<1> DEFINE r == Tail(q)
           E == [i \in 0..Len(r) |-> D[i + 1]]
<1>2. /\ Len(q) \in Nat \ {0} /\ Len(r) = Len(q) - 1 /\ Head(q) = q[1]
      /\ \A i \in 1..Len(r) : r[i] = q[i + 1]
  OBVIOUS
<1> HIDE DEF r
<1>3. E \in [0..Len(r) -> DeviceStates] /\ E[0] = D[1] /\ E[Len(r)] = t
  BY <1>1, <1>2
<1>4. ASSUME NEW i \in 1..Len(r) PROVE Takes(E[i - 1], r[i], E[i])
  <2>1. /\ i + 1 \in 1..Len(q) /\ E[i - 1] = D[(i + 1) - 1]
        /\ r[i] = q[i + 1] /\ E[i] = D[i + 1]
    BY <1>2
  <2> QED
    BY <1>1, <2>1
<1> HIDE DEF E
<1>5. Path(D[1], r, t)
  BY <1>3, <1>4 DEF Path
<1>6. D[1] \in DeviceStates /\ Takes(s, Head(q), D[1])
  <2>1. 1 \in 1..Len(q) /\ 1 - 1 = 0 /\ 1 \in 0..Len(q)
    BY <1>2
  <2> QED
    BY <1>1, <1>2, <2>1
<1> QED
  BY <1>5, <1>6 DEF r

(* Nothing is under way to a device that waits for nothing. *)
LEMMA NothingExpected ==
  ASSUME NEW s, NEW t, NEW q \in Seq(HostFrames), Path(s, q, t),
         s.at \in {"opening", "free", "over"}
  PROVE  q = <<>> /\ t = s
<1>1. ASSUME q # <<>> PROVE FALSE
  <2>1. PICK u \in DeviceStates : Takes(s, Head(q), u)
    BY <1>1, OneLess
  <2> QED
    BY <2>1 DEF Takes
<1> QED
  BY <1>1, NothingTaken

(* No frame ends the session. *)
LEMMA NoneEnds ==
  ASSUME NEW s, NEW t, NEW q \in Seq(HostFrames), Path(s, q, t), t.at = "over"
  PROVE  s.at = "over"
<1>1. PICK D \in [0..Len(q) -> DeviceStates] :
        /\ D[0] = s /\ D[Len(q)] = t
        /\ \A i \in 1..Len(q) : Takes(D[i - 1], q[i], D[i])
  BY DEF Path
<1>2. CASE Len(q) = 0
  BY <1>1, <1>2
<1>3. CASE Len(q) # 0
  <2>1. Len(q) \in 1..Len(q)
    BY <1>3
  <2>2. Takes(D[Len(q) - 1], q[Len(q)], t)
    BY <1>1, <2>1
  <2> QED
    BY <2>2 DEF Takes, State
<1> QED
  BY <1>2, <1>3
-----------------------------------------------------------------------------
(* The types. *)

LEMMA HostMessages ==
  /\ \A k \in {"versionsOk", "restore", "fileError", "fileSuccess", "terminator"} :
       Msg(k) \in HostFrames
  /\ \A c \in {"zero", "one", "minus13"} : Status(c) \in HostFrames
  /\ \A s \in Spellings : [kind |-> "name", of |-> s] \in HostFrames
  /\ \A b \in 1..Chunk : [kind |-> "data", bytes |-> b] \in HostFrames
<1>1. \A k \in {"versionsOk", "restore", "fileError", "fileSuccess", "terminator"} :
        Msg(k) \in HostFrames
  BY Zenon DEF HostFrames
<1>2. \A c \in {"zero", "one", "minus13"} : Status(c) \in HostFrames
  BY DEF HostFrames, Status
<1>3. \A s \in Spellings : [kind |-> "name", of |-> s] \in HostFrames
  BY DEF HostFrames
<1>4. \A b \in 1..Chunk : [kind |-> "data", bytes |-> b] \in HostFrames
  BY DEF HostFrames
<1> QED
  BY <1>1, <1>2, <1>3, <1>4

Batches == UNION {[1..k -> Spellings] : k \in 1..2}

LEMMA BatchIsSeq == \A b \in Batches : b \in Seq(Spellings)
BY DEF Batches

LEMMA DeviceMessages ==
  /\ \A k \in {"hello", "deviceReady", "empty", "content", "error",
               "findMy", "crash", "purge", "plain"} : Msg(k) \in DeviceFrames
  /\ \A p \in {0, 50, 100} : [kind |-> "percent", pct |-> p] \in DeviceFrames
  /\ \A b \in Batches : [kind |-> "download", names |-> b] \in DeviceFrames
<1>1. \A k \in {"hello", "deviceReady", "empty", "content", "error",
                "findMy", "crash", "purge", "plain"} : Msg(k) \in DeviceFrames
  BY Zenon DEF DeviceFrames
<1>2. \A p \in {0, 50, 100} : [kind |-> "percent", pct |-> p] \in DeviceFrames
  BY DEF DeviceFrames
<1>3. \A b \in Batches : [kind |-> "download", names |-> b] \in DeviceFrames
  BY DEF DeviceFrames, Batches
<1> QED
  BY <1>1, <1>2, <1>3

(* What a frame of a kind carries. *)
LEMMA DeviceSends ==
  ASSUME NEW m \in DeviceFrames
  PROVE  /\ m.kind = "percent" => m.pct \in {0, 50, 100}
         /\ m.kind = "download" => m.names \in Batches
BY DEF DeviceFrames, Msg, Batches

LEMMA HostSends ==
  ASSUME NEW f \in HostFrames
  PROVE  /\ f.kind = "data" => f.bytes \in 1..Chunk
         /\ f.kind \in {"versionsOk", "restore", "fileError", "fileSuccess", "terminator",
                        "status", "name", "data"}
BY DEF HostFrames, Msg

(* Frames written go behind what is under way. *)
LEMMA WriteType ==
  \A q \in Seq(HostFrames), r \in Seq(HostFrames) : q \o r \in Seq(HostFrames)
BY ConcatProperties

LEMMA OneFrame == \A f \in HostFrames : <<f>> \in Seq(HostFrames)
OBVIOUS


LEMMA HostType ==
  ASSUME TypeOK, Serving, Host \/ Cancelled
  PROVE  TypeOK' /\ Serving'
<1>1. ASSUME NEW h, NEW k, Reads(h, k)
      PROVE  /\ host = h /\ toHost # <<>> /\ Head(toHost) \in DeviceFrames
             /\ Head(toHost).kind = k /\ toHost' \in Seq(DeviceFrames)
  BY <1>1 DEF Reads, TypeOK
<1>2. CASE ReadHello
  <2>1. toDevice' \in Seq(HostFrames) /\ toHost' \in Seq(DeviceFrames)
    BY <1>1, <1>2, HostMessages, WriteType, OneFrame DEF Write, ReadHello, TypeOK
  <2> QED
    BY <1>2, <2>1 DEF ReadHello, TypeOK, Serving, deviceVars
<1>3. CASE ReadDeviceReady
  <2>1. toDevice' \in Seq(HostFrames) /\ toHost' \in Seq(DeviceFrames)
    BY <1>1, <1>3, HostMessages, WriteType, OneFrame DEF Write, ReadDeviceReady, TypeOK
  <2> QED
    BY <1>3, <2>1 DEF ReadDeviceReady, TypeOK, Serving, deviceVars
<1>4. CASE ReadPlain \/ ReadPurge
  <2>1. toDevice' \in Seq(HostFrames) /\ toHost' \in Seq(DeviceFrames)
    BY <1>1, <1>4, HostMessages, WriteType, OneFrame DEF Write, ReadPlain, ReadPurge, TypeOK
  <2>2. /\ host' = "loop"
        /\ UNCHANGED <<queue, sent, missing, progress, result, rebooted, deviceVars, link>>
    BY <1>4 DEF ReadPlain, ReadPurge
  <2> QED
    BY <2>1, <2>2 DEF TypeOK, Serving, deviceVars
<1>5. CASE ReadFails \/ ReadEof \/ KeepOn \/ Cancelled \/ WriteFails
  <2>1. /\ host' \in {"read", "ended"} /\ result' \in Results
        /\ UNCHANGED <<queue, sent, missing, progress, rebooted, deviceVars, link,
                       toHost, toDevice>>
    BY <1>5 DEF ReadFails, ReadEof, KeepOn, Cancelled, WriteFails, End, Results, TypeOK
  <2> QED
    BY <2>1 DEF TypeOK, Serving, deviceVars
<1>6. CASE ReadEmpty \/ ReadError \/ ReadFindMy \/ ReadCrash \/ ReadContent
  <2>1. toHost' \in Seq(DeviceFrames)
    BY <1>1, <1>6 DEF ReadEmpty, ReadError, ReadFindMy, ReadCrash, ReadContent
  <2>2. /\ host' \in {"loop", "ended"} /\ result' \in Results
        /\ progress' \in {progress, 100} /\ rebooted' \in BOOLEAN
        /\ UNCHANGED <<queue, sent, missing, deviceVars, link, toDevice>>
    BY <1>6 DEF ReadEmpty, ReadError, ReadFindMy, ReadCrash, ReadContent, End, Results, TypeOK
  <2> QED
    BY <2>1, <2>2 DEF TypeOK, Serving, deviceVars
<1>7. CASE ReadPercent
  <2>1. /\ toHost' \in Seq(DeviceFrames)
        /\ Head(toHost) \in DeviceFrames /\ Head(toHost).kind = "percent"
    BY <1>1, <1>7 DEF ReadPercent
  <2>2. Head(toHost).pct \in {0, 50, 100}
    BY <2>1, DeviceSends
  <2> QED
    BY <1>7, <2>1, <2>2 DEF ReadPercent, TypeOK, Serving, deviceVars
<1>8. CASE ReadDownload
  <2>1. toHost' \in Seq(DeviceFrames) /\ Head(toHost).names \in Seq(Spellings)
    BY <1>1, <1>8, DeviceSends, BatchIsSeq DEF ReadDownload
  <2> QED
    BY <1>8, <2>1 DEF ReadDownload, TypeOK, Serving, deviceVars
<1>9. CASE ServeName
  <2>1. [kind |-> "name", of |-> Head(queue)] \in HostFrames
    BY <1>9, HostMessages DEF ServeName, TypeOK
  <2>2. toDevice' \in Seq(HostFrames)
    BY <1>9, <2>1, WriteType, OneFrame DEF Write, ServeName, TypeOK
  <2> QED
    BY <1>9, <2>2 DEF ServeName, TypeOK, Serving, deviceVars
<1>10. CASE ServeMissing
  <2>1. toDevice' \in Seq(HostFrames)
    BY <1>10, HostMessages, WriteType, OneFrame DEF Write, ServeMissing, TypeOK
  <2>2. Head(queue) \in Spellings /\ Tail(queue) \in Seq(Spellings)
    BY <1>10 DEF ServeMissing, Serving, TypeOK
  <2>3. Head(queue).name \in Names
    BY <2>2 DEF Spellings
  <2> QED
    BY <1>10, <2>1, <2>2, <2>3 DEF ServeMissing, TypeOK, Serving, deviceVars
<1>11. CASE ServeChunk
  <2>1. PICK k \in 1..Chunk : sent' = sent + k /\ Write(<<[kind |-> "data", bytes |-> k]>>)
    <3> DEFINE left == Size[Head(queue).name] - sent
               n == IF left < Chunk THEN left ELSE Chunk
    <3>1. left \in Int /\ left > 0
      BY <1>11, OmegaAssumption DEF ServeChunk, InBackup, TypeOK
    <3>2. n \in 1..Chunk
      BY <3>1, OmegaAssumption
    <3>3. sent' = sent + n /\ Write(<<[kind |-> "data", bytes |-> n]>>)
      BY <1>11 DEF ServeChunk
    <3> HIDE DEF n
    <3> QED
      BY <3>2, <3>3
  <2>2. toDevice' \in Seq(HostFrames)
    BY <2>1, HostMessages, WriteType, OneFrame DEF Write, TypeOK
  <2>3. sent' \in Nat
    BY <2>1, OmegaAssumption DEF TypeOK
  <2> QED
    BY <1>11, <2>2, <2>3 DEF ServeChunk, TypeOK, Serving, deviceVars
<1>12. CASE ServeEnd
  <2>1. toDevice' \in Seq(HostFrames)
    BY <1>12, HostMessages, WriteType, OneFrame DEF Write, ServeEnd, TypeOK
  <2>2. Tail(queue) \in Seq(Spellings)
    BY <1>12 DEF ServeEnd, Serving, TypeOK
  <2> QED
    BY <1>12, <2>1, <2>2 DEF ServeEnd, TypeOK, Serving, deviceVars
<1>13. CASE ServeStatus
  <2>1. <<Msg("terminator"), Status(IF missing = {} THEN "zero" ELSE "minus13")>>
          \in Seq(HostFrames)
    BY HostMessages
  <2>2. toDevice' \in Seq(HostFrames)
    BY <1>13, <2>1, WriteType, OneFrame DEF Write, ServeStatus, TypeOK
  <2> QED
    BY <1>13, <2>2 DEF ServeStatus, TypeOK, Serving, deviceVars
<1> QED
  BY <1>2, <1>3, <1>4, <1>5, <1>6, <1>7, <1>8, <1>9, <1>10, <1>11, <1>12, <1>13 DEF Host

(* What the device says goes behind what it said before. *)
LEMMA SaidType ==
  \A q \in Seq(DeviceFrames), m \in DeviceFrames : Append(q, m) \in Seq(DeviceFrames)
OBVIOUS

LEMMA DeviceType ==
  ASSUME TypeOK, Serving, Device \/ DeviceReads \/ LinkEnds
  PROVE  TypeOK' /\ Serving'
<1>1. CASE DeviceHello
  <2>1. toHost' \in Seq(DeviceFrames)
    BY <1>1, DeviceMessages, SaidType DEF Says, DeviceHello, TypeOK
  <2> QED
    BY <1>1, <2>1 DEF DeviceHello, Says, TypeOK, Serving, hostVars
<1>2. CASE AskPlain \/ AskPurge
  <2>1. toHost' \in Seq(DeviceFrames)
    BY <1>2, DeviceMessages, SaidType DEF Says, AskPlain, AskPurge, Asks, TypeOK
  <2> QED
    <3>1. /\ dev' \in {"status", "purging"} /\ asks > 0 /\ asks' = asks - 1
          /\ UNCHANGED <<batch, got, failed, restored, content, refused, hostVars, link, toDevice>>
      BY <1>2 DEF AskPlain, AskPurge, Asks, Says
    <3> QED
      BY <2>1, <3>1, OmegaAssumption DEF TypeOK, Serving, hostVars
<1>3. CASE AskFiles
  <2>1. PICK k \in 1..2 : \E names \in [1..k -> Spellings] :
          Asks([kind |-> "download", names |-> names], "name") /\ batch' = names
    BY <1>3 DEF AskFiles
  <2>2. PICK names \in [1..k -> Spellings] :
          Asks([kind |-> "download", names |-> names], "name") /\ batch' = names
    BY <2>1
  <2>3. names \in Batches
    BY DEF Batches
  <2>4. toHost' \in Seq(DeviceFrames) /\ batch' \in Seq(Spellings)
    BY <2>2, <2>3, DeviceMessages, BatchIsSeq, SaidType DEF Says, Asks, TypeOK
  <2> QED
    BY <1>3, <2>2, <2>4, OmegaAssumption DEF AskFiles, Asks, Says, TypeOK, Serving, hostVars
<1>4. CASE Report
  <2>1. PICK m \in DeviceFrames : Asks(m, "free")
    BY <1>4, DeviceMessages DEF Report
  <2>2. toHost' \in Seq(DeviceFrames)
    BY <2>1, SaidType DEF Says, Asks, TypeOK
  <2> QED
    BY <1>4, <2>1, <2>2, OmegaAssumption DEF Report, Asks, Says, TypeOK, Serving, hostVars
<1>5. CASE Succeed \/ CrashOnPurpose \/ RefuseRestore
  <2>1. PICK m \in DeviceFrames : Says(m)
    BY <1>5, DeviceMessages DEF Succeed, CrashOnPurpose, RefuseRestore
  <2>2. toHost' \in Seq(DeviceFrames)
    BY <2>1, SaidType DEF Says, TypeOK
  <2> QED
    <3>1. /\ dev' = "over" /\ UNCHANGED <<asks, batch, got, failed, hostVars, link, toDevice>>
          /\ restored' \in BOOLEAN /\ content' \in BOOLEAN /\ refused' \in BOOLEAN
      BY <1>5 DEF Succeed, CrashOnPurpose, RefuseRestore, Says, TypeOK
    <3> QED
      BY <2>2, <3>1 DEF TypeOK, Serving, hostVars
<1>6. CASE DeviceReads
  <2> DEFINE f == Head(toDevice)
  <2>1. f \in HostFrames /\ toDevice' \in Seq(HostFrames)
    BY <1>6 DEF DeviceReads, TypeOK
  <2>2. toHost' \in Seq(DeviceFrames)
    BY <1>6, DeviceMessages DEF DeviceReads, TypeOK
  <2>3. got' \in Nat
    <3>1. got \in Nat /\ (f.kind = "data" => f.bytes \in Nat)
      BY <2>1, HostSends, OmegaAssumption DEF TypeOK
    <3>2. got' = CASE f.kind = "data" -> got + f.bytes
                   [] f.kind = "name" -> 0
                   [] OTHER -> got
      BY <1>6 DEF DeviceReads
    <3> HIDE DEF f
    <3> QED
      BY <3>1, <3>2
  <2>4. failed' \in SUBSET Names /\ batch' \in Seq(Spellings)
    <3>1. batch # <<>> => Head(batch) \in Spellings /\ Tail(batch) \in Seq(Spellings)
      BY DEF TypeOK
    <3>2. batch # <<>> => Head(batch).name \in Names
      BY <3>1 DEF Spellings
    <3> QED
      BY <1>6, <3>1, <3>2 DEF DeviceReads, TypeOK
  <2>5. dev' \in {"armed", "free", "name", "body", "batchStatus", "protest"}
    <3>1. Expected(f) => f.kind \in {"versionsOk", "restore", "status", "name", "data",
                                     "fileSuccess", "fileError", "terminator"}
      BY <2>1, HostSends
    <3>2. Expected(f) => NextState(f) \in {"armed", "free", "name", "body", "batchStatus"}
      BY <3>1 DEF NextState
    <3> QED
      BY <1>6, <3>2 DEF DeviceReads
  <2> QED
    BY <1>6, <2>1, <2>2, <2>3, <2>4, <2>5 DEF DeviceReads, TypeOK, Serving, hostVars
<1>7. CASE LinkEnds
  BY <1>7 DEF LinkEnds, TypeOK, Serving, hostVars, deviceVars
<1> QED
  BY <1>1, <1>2, <1>3, <1>4, <1>5, <1>6, <1>7 DEF Device
-----------------------------------------------------------------------------
(* Lemmas about what the device has said. *)

LEMMA HeardFirst ==
  ASSUME NEW q \in Seq(DeviceFrames), q # <<>>, ReportsFirst(q)
  PROVE  /\ ReportsFirst(Tail(q))
         /\ Tail(q) = <<>> => EndOf(q) = Head(q)
         /\ Tail(q) # <<>> => EndOf(Tail(q)) = EndOf(q) /\ Head(q).kind \in Reports
<1>1. /\ Len(q) \in Nat \ {0} /\ Len(Tail(q)) = Len(q) - 1 /\ Head(q) = q[1]
      /\ \A i \in 1..Len(Tail(q)) : Tail(q)[i] = q[i + 1]
  OBVIOUS
<1>2. Tail(q) = <<>> <=> Len(q) = 1
  BY <1>1, EmptySeq
<1> QED
  BY <1>1, <1>2 DEF ReportsFirst, EndOf

LEMMA SaidLast ==
  ASSUME NEW q \in Seq(DeviceFrames), NEW m, ReportsFirst(q),
         q # <<>> => EndOf(q).kind \in Reports
  PROVE  /\ ReportsFirst(Append(q, m)) /\ EndOf(Append(q, m)) = m
         /\ Append(q, m) # <<>>
<1>1. /\ Len(q) \in Nat /\ Len(Append(q, m)) = Len(q) + 1 /\ Append(q, m)[Len(q) + 1] = m
      /\ \A i \in 1..Len(q) : Append(q, m)[i] = q[i]
      /\ Len(q) = 0 => q = <<>>
  OBVIOUS
<1> QED
  BY <1>1 DEF ReportsFirst, EndOf

(* The host reads a frame of the loop: the question the device waits at,   *)
(* or a report, and nothing of it changes what is under way to the device. *)
LEMMA HeardAgrees ==
  ASSUME RestoreInv, link = "up", NEW s, Agree(s), host = "read", toHost # <<>>
  PROVE  /\ dev \notin {"opening", "handshake"}
         /\ Head(toHost).kind \notin Reports => Tail(toHost) = <<>> /\ Asked(Head(toHost), s)
         /\ Head(toHost).kind \in Reports =>
              /\ ReportsFirst(Tail(toHost))
              /\ IF Tail(toHost) = <<>> THEN s.at = "free" ELSE Asked(EndOf(Tail(toHost)), s)
<1>1. /\ dev \notin {"opening", "handshake"} /\ ReportsFirst(toHost)
      /\ Asked(EndOf(toHost), s) /\ toHost \in Seq(DeviceFrames)
  BY DEF Agree, RestoreInv, TypeOK
<1>2. Head(toHost).kind \in Reports /\ Asked(Head(toHost), s) => s.at = "free"
  BY DEF Asked, Reports
<1> QED
  BY <1>1, <1>2, HeardFirst

LEMMA RefusalHeard ==
  ASSUME RestoreInv, refused, host \in {"loop", "read"}
  PROVE  /\ toHost # <<>>
         /\ Head(toHost).kind \in Reports \cup {"error", "findMy"}
         /\ Head(toHost).kind \in Reports =>
              /\ ReportsFirst(Tail(toHost)) /\ Tail(toHost) # <<>>
              /\ EndOf(Tail(toHost)).kind \in {"error", "findMy"}
<1>1. /\ ReportsFirst(toHost) /\ toHost # <<>> /\ EndOf(toHost).kind \in {"error", "findMy"}
      /\ toHost \in Seq(DeviceFrames)
  BY DEF RestoreInv, Verdict, TypeOK
<1> QED
  BY <1>1, HeardFirst DEF Reports
-----------------------------------------------------------------------------
(* The host's steps. *)

(* A step of the host that writes nothing. *)
LEMMA HostQuiet ==
  ASSUME TypeOK, dev # "protest", NEW s \in DeviceStates, Path(Now, toDevice, s),
         UNCHANGED <<deviceVars, toDevice>>, Agree(s)'
  PROVE  InStep'
<1>1. Now' = Now
  BY DEF Now, State, deviceVars
<1> QED
  BY <1>1 DEF InStep

(* One that writes a frame. *)
LEMMA HostWrites ==
  ASSUME TypeOK, dev # "protest", link = "up", NEW s \in DeviceStates, Path(Now, toDevice, s),
         NEW f \in HostFrames, NEW t \in DeviceStates, Takes(s, f, t),
         toDevice' = toDevice \o <<f>>,
         UNCHANGED deviceVars, Agree(t)'
  PROVE  InStep'
<1>1. Now' = Now
  BY DEF Now, State, deviceVars
<1>2. Path(Now, toDevice \o <<f>>, t)
  BY OneMore DEF TypeOK
<1> QED
  BY <1>1, <1>2 DEF InStep

LEMMA HandshakeStep ==
  ASSUME RestoreInv, link = "up", ReadHello \/ ReadDeviceReady
  PROVE  InStep'
<1>1. PICK s \in DeviceStates : Path(Now, toDevice, s) /\ Agree(s)
  BY DEF RestoreInv, InStep
<1>2. TypeOK /\ dev # "protest" /\ UNCHANGED <<deviceVars, link>>
  BY DEF RestoreInv, ReadHello, ReadDeviceReady
<1>3. CASE ReadHello
  <2>1. /\ toDevice = <<>> /\ dev = "handshake" /\ Tail(toHost) = <<>>
    <3>1. host = "hello" /\ toHost # <<>>
      BY <1>3 DEF ReadHello, Reads
    <3>2. toDevice = <<>> /\ dev = "handshake" /\ toHost = <<Msg("hello")>>
      BY <1>1, <3>1 DEF Agree
    <3> QED
      BY <3>2
  <2>2. s = Now
    BY <1>1, <2>1, NothingTaken
  <2> DEFINE t == State("armed", s.batch, s.got, s.failed)
  <2>3. t \in DeviceStates /\ t.at = "armed" /\ Takes(s, Msg("versionsOk"), t)
    BY <2>1, <2>2 DEF DeviceStates, State, Takes, Now, Msg
  <2> HIDE DEF t
  <2>4. toDevice' = toDevice \o <<Msg("versionsOk")>> /\ toHost' = <<>> /\ host' = "ready"
    BY <1>2, <1>3, <2>1, Zenon DEF ReadHello, Reads, Write
  <2>5. toDevice' = <<Msg("versionsOk")>>
    BY <2>1, <2>4
  <2>6. Agree(t)'
    BY <1>2, <2>1, <2>3, <2>4, <2>5 DEF Agree, deviceVars
  <2> QED
    BY <1>1, <1>2, <2>3, <2>4, <2>6, HostWrites, HostMessages
<1>4. CASE ReadDeviceReady
  <2>1. /\ toDevice = <<>> /\ dev = "armed" /\ Tail(toHost) = <<>>
    <3>1. host = "ready" /\ toHost # <<>>
      BY <1>4 DEF ReadDeviceReady, Reads
    <3>2. toDevice = <<>> /\ dev = "armed" /\ toHost = <<Msg("deviceReady")>>
      BY <1>1, <3>1 DEF Agree
    <3> QED
      BY <3>2
  <2>2. s = Now
    BY <1>1, <2>1, NothingTaken
  <2> DEFINE t == State("free", s.batch, s.got, s.failed)
  <2>3. t \in DeviceStates /\ t.at = "free" /\ Takes(s, Msg("restore"), t)
    BY <2>1, <2>2 DEF DeviceStates, State, Takes, Now, Msg
  <2> HIDE DEF t
  <2>4. toDevice' = toDevice \o <<Msg("restore")>> /\ toHost' = <<>> /\ host' = "loop"
    BY <1>2, <1>4, <2>1, Zenon DEF ReadDeviceReady, Reads, Write
  <2>5. Agree(t)'
    BY <1>2, <2>1, <2>3, <2>4 DEF Agree, deviceVars, ReportsFirst
  <2> QED
    BY <1>1, <1>2, <2>3, <2>4, <2>5, HostWrites, HostMessages
<1> QED
  BY <1>3, <1>4

LEMMA AnswerStep ==
  ASSUME RestoreInv, link = "up", ReadPlain \/ ReadPurge
  PROVE  InStep'
<1>1. PICK s \in DeviceStates : Path(Now, toDevice, s) /\ Agree(s)
  BY DEF RestoreInv, InStep
<1>2. TypeOK /\ dev # "protest" /\ UNCHANGED deviceVars /\ host' = "loop"
  BY DEF RestoreInv, ReadPlain, ReadPurge
<1> DEFINE f == IF Head(toHost).kind = "plain" THEN Status("zero") ELSE Status("one")
           t == State("free", s.batch, s.got, s.failed)
<1>3. /\ host = "read" /\ toHost # <<>> /\ Head(toHost).kind \in {"plain", "purge"}
      /\ toHost' = Tail(toHost) /\ toDevice' = toDevice \o <<f>>
  BY DEF ReadPlain, ReadPurge, Reads, Write
<1>4. /\ dev \notin {"opening", "handshake"} /\ Tail(toHost) = <<>>
      /\ Asked(Head(toHost), s)
  BY <1>1, <1>3, HeardAgrees DEF Reports
<1>5. t \in DeviceStates /\ t.at = "free" /\ Takes(s, f, t) /\ f \in HostFrames
  BY <1>3, <1>4, HostMessages DEF DeviceStates, State, Takes, Asked, Reports
<1> HIDE DEF f, t
<1>6. Agree(t)'
  <2>1. /\ toHost' = <<>> /\ host' = "loop" /\ dev' \notin {"opening", "handshake"}
        /\ t.at = "free"
    BY <1>2, <1>3, <1>4, <1>5 DEF deviceVars
  <2> QED
    BY <2>1 DEF Agree, ReportsFirst
<1> QED
  BY <1>1, <1>2, <1>3, <1>5, <1>6, HostWrites

LEMMA QuietStep ==
  ASSUME RestoreInv, link = "up",
         \/ KeepOn \/ Cancelled \/ ReadEmpty \/ ReadPercent \/ ReadDownload
         \/ ReadError \/ ReadFindMy \/ ReadCrash \/ ReadContent
  PROVE  InStep'
<1>1. PICK s \in DeviceStates : Path(Now, toDevice, s) /\ Agree(s)
  BY DEF RestoreInv, InStep
<1>2. TypeOK /\ dev # "protest" /\ UNCHANGED <<deviceVars, toDevice>>
  BY DEF RestoreInv, KeepOn, Cancelled, ReadEmpty, ReadPercent, ReadDownload, ReadError,
         ReadFindMy, ReadCrash, ReadContent
<1>3. CASE host' = "ended"
  BY <1>1, <1>2, <1>3, HostQuiet DEF Agree
<1>4. CASE KeepOn
  <2>1. Agree(s)'
    BY <1>1, <1>2, <1>4 DEF Agree, KeepOn, deviceVars
  <2> QED
    BY <1>1, <1>2, <2>1, HostQuiet
<1>5. CASE ReadEmpty \/ ReadPercent
  <2>1. /\ host = "read" /\ host' = "loop" /\ toHost # <<>> /\ Head(toHost).kind \in Reports
        /\ toHost' = Tail(toHost)
    BY <1>5 DEF ReadEmpty, ReadPercent, Reads, Reports
  <2>2. Agree(s)'
    BY <1>1, <1>2, <2>1, HeardAgrees DEF Agree, deviceVars
  <2> QED
    BY <1>1, <1>2, <2>2, HostQuiet
<1>6. CASE ReadDownload
  <2>1. /\ host = "read" /\ host' = "serve" /\ toHost # <<>> /\ Head(toHost).kind = "download"
        /\ toHost' = Tail(toHost) /\ queue' = Head(toHost).names /\ missing' = {}
    BY <1>6 DEF ReadDownload, Reads
  <2>2. /\ dev \notin {"opening", "handshake"} /\ toHost' = <<>>
        /\ s.at = "name" /\ s.batch = queue' /\ s.failed = {}
    BY <1>1, <2>1, HeardAgrees DEF Asked, Reports
  <2>3. Agree(s)'
    BY <1>2, <2>1, <2>2 DEF Agree, deviceVars
  <2> QED
    BY <1>1, <1>2, <2>3, HostQuiet
<1> QED
  BY <1>3, <1>4, <1>5, <1>6 DEF Cancelled, ReadError, ReadFindMy, ReadCrash, ReadContent, End

LEMMA ServeStep ==
  ASSUME RestoreInv, link = "up", ServeName \/ ServeMissing \/ ServeChunk \/ ServeEnd
  PROVE  InStep'
<1>1. PICK s \in DeviceStates : Path(Now, toDevice, s) /\ Agree(s)
  BY DEF RestoreInv, InStep
<1>2. /\ TypeOK /\ dev # "protest" /\ Serving
      /\ UNCHANGED <<deviceVars, toHost>> /\ host \in {"serve", "body"} /\ queue # <<>>
  BY DEF RestoreInv, Serving, ServeName, ServeMissing, ServeChunk, ServeEnd
<1>3. /\ toHost = <<>> /\ dev \notin {"opening", "handshake"}
      /\ s.batch = queue /\ s.failed = missing
      /\ host = "serve" => s.at = "name"
      /\ host = "body" => /\ s.at = "body" /\ s.got = sent
                          /\ Head(queue).name \in Files => sent <= Size[Head(queue).name]
  BY <1>1, <1>2 DEF Agree
<1>4. Head(queue) \in Spellings /\ Tail(queue) \in Seq(Spellings)
  BY <1>2 DEF TypeOK
<1>5. Head(queue).name \in Names
  BY <1>4 DEF Spellings
<1>6. toHost' = <<>> /\ dev' \notin {"opening", "handshake"}
  BY <1>2, <1>3 DEF deviceVars
<1>7. CASE ServeName
  <2> DEFINE f == [kind |-> "name", of |-> Head(queue)]
             t == State("body", s.batch, 0, s.failed)
  <2>1. host = "serve" /\ host' = "body" /\ sent' = 0 /\ UNCHANGED <<queue, missing>>
    BY <1>7 DEF ServeName
  <2>2. toDevice' = toDevice \o <<f>>
    BY <1>7, Zenon DEF ServeName, Write
  <2>3. f \in HostFrames
    BY <1>4, HostMessages
  <2>4. Takes(s, f, t)
    BY <1>2, <1>3, <2>1 DEF Takes
  <2>5. t \in DeviceStates /\ t.at = "body" /\ t.batch = queue /\ t.failed = missing /\ t.got = 0
    BY <1>3 DEF DeviceStates, State
  <2> HIDE DEF f, t
  <2>6. Agree(t)'
    BY <1>2, <1>6, <2>1, <2>5, OmegaAssumption DEF Agree
  <2> QED
    BY <1>1, <1>2, <2>2, <2>3, <2>4, <2>5, <2>6, HostWrites
<1>8. CASE ServeMissing
  <2> DEFINE t == State("name", Tail(s.batch), s.got, s.failed \cup {Head(s.batch).name})
  <2>1. /\ host = "body" /\ host' = "serve" /\ queue' = Tail(queue)
        /\ missing' = missing \cup {Head(queue).name} /\ Head(queue).name \in Absent
    BY <1>5, <1>8 DEF ServeMissing, InBackup, Names
  <2>2. toDevice' = toDevice \o <<Msg("fileError")>>
    BY <1>8, Zenon DEF ServeMissing, Write
  <2>3. Takes(s, Msg("fileError"), t)
    BY <1>2, <1>3, <2>1 DEF Takes, Msg
  <2>4. t \in DeviceStates /\ t.at = "name" /\ t.batch = queue' /\ t.failed = missing'
    BY <1>3, <1>4, <1>5, <2>1 DEF DeviceStates, State
  <2> HIDE DEF t
  <2>5. Agree(t)'
    BY <1>6, <2>1, <2>4 DEF Agree
  <2> QED
    BY <1>1, <1>2, <2>2, <2>3, <2>4, <2>5, HostWrites, HostMessages
<1>9. CASE ServeChunk
  <2>1. PICK n \in 1..Chunk : /\ sent' = sent + n /\ sent + n <= Size[Head(queue).name]
                              /\ toDevice' = toDevice \o <<[kind |-> "data", bytes |-> n]>>
    <3> DEFINE left == Size[Head(queue).name] - sent
               n == IF left < Chunk THEN left ELSE Chunk
    <3>1. /\ Size[Head(queue).name] \in Nat /\ sent \in Nat /\ left > 0
      BY <1>2, <1>9, OmegaAssumption DEF ServeChunk, InBackup, TypeOK
    <3>2. n \in 1..Chunk /\ sent + n <= Size[Head(queue).name]
      BY <3>1, OmegaAssumption
    <3>3. sent' = sent + n /\ toDevice' = toDevice \o <<[kind |-> "data", bytes |-> n]>>
      BY <1>9 DEF ServeChunk, Write
    <3> HIDE DEF n
    <3> QED
      BY <3>2, <3>3
  <2> DEFINE f == [kind |-> "data", bytes |-> n]
             t == State("body", s.batch, s.got + f.bytes, s.failed)
  <2>2. host = "body" /\ UNCHANGED <<host, queue, missing>>
    BY <1>9 DEF ServeChunk
  <2>3. f \in HostFrames /\ Takes(s, f, t)
    BY <1>3, <2>2, HostMessages DEF Takes
  <2>4. t \in DeviceStates /\ t.at = "body" /\ t.batch = queue /\ t.failed = missing
        /\ t.got = sent'
    BY <1>3, <2>1, <2>2, OmegaAssumption DEF DeviceStates, State
  <2>5. toDevice' = toDevice \o <<f>>
    BY <2>1
  <2> HIDE DEF f, t
  <2>6. Agree(t)'
    BY <1>2, <1>6, <2>1, <2>2, <2>4 DEF Agree
  <2> QED
    BY <1>1, <1>2, <2>3, <2>4, <2>5, <2>6, HostWrites
<1>10. CASE ServeEnd
  <2> DEFINE t == State("name", Tail(s.batch), s.got, s.failed)
  <2>1. /\ host = "body" /\ host' = "serve" /\ queue' = Tail(queue) /\ missing' = missing
        /\ Head(queue).name \in Files /\ sent = Size[Head(queue).name]
    BY <1>10 DEF ServeEnd, InBackup
  <2>2. toDevice' = toDevice \o <<Msg("fileSuccess")>>
    BY <1>10, Zenon DEF ServeEnd, Write
  <2>3. Takes(s, Msg("fileSuccess"), t)
    BY <1>2, <1>3, <2>1 DEF Takes, Msg
  <2>4. t \in DeviceStates /\ t.at = "name" /\ t.batch = queue' /\ t.failed = missing'
    BY <1>3, <1>4, <2>1 DEF DeviceStates, State
  <2> HIDE DEF t
  <2>5. Agree(t)'
    BY <1>6, <2>1, <2>4 DEF Agree
  <2> QED
    BY <1>1, <1>2, <2>2, <2>3, <2>4, <2>5, HostWrites, HostMessages
<1> QED
  BY <1>7, <1>8, <1>9, <1>10

LEMMA ServeStatusStep ==
  ASSUME RestoreInv, link = "up", ServeStatus
  PROVE  InStep'
<1>1. PICK s \in DeviceStates : Path(Now, toDevice, s) /\ Agree(s)
  BY DEF RestoreInv, InStep
<1>2. /\ TypeOK /\ dev # "protest" /\ UNCHANGED deviceVars
      /\ host' = "loop" /\ toHost' = <<>> /\ dev \notin {"opening", "handshake"}
      /\ s.at = "name" /\ s.batch = <<>> /\ s.failed = missing
  BY <1>1 DEF RestoreInv, ServeStatus, Agree
<1> DEFINE f == Status(IF missing = {} THEN "zero" ELSE "minus13")
           r == State("batchStatus", s.batch, s.got, s.failed)
           t == State("free", s.batch, s.got, s.failed)
           q == toDevice \o <<Msg("terminator")>>
<1>3. toDevice' = toDevice \o <<Msg("terminator"), f>>
  BY Zenon DEF ServeStatus, Write
<1>4. /\ r \in DeviceStates /\ t \in DeviceStates /\ t.at = "free"
      /\ Takes(s, Msg("terminator"), r) /\ Takes(r, f, t)
  BY <1>2 DEF DeviceStates, State, Takes, Msg
<1>5. f \in HostFrames /\ Msg("terminator") \in HostFrames /\ toDevice \in Seq(HostFrames)
  BY <1>2, HostMessages DEF TypeOK
<1> HIDE DEF f, r, t
<1>6. Path(Now, q, r) /\ q \in Seq(HostFrames)
  BY <1>1, <1>4, <1>5, OneMore, WriteType, OneFrame
<1>7. Path(Now, q \o <<f>>, t)
  <2> HIDE DEF q
  <2> QED
    BY <1>4, <1>5, <1>6, OneMore
<1>8. q \o <<f>> = toDevice'
  <2>1. <<Msg("terminator"), f>> = <<Msg("terminator")>> \o <<f>>
    OBVIOUS
  <2> QED
    BY <1>3, <1>5, <2>1, OneFrame, ConcatAssociative
<1>9. Now' = Now
  BY <1>2 DEF Now, State, deviceVars
<1>10. Agree(t)'
  BY <1>2, <1>4 DEF Agree, deviceVars, ReportsFirst
<1> HIDE DEF q
<1> QED
  BY <1>4, <1>7, <1>8, <1>9, <1>10 DEF InStep
-----------------------------------------------------------------------------
(* The device's steps. *)

(* A device that waits for nothing has read all that was sent to it.       *)
LEMMA IdleDevice ==
  ASSUME RestoreInv, link = "up", dev \in {"opening", "free", "over"}
  PROVE  /\ toDevice = <<>> /\ Now \in DeviceStates /\ Agree(Now)
         /\ dev = "free" => /\ host \in {"loop", "read", "ended"} /\ result # "ok"
                            /\ host # "ended" =>
                                 /\ ReportsFirst(toHost) /\ ~refused
                                 /\ toHost # <<>> => EndOf(toHost).kind \in Reports
<1>1. PICK s \in DeviceStates : Path(Now, toDevice, s) /\ Agree(s)
  BY DEF RestoreInv, InStep
<1>2. Now.at = dev /\ toDevice \in Seq(HostFrames)
  BY DEF Now, State, RestoreInv, TypeOK
<1>3. toDevice = <<>> /\ s = Now
  BY <1>1, <1>2, NothingExpected
<1>4. CASE dev = "free"
  <2>1. Now.at = "free" /\ host \in {"loop", "read", "ended"} /\ result # "ok"
    BY <1>1, <1>2, <1>3, <1>4 DEF Agree, RestoreInv, Verdict
  <2>2. ASSUME host # "ended" PROVE ReportsFirst(toHost)
                                    /\ (toHost # <<>> => EndOf(toHost).kind \in Reports)
    BY <1>1, <1>3, <2>1, <2>2 DEF Agree, Asked
  <2>3. ASSUME host # "ended" PROVE ~refused
    BY <2>2, <2>3 DEF RestoreInv, Verdict, Reports
  <2> QED
    BY <1>1, <1>3, <2>1, <2>2, <2>3
<1> QED
  BY <1>1, <1>3, <1>4

(* What a free device says is what it waits at next. *)
LEMMA Spoken ==
  ASSUME RestoreInv, link = "up", dev = "free", NEW m \in DeviceFrames,
         toHost' = Append(toHost, m), UNCHANGED <<hostVars, toDevice>>,
         Now' \in DeviceStates, Asked(m, Now)',
         dev' \notin {"opening", "handshake"}
  PROVE  InStep'
<1>1. toDevice' = <<>>
  BY IdleDevice
<1>2. CASE host # "ended"
  <2>1. ReportsFirst(toHost') /\ EndOf(toHost') = m /\ toHost' # <<>>
    <3>1. toHost \in Seq(DeviceFrames)
      BY DEF RestoreInv, TypeOK
    <3> QED
      BY <1>2, <3>1, IdleDevice, SaidLast
  <2>2. host' \in {"loop", "read"}
    BY <1>2, IdleDevice DEF hostVars
  <2>3. Agree(Now)'
    BY <2>1, <2>2 DEF Agree
  <2> QED
    BY <1>1, <2>3, NothingUnderWay DEF InStep
<1>3. CASE host = "ended"
  <2>1. Agree(Now)'
    BY <1>3 DEF Agree, hostVars
  <2> QED
    BY <1>1, <2>1, NothingUnderWay DEF InStep
<1> QED
  BY <1>2, <1>3

LEMMA DeviceSpeaks ==
  ASSUME RestoreInv, TypeOK', link = "up", Device
  PROVE  InStep' /\ Verdict' /\ dev' # "protest"
<1>1. /\ UNCHANGED <<hostVars, link, toDevice>>
  BY DEF Device, DeviceHello, AskPlain, AskPurge, AskFiles, Report, Asks, Succeed,
         CrashOnPurpose, RefuseRestore, Says
<1>2. CASE DeviceHello
  <2>1. /\ dev = "opening" /\ dev' = "handshake" /\ refused' = refused
        /\ toHost' = Append(toHost, Msg("hello")) /\ UNCHANGED <<batch, got, failed>>
    BY <1>2 DEF DeviceHello, Says
  <2>2. toDevice' = <<>> /\ Now' \in DeviceStates
    BY <1>1, <2>1, IdleDevice, NowIsState DEF RestoreInv, Now, State, DeviceStates, TypeOK
  <2>3. Agree(Now)'
    <3>1. CASE host = "ended"
      BY <1>1, <3>1 DEF Agree, hostVars
    <3>2. CASE host # "ended"
      <4>1. host = "hello" /\ toHost = <<>>
        BY <2>1, <3>2, IdleDevice DEF Agree
      <4> QED
        BY <1>1, <2>1, <2>2, <4>1 DEF Agree, hostVars
    <3> QED
      BY <3>1, <3>2
  <2>4. ~refused \/ (host = "ended" /\ result # "ok")
    BY <2>1, IdleDevice DEF Agree, RestoreInv, Verdict
  <2> QED
    BY <1>1, <2>1, <2>2, <2>3, <2>4, NothingUnderWay
    DEF InStep, RestoreInv, Verdict, hostVars
<1>3. CASE AskPlain \/ AskPurge \/ AskFiles \/ Report \/ Succeed \/ CrashOnPurpose
           \/ RefuseRestore
  <2>1. PICK m \in DeviceFrames : toHost' = Append(toHost, m) /\ Asked(m, Now)'
                              /\ (refused' # refused => m.kind \in {"error", "findMy"})
    <3>1. CASE AskPlain \/ AskPurge
      <4>1. PICK k \in {"plain", "purge"} : /\ toHost' = Append(toHost, Msg(k))
                                            /\ refused' = refused
                                            /\ dev' = IF k = "plain" THEN "status" ELSE "purging"
        BY <3>1 DEF AskPlain, AskPurge, Asks, Says
      <4>2. Asked(Msg(k), Now)'
        BY <4>1 DEF Asked, Now, State, Msg
      <4> QED
        BY <4>1, <4>2, DeviceMessages
    <3>2. CASE AskFiles
      <4>1. PICK k \in 1..2 : \E names \in [1..k -> Spellings] :
              Asks([kind |-> "download", names |-> names], "name") /\ batch' = names
        BY <3>2 DEF AskFiles
      <4>2. PICK names \in [1..k -> Spellings] :
              Asks([kind |-> "download", names |-> names], "name") /\ batch' = names
        BY <4>1
      <4> DEFINE m == [kind |-> "download", names |-> names]
      <4>3. m \in DeviceFrames
        BY DeviceMessages DEF Batches
      <4>4. Asked(m, Now)'
        BY <3>2, <4>2 DEF Asked, Now, State, AskFiles, Asks
      <4> QED
        BY <3>2, <4>2, <4>3, <4>4 DEF AskFiles, Asks, Says
    <3>3. CASE Report
      <4>1. PICK m \in DeviceFrames : m.kind \in Reports /\ Asks(m, "free")
        BY <3>3, DeviceMessages DEF Report, Reports, Msg
      <4> QED
        BY <3>3, <4>1 DEF Report, Asks, Says, Asked, Now, State
    <3>4. CASE Succeed \/ CrashOnPurpose \/ RefuseRestore
      <4>1. PICK k \in {"content", "crash", "error", "findMy"} :
              /\ Says(Msg(k)) /\ dev' = "over"
              /\ refused' # refused => k \in {"error", "findMy"}
        BY <3>4 DEF Succeed, CrashOnPurpose, RefuseRestore
      <4>2. Asked(Msg(k), Now)'
        BY <4>1 DEF Asked, Now, State, Msg
      <4> QED
        BY <4>1, <4>2, DeviceMessages DEF Says, Msg
    <3> QED
      BY <1>3, <3>1, <3>2, <3>3, <3>4
  <2>2. /\ dev = "free" /\ dev' \in {"free", "status", "purging", "name", "over"}
        /\ refused' \in {refused, TRUE}
    BY <1>3 DEF AskPlain, AskPurge, AskFiles, Report, Asks, Succeed, CrashOnPurpose,
                RefuseRestore
  <2>3. Now' \in DeviceStates
    BY <2>2 DEF Now, State, DeviceStates, TypeOK
  <2>4. InStep'
    BY <1>1, <2>1, <2>2, <2>3, Spoken
  <2>5. Verdict'
    <3>1. CASE host = "ended"
      BY <1>1, <2>2, <3>1, IdleDevice DEF RestoreInv, Verdict, hostVars
    <3>2. CASE host # "ended"
      <4>1. ReportsFirst(toHost') /\ EndOf(toHost') = m /\ toHost' # <<>>
        <5>1. toHost \in Seq(DeviceFrames)
          BY DEF RestoreInv, TypeOK
        <5> QED
          BY <2>1, <2>2, <3>2, <5>1, IdleDevice, SaidLast
      <4>2. ~refused /\ host \in {"loop", "read"} /\ result = "none"
        BY <2>2, <3>2, IdleDevice DEF RestoreInv, Verdict
      <4> QED
        BY <1>1, <2>1, <4>1, <4>2 DEF Verdict, hostVars
    <3> QED
      BY <3>1, <3>2
  <2> QED
    BY <2>2, <2>4, <2>5
<1> QED
  BY <1>2, <1>3 DEF Device

(* The device is taken where the path says, without a protest. *)
LEMMA DeviceTakes ==
  ASSUME RestoreInv, link = "up", DeviceReads
  PROVE  InStep' /\ Verdict' /\ dev' # "protest"
<1>1. PICK s \in DeviceStates : Path(Now, toDevice, s) /\ Agree(s)
  BY DEF RestoreInv, InStep
<1> DEFINE f == Head(toDevice)
<1>2. /\ toDevice \in Seq(HostFrames) /\ toDevice # <<>> /\ toDevice' = Tail(toDevice)
      /\ f \in HostFrames /\ batch \in Seq(Spellings)
      /\ UNCHANGED <<hostVars, refused, link>>
      /\ toHost' = IF dev = "handshake" THEN Append(toHost, Msg("deviceReady")) ELSE toHost
  BY DEF DeviceReads, RestoreInv, TypeOK
<1>3. PICK t \in DeviceStates : Takes(Now, f, t) /\ Path(t, toDevice', s)
  BY <1>1, <1>2, OneLess
<1>4. Expected(f) /\ NextState(f) = t.at
  BY <1>3 DEF Takes, Now, State, Expected, NextState, Status
<1>5. /\ dev' = t.at /\ dev' # "protest" /\ dev' \notin {"opening", "handshake"}
      /\ dev \notin {"opening", "free", "over"}
  BY <1>3, <1>4 DEF DeviceReads, Takes, Now, State
<1>6. Now' = t
  <2>1. batch' = t.batch /\ failed' = t.failed
    <3>1. /\ f.kind \in {"fileSuccess", "fileError"} => batch # <<>> /\ t.batch = Tail(batch)
          /\ f.kind \notin {"fileSuccess", "fileError"} => t.batch = batch
      BY <1>3 DEF Takes, Now, State, Status
    <3>2. /\ f.kind = "fileError" => t.failed = failed \cup {Head(batch).name}
          /\ f.kind # "fileError" => t.failed = failed
      BY <1>3 DEF Takes, Now, State, Status
    <3> QED
      BY <3>1, <3>2 DEF DeviceReads
  <2>2. got' = t.got
    BY <1>3 DEF DeviceReads, Takes, Now, State, Status
  <2> QED
    BY <1>5, <2>1, <2>2 DEF Now, State, DeviceStates
<1>7. Agree(s)'
  <2>1. CASE dev = "handshake" /\ host # "ended"
    <3>1. host = "ready" /\ s.at = "armed" /\ toDevice = <<Msg("versionsOk")>> /\ toHost = <<>>
      BY <1>1, <1>2, <2>1 DEF Agree
    <3>2. t.at = "armed" /\ toDevice' = <<>>
      BY <1>2, <1>3, <2>1, <3>1 DEF Takes, Now, State
    <3> QED
      BY <1>2, <1>5, <2>1, <3>1, <3>2 DEF Agree, hostVars
  <2>2. CASE dev # "handshake"
    BY <1>1, <1>2, <1>5, <2>2 DEF Agree, hostVars
  <2>3. CASE host = "ended"
    BY <1>2, <2>3 DEF Agree, hostVars
  <2> QED
    BY <2>1, <2>2, <2>3
<1>8. Verdict'
  <2>1. result # "ok"
    BY <1>5 DEF RestoreInv, Verdict
  <2>2. CASE dev = "handshake"
    BY <1>1, <1>2, <2>1, <2>2 DEF Agree, RestoreInv, Verdict, hostVars
  <2>3. CASE dev # "handshake"
    BY <1>2, <2>1, <2>3 DEF RestoreInv, Verdict, hostVars
  <2> QED
    BY <2>2, <2>3
<1> QED
  BY <1>3, <1>5, <1>6, <1>7, <1>8 DEF InStep
-----------------------------------------------------------------------------
LEMMA RestoreInit == Init => RestoreInv
<1> SUFFICES ASSUME Init PROVE RestoreInv
  OBVIOUS
<1>1. TypeOK
  <2>1. asks \in 0..MaxAsks
    BY OmegaAssumption DEF Init
  <2>2. <<>> \in Seq(DeviceFrames) /\ <<>> \in Seq(HostFrames) /\ <<>> \in Seq(Spellings)
    OBVIOUS
  <2>3. toHost \in Seq(DeviceFrames) /\ toDevice \in Seq(HostFrames)
        /\ queue \in Seq(Spellings) /\ batch \in Seq(Spellings)
    BY <2>2, Zenon DEF Init
  <2>4. /\ progress \in 0..100 /\ sent \in Nat /\ got \in Nat
        /\ missing \in SUBSET Names /\ failed \in SUBSET Names
    BY DEF Init
  <2>5. /\ rebooted \in BOOLEAN /\ restored \in BOOLEAN /\ content \in BOOLEAN
        /\ refused \in BOOLEAN /\ result \in Results /\ link \in {"up", "eof", "reset"}
        /\ host \in {"hello", "ready", "loop", "read", "serve", "body", "ended"}
    BY DEF Init, Results
  <2>6. dev \in {"opening", "handshake", "armed", "free", "name", "body",
                "status", "purging", "batchStatus", "over", "protest"}
    BY DEF Init
  <2> QED
    BY <2>1, <2>3, <2>4, <2>5, <2>6 DEF TypeOK
<1>2. Path(Now, toDevice, Now) /\ Now \in DeviceStates
  <2>1. Now \in DeviceStates
    BY <1>1, NowIsState DEF Init
  <2> QED
    BY <2>1, NothingUnderWay DEF Init
<1>3. Agree(Now) /\ Serving /\ Verdict /\ dev # "protest"
  BY DEF Init, Agree, Serving, Verdict
<1> QED
  BY <1>1, <1>2, <1>3 DEF RestoreInv, InStep

(* The verdict after a step of the host. *)
LEMMA HostVerdict ==
  ASSUME RestoreInv, Host \/ Cancelled
  PROVE  Verdict'
<1>1. UNCHANGED <<deviceVars, link>>
  BY DEF Host, ReadHello, ReadDeviceReady, ReadFails, ReadEof, KeepOn, Cancelled, ReadEmpty,
         ReadError, ReadFindMy, ReadCrash, ReadPercent, ReadContent, ReadPlain, ReadPurge,
         ReadDownload, ServeName, ServeMissing, ServeChunk, ServeEnd, ServeStatus, WriteFails
<1>2. /\ refused => /\ host \in {"loop", "read"} /\ ReportsFirst(toHost) /\ toHost # <<>>
                    /\ EndOf(toHost).kind \in {"error", "findMy"}
      /\ host # "ended" /\ result = "none"
  BY DEF RestoreInv, Verdict, Host, ReadHello, ReadDeviceReady, ReadFails, ReadEof, KeepOn,
         Cancelled, ReadEmpty, ReadError, ReadFindMy, ReadCrash, ReadPercent, ReadContent,
         ReadPlain, ReadPurge, ReadDownload, ServeName, ServeMissing, ServeChunk, ServeEnd,
         ServeStatus, WriteFails, Reads
<1>3. CASE \/ ReadHello \/ ReadDeviceReady \/ ServeName \/ ServeMissing \/ ServeChunk
           \/ ServeEnd \/ ServeStatus
  <2>1. /\ host \in {"hello", "ready", "serve", "body"} /\ result' = result
    BY <1>3 DEF ReadHello, ReadDeviceReady, ServeName, ServeMissing, ServeChunk, ServeEnd,
                ServeStatus, Reads
  <2> QED
    BY <1>1, <1>2, <2>1 DEF Verdict, deviceVars
<1>4. CASE ReadPlain \/ ReadPurge \/ ReadDownload
  <2>1. /\ host = "read" /\ Head(toHost).kind \in {"plain", "purge", "download"}
        /\ result' = result
    BY <1>4 DEF ReadPlain, ReadPurge, ReadDownload, Reads
  <2>2. ~refused
    BY <2>1, RefusalHeard DEF Reports
  <2> QED
    BY <1>1, <1>2, <2>1, <2>2 DEF Verdict, deviceVars
<1>5. CASE KeepOn
  BY <1>1, <1>2, <1>5 DEF KeepOn, Verdict, deviceVars
<1>6. CASE ReadEmpty \/ ReadPercent
  <2>1. /\ host = "read" /\ Head(toHost).kind \in Reports /\ host' = "loop"
        /\ result' = result /\ toHost' = Tail(toHost)
    BY <1>6 DEF ReadEmpty, ReadPercent, Reads, Reports
  <2> QED
    BY <1>1, <1>2, <2>1, RefusalHeard DEF Verdict, deviceVars
<1>7. CASE Cancelled \/ ReadFails \/ WriteFails \/ ReadError \/ ReadFindMy
  <2>1. host' = "ended" /\ result' \notin {"ok", "none"}
    BY <1>7 DEF Cancelled, ReadFails, WriteFails, ReadError, ReadFindMy, End
  <2> QED
    BY <2>1 DEF Verdict
<1>8. CASE ReadEof
  <2>1. host = "read" /\ host' = "ended" /\ toHost = <<>> /\ link = "eof"
    BY <1>8 DEF ReadEof, End
  <2> QED
    BY <1>1, <1>2, <2>1 DEF Verdict, deviceVars
<1>9. CASE ReadCrash \/ ReadContent
  <2>1. /\ host = "read" /\ host' = "ended" /\ toHost # <<>>
        /\ Head(toHost).kind \in {"crash", "content"}
    BY <1>9 DEF ReadCrash, ReadContent, Reads, End
  <2>2. ~refused
    BY <2>1, RefusalHeard DEF Reports
  <2>3. ASSUME link = "up" PROVE dev = "over"
    <3>1. PICK s \in DeviceStates : Path(Now, toDevice, s) /\ Agree(s)
      BY <2>3 DEF RestoreInv, InStep
    <3>2. s.at = "over"
      BY <2>1, <2>3, <3>1, HeardAgrees DEF Asked, Reports
    <3>3. Now.at = "over"
      BY <3>1, <3>2, NoneEnds DEF RestoreInv, TypeOK
    <3> QED
      BY <3>3 DEF Now, State
  <2> QED
    BY <1>1, <2>1, <2>2, <2>3 DEF Verdict, deviceVars
<1> QED
  BY <1>3, <1>4, <1>5, <1>6, <1>7, <1>8, <1>9 DEF Host

LEMMA RestoreStep == RestoreInv /\ [Next]_vars => RestoreInv'
<1> SUFFICES ASSUME RestoreInv, [Next]_vars PROVE RestoreInv'
  OBVIOUS
<1>1. CASE UNCHANGED vars
  <2>1. Now' = Now /\ UNCHANGED <<toDevice, link>>
    BY <1>1 DEF vars, Now, State
  <2>2. ASSUME NEW s \in DeviceStates, Agree(s) PROVE Agree(s)'
    BY <1>1, <2>2 DEF vars, Agree
  <2>3. InStep => InStep'
    BY <2>1, <2>2 DEF InStep
  <2> QED
    BY <1>1, <2>1, <2>3 DEF vars, RestoreInv, TypeOK, Serving, Verdict
<1>2. TypeOK /\ Serving
  BY DEF RestoreInv
<1>3. CASE Host \/ Cancelled
  <2>1. TypeOK' /\ Serving' /\ Verdict'
    BY <1>2, <1>3, HostType, HostVerdict
  <2>2. UNCHANGED <<deviceVars, link>>
    BY <1>3 DEF Host, ReadHello, ReadDeviceReady, ReadFails, ReadEof, KeepOn, Cancelled,
         ReadEmpty, ReadError, ReadFindMy, ReadCrash, ReadPercent, ReadContent, ReadPlain,
         ReadPurge, ReadDownload, ServeName, ServeMissing, ServeChunk, ServeEnd, ServeStatus,
         WriteFails
  <2>3. ASSUME link = "up" PROVE InStep'
    <3>1. ~(ReadFails \/ ReadEof \/ WriteFails)
      BY <2>3 DEF ReadFails, ReadEof, WriteFails
    <3> QED
      BY <1>3, <2>3, <3>1, HandshakeStep, AnswerStep, QuietStep, ServeStep, ServeStatusStep
      DEF Host
  <2> QED
    BY <2>1, <2>2, <2>3 DEF RestoreInv, deviceVars
<1>4. CASE Device \/ DeviceReads
  <2>1. TypeOK' /\ Serving'
    BY <1>2, <1>4, DeviceType
  <2>2. link = "up"
    BY <1>4 DEF Device, DeviceReads, DeviceHello, AskPlain, AskPurge, AskFiles, Report, Asks,
                Succeed, CrashOnPurpose, RefuseRestore, Says
  <2> QED
    BY <1>4, <2>1, <2>2, DeviceSpeaks, DeviceTakes DEF RestoreInv
<1>5. CASE LinkEnds
  <2>1. TypeOK' /\ Serving'
    BY <1>2, <1>5, DeviceType
  <2> QED
    BY <1>5, <2>1 DEF LinkEnds, RestoreInv, Verdict, hostVars, deviceVars
<1> QED
  BY <1>1, <1>3, <1>4, <1>5 DEF Next

LEMMA RestoreInvAlways == CommandSpec => []RestoreInv
<1>1. CommandInit => RestoreInv
  BY RestoreInit DEF CommandInit
<1>2. [CommandNext]_commandVars => [Next]_vars
  BY DEF CommandNext, commandVars, Resolve, ReadInfo, InfoFails, AskVersion, Confirm, Decline,
         Open, OpenFails, Plugged, Front, Restoring
<1>3. RestoreInv /\ [CommandNext]_commandVars => RestoreInv'
  BY <1>2, RestoreStep
<1> QED
  BY <1>1, <1>3, PTL DEF CommandSpec

(* The types of both sides of the restore and of what is between them. *)
THEOREM TypeCorrect == CommandSpec => []TypeOK
<1>1. RestoreInv => TypeOK
  BY DEF RestoreInv
<1> QED
  BY <1>1, RestoreInvAlways, PTL

(* restoreViaLink and serveOmegaFiles (device/restore.go 60-262) speak the *)
(* protocol for any backup, any file sizes, any chunk and any order of     *)
(* requests: the device never gets a frame it does not wait for, and what  *)
(* it refuses is not reported as done.                                     *)
THEOREM DeviceSatisfiedAlways == CommandSpec => []DeviceSatisfied
<1>1. RestoreInv => DeviceSatisfied
  BY DEF RestoreInv, Verdict, DeviceSatisfied
<1> QED
  BY <1>1, RestoreInvAlways, PTL
=============================================================================
