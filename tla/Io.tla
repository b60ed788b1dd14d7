---------------------------------- MODULE Io ----------------------------------
(***************************************************************************)
(* Io.js: one GPSEE.Io handle of the rpmio binding, opened on /tmp/io.file *)
(* for writing, then for reading, then for reading through stdio, with a   *)
(* digest over the bytes that pass through it and a seek/tell/rewind.      *)
(*                                                                         *)
(* The file outlives the process; the handle, its descriptor, offset and  *)
(* digest do not.  The run may die between any two lines and the script   *)
(* is then started again over whatever /tmp/io.file holds.  The file only *)
(* ever receives the bytes of yadda written at offset 0, so its content is *)
(* its length: the first fileLen bytes of yadda.  A read or a digest is    *)
(* the byte range <<from, to>> of yadda it covers, and a digest's hex      *)
(* string is the range of the bytes absorbed since digestinit.             *)
(***************************************************************************)
EXTENDS Naturals, Sequences, FiniteSets

CONSTANTS
  MaxRuns,     \* runs of Io.js against one /tmp
  MaxCrashes,  \* of which at most this many die before the end
  Absent       \* fileLen when /tmp/io.file does not exist

\* yadda = 'yadda yadda' (Io.js:16): 11 bytes
Y == 11
Yadda == <<0, Y>>

\* O_WRONLY|O_CREAT|O_TRUNC for 'w', O_RDONLY for 'r' and 'r.fpio'
Flags == [m \in {"w", "r", "r.fpio"} |-> IF m = "w" THEN 577 ELSE 0]

NoFd == 0
NoDigest == <<>>

E(op, line, arg, exp) == [op |-> op, line |-> line, arg |-> arg, exp |-> exp]

\* Io.js:12-99, one record per ack() that calls the handle; the acks of
\* path, mode, cpioPos, bytesRemain, lastModified, contentLength,
\* contentType and contentDisposition read constants of the binding and
\* are left out.  attr stands for fstat, fchown(-1,-1) and ferror.
Script == <<
  E("close", 12, "", TRUE),
  E("open", 18, "w", TRUE), E("flags", 20, "", 577),
  E("dinit", 28, "", TRUE), E("ndigests", 29, "", 1),
  E("write", 30, "", TRUE), E("attr", 31, "", TRUE), E("attr", 32, "", TRUE),
  E("fileno", 35, "", 3), E("dfini", 36, "", <<Yadda>>),
  E("close", 43, "", TRUE),
  E("open", 45, "r", TRUE), E("flags", 47, "", 0),
  E("dinit", 55, "", TRUE), E("ndigests", 56, "", 1),
  E("read", 57, "", Yadda), E("attr", 58, "", TRUE),
  E("fileno", 61, "", 3), E("dfini", 62, "", <<Yadda>>),
  E("close", 69, "", TRUE),
  E("open", 71, "r.fpio", TRUE), E("flags", 73, "", 0),
  E("seek", 82, 5, 0), E("tell", 83, "", 5), E("rewind", 84, "", TRUE), E("tell", 85, "", 0),
  E("read", 87, "", Yadda), E("attr", 88, "", TRUE), E("fileno", 91, "", 3),
  E("close", 99, "", TRUE)
>>

Done == Len(Script) + 1

VARIABLES
  fileLen,    \* /tmp/io.file: Absent, or the length of the yadda prefix it holds
  hmode,      \* the mode the handle is open in, "" when it is not open
  fd,         \* the handle's descriptor, NoFd when it is not open
  fds,        \* the descriptors above 2 the process holds
  pos,        \* the handle's file offset
  digest,     \* the ranges absorbed since digestinit, NoDigest when none runs
  dOn,        \* a digest is running on the handle
  pc, ackFailed, runs, crashes

vars == <<fileLen, hmode, fd, fds, pos, digest, dOn, pc, ackFailed, runs, crashes>>

Range == {<<a, b>> : a \in 0..Y, b \in 0..Y}

TypeOK ==
  /\ fileLen \in {Absent} \cup 0..Y
  /\ hmode \in {""} \cup DOMAIN Flags
  /\ fd \in Nat /\ fds \subseteq Nat \ {0, 1, 2}
  /\ pos \in 0..Y
  /\ digest \in Seq(Range) /\ dOn \in BOOLEAN
  /\ pc \in 1..Done /\ runs \in 1..MaxRuns /\ crashes \in 0..MaxCrashes

\* A fresh process on a /tmp that may hold io.file, of any length, left by
\* an earlier run.
Init ==
  /\ fileLen \in {Absent} \cup 0..Y
  /\ hmode = "" /\ fd = NoFd /\ fds = {} /\ pos = 0
  /\ digest = NoDigest /\ dOn = FALSE /\ pc = 1
  /\ ackFailed = {} /\ runs = 1 /\ crashes = 0

-----------------------------------------------------------------------------

Ln == Script[pc]

\* ack(expr, exp): record the line on a mismatch and go on.
Ack(res) ==
  /\ ackFailed' = IF res = Ln.exp THEN ackFailed ELSE ackFailed \cup {Ln.line}
  /\ pc' = pc + 1

\* open(2) returns the lowest descriptor the process does not hold.
LowestFree ==
  LET free == (3..(3 + Cardinality(fds))) \ fds
  IN CHOOSE n \in free : \A m \in free : n <= m

\* The bytes r pass through the handle: a running digest absorbs them.
Absorb(r) == IF dOn THEN Append(digest, r) ELSE digest

Unchanged == UNCHANGED <<runs, crashes>>

\* io(): Fclose of the open handle, if any; its descriptor and digest go.
Close ==
  /\ Ln.op = "close"
  /\ fds' = fds \ {fd}
  /\ hmode' = "" /\ fd' = NoFd /\ pos' = 0
  /\ digest' = NoDigest /\ dOn' = FALSE
  /\ Ack(TRUE) /\ UNCHANGED fileLen /\ Unchanged

\* Mutant: 'w' opened for appending (O_APPEND instead of O_TRUNC).
OpenAppending ==
  /\ Ln.op = "open" /\ hmode = ""
  /\ \/ /\ Ln.arg = "w"
        /\ fileLen' = IF fileLen = Absent THEN 0 ELSE fileLen
        /\ pos' = fileLen'
     \/ /\ Ln.arg # "w" /\ fileLen # Absent
        /\ pos' = 0 /\ UNCHANGED fileLen
  /\ hmode' = Ln.arg /\ fd' = LowestFree /\ fds' = fds \cup {LowestFree}
  /\ Ack(TRUE) /\ UNCHANGED <<digest, dOn>> /\ Unchanged

\* io(fn, mode): Fopen.  'w' creates or truncates the file; 'r' and
\* 'r.fpio' need it to exist, which the 'w' earlier in the same run makes
\* sure of.
Open ==
  /\ Ln.op = "open" /\ hmode = ""
  /\ \/ /\ Ln.arg = "w"
        /\ fileLen' = 0
     \/ /\ Ln.arg # "w" /\ fileLen # Absent
        /\ UNCHANGED fileLen
  /\ hmode' = Ln.arg /\ pos' = 0
  /\ fd' = LowestFree /\ fds' = fds \cup {LowestFree}
  /\ Ack(TRUE) /\ UNCHANGED <<digest, dOn>> /\ Unchanged

\* io.flags: the open(2) flags of the handle's mode.
ReadFlags ==
  /\ Ln.op = "flags" /\ hmode # ""
  /\ Ack(Flags[hmode])
  /\ UNCHANGED <<fileLen, hmode, fd, fds, pos, digest, dOn>> /\ Unchanged

\* io.digestinit(): start a digest over the bytes that pass from now on.
DigestInit ==
  /\ Ln.op = "dinit"
  /\ digest' = NoDigest /\ dOn' = TRUE
  /\ Ack(TRUE) /\ UNCHANGED <<fileLen, hmode, fd, fds, pos>> /\ Unchanged

\* io.ndigests
NDigests ==
  /\ Ln.op = "ndigests"
  /\ Ack(IF dOn THEN 1 ELSE 0)
  /\ UNCHANGED <<fileLen, hmode, fd, fds, pos, digest, dOn>> /\ Unchanged

\* io.digestfini(): the digest of the absorbed bytes; the digest ends.
DigestFini ==
  /\ Ln.op = "dfini"
  /\ Ack(digest)
  /\ digest' = NoDigest /\ dOn' = FALSE
  /\ UNCHANGED <<fileLen, hmode, fd, fds, pos>> /\ Unchanged

\* io.fwrite(yadda) on the 'w' handle: write(2) of the 11 bytes at the
\* offset, which extends the file.
Fwrite ==
  /\ Ln.op = "write" /\ hmode = "w"
  /\ fileLen' = IF fileLen = Absent \/ fileLen < pos + Y THEN pos + Y ELSE fileLen
  /\ pos' = pos + Y
  /\ digest' = Absorb(<<pos, pos + Y>>)
  /\ Ack(TRUE) /\ UNCHANGED <<hmode, fd, fds, dOn>> /\ Unchanged

\* io.fread(): the rest of the file from the offset.
Fread ==
  /\ Ln.op = "read" /\ hmode \in {"r", "r.fpio"}
  /\ Ack(<<pos, fileLen>>)
  /\ pos' = fileLen
  /\ digest' = Absorb(<<pos, fileLen>>)
  /\ UNCHANGED <<fileLen, hmode, fd, fds, dOn>> /\ Unchanged

\* io.fflush(), io.fstat(), io.fchown(-1,-1), io.ferror(): succeed on an
\* open handle and change nothing the script reads.
Attr ==
  /\ Ln.op = "attr"
  /\ Ack(hmode # "")
  /\ UNCHANGED <<fileLen, hmode, fd, fds, pos, digest, dOn>> /\ Unchanged

\* io.fileno()
Fileno ==
  /\ Ln.op = "fileno"
  /\ Ack(fd)
  /\ UNCHANGED <<fileLen, hmode, fd, fds, pos, digest, dOn>> /\ Unchanged

\* io.fseek(n), 0 on success.
Fseek ==
  /\ Ln.op = "seek" /\ hmode # ""
  /\ pos' = Ln.arg
  /\ Ack(0) /\ UNCHANGED <<fileLen, hmode, fd, fds, digest, dOn>> /\ Unchanged

\* io.ftell()
Ftell ==
  /\ Ln.op = "tell"
  /\ Ack(pos)
  /\ UNCHANGED <<fileLen, hmode, fd, fds, pos, digest, dOn>> /\ Unchanged

\* Mutant: rewind that leaves the offset where it is.
RewindKeeping ==
  /\ Ln.op = "rewind"
  /\ Ack(TRUE) /\ UNCHANGED <<fileLen, hmode, fd, fds, pos, digest, dOn>> /\ Unchanged

\* io.rewind()
Rewind ==
  /\ Ln.op = "rewind"
  /\ pos' = 0
  /\ Ack(TRUE) /\ UNCHANGED <<fileLen, hmode, fd, fds, digest, dOn>> /\ Unchanged

-----------------------------------------------------------------------------
(* Runs of Io.js against one /tmp                                          *)

\* The process exits at the end (the handle is deleted at 101) and the
\* script is run again.
Rerun ==
  /\ pc = Done /\ runs < MaxRuns
  /\ pc' = 1 /\ runs' = runs + 1
  /\ UNCHANGED <<fileLen, hmode, fd, fds, pos, digest, dOn, ackFailed, crashes>>

\* The process dies between two lines: its handle and descriptors go,
\* /tmp/io.file stays as it is; the script is run again.
Crash ==
  /\ pc # Done /\ runs < MaxRuns /\ crashes < MaxCrashes
  /\ hmode' = "" /\ fd' = NoFd /\ fds' = {} /\ pos' = 0
  /\ digest' = NoDigest /\ dOn' = FALSE
  /\ pc' = 1 /\ runs' = runs + 1 /\ crashes' = crashes + 1
  /\ UNCHANGED <<fileLen, ackFailed>>

Finished == pc = Done /\ runs = MaxRuns /\ UNCHANGED vars

Step ==
  \/ Close \/ Open \/ ReadFlags \/ DigestInit \/ NDigests \/ DigestFini
  \/ Fwrite \/ Fread \/ Attr \/ Fileno \/ Fseek \/ Ftell \/ Rewind

Next == (pc < Done /\ Step) \/ Rerun \/ Crash \/ Finished

Spec == Init /\ [][Next]_vars

-----------------------------------------------------------------------------
(* Properties                                                              *)

\* Every ack() of Io.js sees the value the script expects, in every run,
\* whatever a run that died before left in /tmp/io.file: the reads at 57
\* and 87 return exactly yadda, the digests at 36 and 62 cover exactly
\* the bytes written and read, and every handle gets descriptor 3 (35, 61,
\* 91), which needs io() to have released the one before.
ScriptAcks == ackFailed = {}

=============================================================================
