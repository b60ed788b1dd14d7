--------------------------------- MODULE Sys ---------------------------------
(***************************************************************************)
(* Sys.js: the file-system calls of the script on fixed paths under /tmp. *)
(*                                                                         *)
(* /tmp outlives the process: a run that dies between two lines leaves its *)
(* files, and the next run starts over them.  Each line that calls the     *)
(* system is one step; its result is compared with what ack() (or nack())  *)
(* expects and a mismatch is recorded while the script carries on.        *)
(*                                                                         *)
(* The directory maps each path to an entry: nothing, a directory, a       *)
(* regular file naming its inode, or a symbolic link naming its target     *)
(* path.  An inode holds the permission bits; ownership is left out, the   *)
(* script only chowns to the owner it already has (Sys.js:73-76).          *)
(***************************************************************************)
EXTENDS Integers, Sequences, FiniteSets, Bitwise

CONSTANTS
  MaxRuns,      \* runs of the script over one /tmp
  MaxCrashes    \* of which at most this many end in a crash

\* Sys.js:18-22
Paths == {"dn", "fn", "lfn", "rfn", "sfn"}

\* Sys.js:39 expects umask 0022; Sys.js:49, 55 use 0644 and 0640.
Umask == 18
S_IFREG == 32768    \* 0100000
S_IFLNK == 40960    \* 0120000
Perm644 == 420
Perm640 == 416
Perm777 == 511

NoEntry == [kind |-> "none"]
DirEntry == [kind |-> "dir"]
FileEntry(i) == [kind |-> "file", ino |-> i]
LinkEntry(p) == [kind |-> "symlink", to |-> p]

\* One record per line of Sys.js that calls the system.  neg marks nack():
\* the line fails when the result equals exp.
L(op, line, p, q, exp, neg) ==
  [op |-> op, line |-> line, p |-> p, q |-> q, exp |-> exp, neg |-> neg]

Script == <<
  L("access", 42, "dn", "", 0, TRUE),
  L("mkdir", 43, "dn", "", 0, FALSE),
  L("access", 44, "dn", "", 0, FALSE),
  L("rmdir", 45, "dn", "", 0, FALSE),
  L("creat", 49, "fn", "", 0, FALSE),
  L("stat", 50, "fn", "", S_IFREG + Perm644, FALSE),
  L("chmod", 55, "fn", "", 0, FALSE),
  L("lstat", 57, "fn", "", S_IFREG + Perm640, FALSE),
  L("link", 81, "fn", "lfn", 0, FALSE),
  L("symlink", 82, "lfn", "sfn", 0, FALSE),
  L("stat", 83, "sfn", "", S_IFREG + Perm640, FALSE),
  L("lstat", 85, "sfn", "", S_IFLNK + Perm777, FALSE),
  L("readlink", 87, "sfn", "", "lfn", FALSE),
  L("rename", 88, "lfn", "rfn", 0, FALSE),
  L("unlink", 90, "fn", "", 0, FALSE),
  L("unlink", 91, "lfn", "", 0, TRUE),
  L("unlink", 92, "rfn", "", 0, FALSE),
  L("unlink", 93, "sfn", "", 0, FALSE)
>>

Done == Len(Script) + 1

VARIABLES
  dir,        \* dir[p]: the entry at path p
  perm,       \* perm[i]: permission bits of inode i
  pc,         \* index into Script of the next line
  ackFailed,  \* lines whose ack()/nack() saw an unexpected result
  runs, crashes

vars == <<dir, perm, pc, ackFailed, runs, crashes>>

Entries == {NoEntry, DirEntry} \cup {FileEntry(i) : i \in DOMAIN perm} \cup {LinkEntry(p) : p \in Paths}

TypeOK ==
  /\ DOMAIN perm \subseteq 1..MaxRuns
  /\ \A i \in DOMAIN perm : perm[i] \in 0..511
  /\ dir \in [Paths -> Entries]
  /\ pc \in 1..Done
  /\ runs \in 1..MaxRuns /\ crashes \in 0..MaxCrashes

Init ==
  /\ dir = [p \in Paths |-> NoEntry]
  /\ perm = <<>>
  /\ pc = 1 /\ ackFailed = {} /\ runs = 1 /\ crashes = 0


-----------------------------------------------------------------------------

Ln == Script[pc]

\* ack(expr, exp) fails when the result differs, nack(expr, exp) when it
\* equals exp; either way the script goes on with the next line.
Ack(res) ==
  ackFailed' = IF (Ln.neg /\ res = Ln.exp) \/ (~Ln.neg /\ res # Ln.exp)
                 THEN ackFailed \cup {Ln.line} ELSE ackFailed

\* The step shared by every line: check the result, go to the next line.
Step(res) == Ack(res) /\ pc' = pc + 1 /\ UNCHANGED <<runs, crashes>>

\* st.mode of stat (following a symbolic link) and lstat; a call on a
\* missing path returns no St object, so every ack about it fails.
Mode(e) ==
  CASE e.kind = "file"    -> S_IFREG + perm[e.ino]
    [] e.kind = "symlink" -> S_IFLNK + Perm777
    [] OTHER              -> -1

Follow(e) == IF e.kind = "symlink" THEN dir[e.to] ELSE e

\* sys.access(p, F_OK)
Access ==
  /\ Ln.op = "access"
  /\ Step(IF dir[Ln.p] # NoEntry THEN 0 ELSE -1)
  /\ UNCHANGED <<dir, perm>>

\* sys.mkdir(p): EEXIST if anything is there.
Mkdir ==
  /\ Ln.op = "mkdir"
  /\ IF dir[Ln.p] = NoEntry
       THEN dir' = [dir EXCEPT ![Ln.p] = DirEntry] /\ Step(0)
       ELSE UNCHANGED dir /\ Step(-1)
  /\ UNCHANGED perm

\* sys.rmdir(p)
Rmdir ==
  /\ Ln.op = "rmdir"
  /\ IF dir[Ln.p] = DirEntry
       THEN dir' = [dir EXCEPT ![Ln.p] = NoEntry] /\ Step(0)
       ELSE UNCHANGED dir /\ Step(-1)
  /\ UNCHANGED perm

\* sys.creat(p, 0644): a new inode with 0644 & ~umask, or an existing file
\* truncated with its permissions unchanged.
Creat ==
  /\ Ln.op = "creat"
  /\ \/ /\ dir[Ln.p] = NoEntry
        /\ perm' = Append(perm, Perm644 & (511 - Umask))
        /\ dir' = [dir EXCEPT ![Ln.p] = FileEntry(Len(perm) + 1)]
        /\ Step(0)
     \/ /\ dir[Ln.p].kind = "file"
        /\ UNCHANGED <<dir, perm>>
        /\ Step(0)

\* st = sys.stat(p) / sys.lstat(p) and the acks on st.mode; the uid, gid
\* and chown acks between them (Sys.js:51-53, 73-79) hold for the owner.
Stat ==
  /\ Ln.op \in {"stat", "lstat"}
  /\ Step(Mode(IF Ln.op = "stat" THEN Follow(dir[Ln.p]) ELSE dir[Ln.p]))
  /\ UNCHANGED <<dir, perm>>

\* sys.chmod(p, 0640)
ChmodWithType ==
  /\ Ln.op = "chmod"
  /\ IF dir[Ln.p].kind = "file"
       THEN perm' = [perm EXCEPT ![dir[Ln.p].ino] = S_IFREG + Perm640] /\ Step(0)
       ELSE UNCHANGED perm /\ Step(-1)
  /\ UNCHANGED dir

Chmod ==
  /\ Ln.op = "chmod"
  /\ IF dir[Ln.p].kind = "file"
       THEN perm' = [perm EXCEPT ![dir[Ln.p].ino] = Perm640] /\ Step(0)
       ELSE UNCHANGED perm /\ Step(-1)
  /\ UNCHANGED dir

\* sys.link(p, q): EEXIST if q is there.
Link ==
  /\ Ln.op = "link"
  /\ IF dir[Ln.p].kind = "file" /\ dir[Ln.q] = NoEntry
       THEN dir' = [dir EXCEPT ![Ln.q] = dir[Ln.p]] /\ Step(0)
       ELSE UNCHANGED dir /\ Step(-1)
  /\ UNCHANGED perm

\* sys.symlink(p, q): q names p whether or not p exists.
Symlink ==
  /\ Ln.op = "symlink"
  /\ IF dir[Ln.q] = NoEntry
       THEN dir' = [dir EXCEPT ![Ln.q] = LinkEntry(Ln.p)] /\ Step(0)
       ELSE UNCHANGED dir /\ Step(-1)
  /\ UNCHANGED perm

\* sys.readlink(p): the target path, or nothing (EINVAL, ENOENT).
Readlink ==
  /\ Ln.op = "readlink"
  /\ Step(IF dir[Ln.p].kind = "symlink" THEN dir[Ln.p].to ELSE "")
  /\ UNCHANGED <<dir, perm>>

\* sys.rename(p, q): q, if there, is replaced.  When p and q are hard links
\* to one inode, POSIX rename does nothing and succeeds: both names stay.
Rename ==
  /\ Ln.op = "rename"
  /\ IF dir[Ln.p] = NoEntry
       THEN UNCHANGED dir /\ Step(-1)
       ELSE IF dir[Ln.p].kind = "file" /\ dir[Ln.q] = dir[Ln.p]
              THEN UNCHANGED dir /\ Step(0)
              ELSE dir' = [dir EXCEPT ![Ln.q] = dir[Ln.p], ![Ln.p] = NoEntry] /\ Step(0)
  /\ UNCHANGED perm

\* sys.unlink(p): removes a file or a symbolic link itself.
UnlinkFollowing ==
  /\ Ln.op = "unlink"
  /\ LET t == IF dir[Ln.p].kind = "symlink" THEN dir[Ln.p].to ELSE Ln.p
     IN IF dir[t].kind = "file"
          THEN dir' = [dir EXCEPT ![t] = NoEntry] /\ Step(0)
          ELSE UNCHANGED dir /\ Step(-1)
  /\ UNCHANGED perm

Unlink ==
  /\ Ln.op = "unlink"
  /\ IF dir[Ln.p].kind \in {"file", "symlink"}
       THEN dir' = [dir EXCEPT ![Ln.p] = NoEntry] /\ Step(0)
       ELSE UNCHANGED dir /\ Step(-1)
  /\ UNCHANGED perm

-----------------------------------------------------------------------------
(* Runs over one /tmp                                                      *)

\* The script is started again after it finished.
Rerun ==
  /\ pc = Done /\ runs < MaxRuns
  /\ pc' = 1 /\ runs' = runs + 1
  /\ UNCHANGED <<dir, perm, ackFailed, crashes>>

\* The process dies between two lines; /tmp keeps what it did so far.
Crash ==
  /\ pc < Done /\ runs < MaxRuns /\ crashes < MaxCrashes
  /\ pc' = 1 /\ runs' = runs + 1 /\ crashes' = crashes + 1
  /\ UNCHANGED <<dir, perm, ackFailed>>

Finished == pc = Done /\ runs = MaxRuns /\ UNCHANGED vars

Next ==
  \/ pc < Done /\ \/ Access \/ Mkdir \/ Rmdir \/ Creat \/ Stat \/ Chmod
                  \/ Link \/ Symlink \/ Readlink \/ Rename \/ Unlink
  \/ Rerun \/ Crash \/ Finished

Spec == Init /\ [][Next]_vars

-----------------------------------------------------------------------------
(* Properties                                                              *)

\* Whenever a run of Sys.js reaches its end, none of its paths is left in
\* /tmp, whatever earlier runs that died on the way left behind: the
\* unlinks at Sys.js:90-93 (and rmdir at 45) clean up after any prefix.
LeavesNoTrace == pc = Done => \A p \in Paths : dir[p] = NoEntry

\* Every ack() and nack() of Sys.js sees the result the script expects.
ScriptAcks == ackFailed = {}

=============================================================================
