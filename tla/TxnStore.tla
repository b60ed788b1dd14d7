------------------------------ MODULE TxnStore ------------------------------
(***************************************************************************)
(* The transaction section of src/js/tscripts/Db.js (lines 933-989) run by *)
(* one or more script instances against one environment home, over the    *)
(* transactional store the bindings presuppose (spec.md 4.3, 4.4, 4.6, 5). *)
(*                                                                         *)
(* Each client walks the script's five transactions in order.  Engine     *)
(* semantics follow the spec: writes are buffered per transaction and     *)
(* applied by commit; write locks are held to commit or abort; isolation  *)
(* is read-committed, so a point read needs only the absence of another   *)
(* transaction's write lock, while a positioned cursor keeps a read lock  *)
(* on its record until it is closed.  A lock request that conflicts       *)
(* blocks; a waits-for cycle is broken by failing one member's current    *)
(* operation with DeadlockOrBusy and releasing its locks.  The script      *)
(* never looks at a result beyond printing it (ack), so a client carries  *)
(* on to its next line whatever the previous one returned.                *)
(***************************************************************************)
EXTENDS Naturals, Sequences, FiniteSets

CONSTANTS
    Clients,        \* script instances sharing the home "./rpmdb"
    Foo,            \* the key "foo" every transaction of the script uses
    Bar,            \* the value "bar"
    NoValue,        \* key absent
    NoWrite,        \* no buffered write for the key in this transaction
    NoClient,       \* nobody holds the write lock
    NotFound,       \* DB_NOTFOUND, surfaced by the binding as undefined
    DeadlockOrBusy, \* DB_LOCK_DEADLOCK
    NotPositioned,  \* a cursor operation on an unpositioned cursor (EINVAL)
    MaxCrashes      \* how many times a script instance may die and rerun

LOCAL R == INSTANCE Relation

Keys == {Foo}

(***************************************************************************)
(* The script, one record per line that calls the engine, with the value  *)
(* its ack() expects.                                                     *)
(***************************************************************************)
Script == <<
    [op |-> "begin",  line |-> 933, exp |-> TRUE],
    [op |-> "put",    line |-> 936, exp |-> TRUE],
    [op |-> "exists", line |-> 937, exp |-> TRUE],
    [op |-> "get",    line |-> 938, exp |-> Bar],
    [op |-> "del",    line |-> 939, exp |-> TRUE],
    [op |-> "commit", line |-> 940, exp |-> TRUE],
    [op |-> "begin",  line |-> 942, exp |-> TRUE],
    [op |-> "cursor", line |-> 945, exp |-> TRUE],
    [op |-> "cset",   line |-> 948, exp |-> NotFound],
    [op |-> "cput",   line |-> 949, exp |-> TRUE],
    [op |-> "cclose", line |-> 950, exp |-> TRUE],
    [op |-> "commit", line |-> 951, exp |-> TRUE],
    [op |-> "begin",  line |-> 953, exp |-> TRUE],
    [op |-> "cursor", line |-> 956, exp |-> TRUE],
    [op |-> "cset",   line |-> 959, exp |-> Bar],
    [op |-> "ccount", line |-> 960, exp |-> 1],
    [op |-> "cdel",   line |-> 961, exp |-> TRUE],
    [op |-> "cclose", line |-> 962, exp |-> TRUE],
    [op |-> "commit", line |-> 963, exp |-> TRUE],
    [op |-> "begin",  line |-> 965, exp |-> TRUE],
    [op |-> "abort",  line |-> 974, exp |-> TRUE],
    [op |-> "begin",  line |-> 976, exp |-> TRUE],
    [op |-> "put",    line |-> 985, exp |-> TRUE],
    [op |-> "exists", line |-> 986, exp |-> TRUE],
    [op |-> "get",    line |-> 987, exp |-> Bar],
    [op |-> "del",    line |-> 988, exp |-> TRUE],
    [op |-> "commit", line |-> 989, exp |-> TRUE] >>

Done == Len(Script) + 1

VARIABLES
    data,       \* committed records of the store H.db
    wbuf,       \* wbuf[c][k]: the write c's open transaction has buffered
    txn,        \* "none", "active", or "doomed" (failed with DeadlockOrBusy)
    cursor,     \* "closed", "unpos", or the key the cursor is positioned on
    xlock,      \* xlock[k]: the client holding the write lock on k
    slock,      \* slock[k]: clients whose cursor holds a read lock on k
    pc,         \* index into Script of the line each client runs next
    ackFailed,  \* <<client, line, disturbed>>: an ack that saw an unexpected
                \* value, and whether the run was disturbed when it did
    crashes,
    disturbed   \* history: another instance committed a change while this
                \* instance was mid-run, or it was a deadlock victim

vars == <<data, wbuf, txn, cursor, xlock, slock, pc, ackFailed, crashes,
          disturbed>>

Value == {Bar, NoValue}

TypeOK ==
    /\ data \in [Keys -> Value]
    /\ wbuf \in [Clients -> [Keys -> Value \cup {NoWrite}]]
    /\ txn \in [Clients -> {"none", "active", "doomed"}]
    /\ cursor \in [Clients -> {"closed", "unpos"} \cup Keys]
    /\ xlock \in [Keys -> Clients \cup {NoClient}]
    /\ slock \in [Keys -> SUBSET Clients]
    /\ pc \in [Clients -> 1..Done]
    /\ ackFailed \subseteq Clients \X Nat \X BOOLEAN
    /\ crashes \in 0..MaxCrashes
    /\ disturbed \in [Clients -> BOOLEAN]

Init ==
    /\ data = [k \in Keys |-> NoValue]
    /\ wbuf = [c \in Clients |-> [k \in Keys |-> NoWrite]]
    /\ txn = [c \in Clients |-> "none"]
    /\ cursor = [c \in Clients |-> "closed"]
    /\ xlock = [k \in Keys |-> NoClient]
    /\ slock = [k \in Keys |-> {}]
    /\ pc = [c \in Clients |-> 1]
    /\ ackFailed = {}
    /\ crashes = 0
    /\ disturbed = [c \in Clients |-> FALSE]

-----------------------------------------------------------------------------
(* Engine helpers (spec.md 4.6 and 5).                                     *)

\* Mutant: a read that ignores the transaction's own buffered writes.
ViewCommitted(c, k) == data[k]

\* What c's transaction reads for k: its own buffered write, else committed.
View(c, k) == IF wbuf[c][k] # NoWrite THEN wbuf[c][k] ELSE data[k]

\* Mutant: a write lock granted over another transaction's write lock.
GrantXIgnoringWriter(c, k) == slock[k] \subseteq {c}

\* A write lock needs no other writer and no other cursor reader.
GrantX(c, k) == xlock[k] \in {c, NoClient} /\ slock[k] \subseteq {c}

\* A read needs no other transaction's write lock.
GrantS(c, k) == xlock[k] \in {c, NoClient}

\* Release every lock c holds.
ReleaseX(c) == [k \in Keys |-> IF xlock[k] = c THEN NoClient ELSE xlock[k]]
ReleaseS(c) == [k \in Keys |-> slock[k] \ {c}]

Op(c) == Script[pc[c]].op

\* The script's ack(): record the line when the result is not the expected one,
\* then go on with the next line.
Ack(c, res) ==
    /\ ackFailed' = IF res = Script[pc[c]].exp THEN ackFailed
                    ELSE ackFailed \cup {<<c, Script[pc[c]].line,
                                            disturbed[c] \/ res = DeadlockOrBusy>>}
    /\ pc' = [pc EXCEPT ![c] = pc[c] + 1]

-----------------------------------------------------------------------------
(* One action per kind of script line.                                     *)

\* dbenv.txn_begin(null, 0)
Begin(c) ==
    /\ pc[c] < Done /\ Op(c) = "begin"
    /\ txn' = [txn EXCEPT ![c] = "active"]
    /\ wbuf' = [wbuf EXCEPT ![c] = [k \in Keys |-> NoWrite]]
    /\ Ack(c, TRUE)
    /\ UNCHANGED <<data, cursor, xlock, slock, crashes, disturbed>>

\* db.put(txn, "foo", "bar"): blocks until the write lock is granted.
Put(c) ==
    /\ pc[c] < Done /\ Op(c) = "put"
    /\ GrantX(c, Foo)
    /\ xlock' = [xlock EXCEPT ![Foo] = c]
    /\ wbuf' = [wbuf EXCEPT ![c][Foo] = Bar]
    /\ Ack(c, TRUE)
    /\ UNCHANGED <<data, txn, cursor, slock, crashes, disturbed>>

\* db.exists(txn, "foo") and db.get(txn, "foo"): a momentary read lock.
Read(c) ==
    /\ pc[c] < Done /\ Op(c) \in {"exists", "get"}
    /\ GrantS(c, Foo)
    /\ Ack(c, IF Op(c) = "exists" THEN View(c, Foo) # NoValue
              ELSE IF View(c, Foo) = NoValue THEN NotFound ELSE View(c, Foo))
    /\ UNCHANGED <<data, wbuf, txn, cursor, xlock, slock, crashes, disturbed>>

\* db.del(txn, "foo"): a write lock; DB_NOTFOUND when the key is absent.
Del(c) ==
    /\ pc[c] < Done /\ Op(c) = "del"
    /\ GrantX(c, Foo)
    /\ xlock' = [xlock EXCEPT ![Foo] = c]
    /\ IF View(c, Foo) = NoValue
         THEN /\ Ack(c, NotFound) /\ UNCHANGED wbuf
         ELSE /\ wbuf' = [wbuf EXCEPT ![c][Foo] = NoValue]
              /\ Ack(c, TRUE)
    /\ UNCHANGED <<data, txn, cursor, slock, crashes, disturbed>>

\* db.cursor(txn)
OpenCursor(c) ==
    /\ pc[c] < Done /\ Op(c) = "cursor"
    /\ cursor' = [cursor EXCEPT ![c] = "unpos"]
    /\ Ack(c, TRUE)
    /\ UNCHANGED <<data, wbuf, txn, xlock, slock, crashes, disturbed>>

\* Mutant: DB_SET that positions the cursor without keeping a read lock.
CursorSetUnlocked(c) ==
    /\ pc[c] < Done /\ Op(c) = "cset"
    /\ GrantS(c, Foo)
    /\ IF View(c, Foo) = NoValue
         THEN /\ cursor' = [cursor EXCEPT ![c] = "unpos"]
              /\ Ack(c, NotFound)
         ELSE /\ cursor' = [cursor EXCEPT ![c] = Foo]
              /\ Ack(c, View(c, Foo))
    /\ UNCHANGED <<data, wbuf, txn, xlock, slock, crashes, disturbed>>

\* Mutant: DB_SET that leaves the cursor on the data item it matched
\* instead of its key (key and data swapped in the binding).
CursorSetOnData(c) ==
    /\ pc[c] < Done /\ Op(c) = "cset"
    /\ GrantS(c, Foo)
    /\ IF View(c, Foo) = NoValue
         THEN /\ cursor' = [cursor EXCEPT ![c] = "unpos"]
              /\ slock' = ReleaseS(c)
              /\ Ack(c, NotFound)
         ELSE /\ cursor' = [cursor EXCEPT ![c] = View(c, Foo)]
              /\ slock' = [slock EXCEPT ![Foo] = @ \cup {c}]
              /\ Ack(c, View(c, Foo))
    /\ UNCHANGED <<data, wbuf, txn, xlock, crashes, disturbed>>

\* dbc.get("foo", "bar", DB_SET): on a match the cursor is positioned and
\* keeps a read lock on the record; on a miss it is left unpositioned.
CursorSet(c) ==
    /\ pc[c] < Done /\ Op(c) = "cset"
    /\ GrantS(c, Foo)
    /\ IF View(c, Foo) = NoValue
         THEN /\ cursor' = [cursor EXCEPT ![c] = "unpos"]
              /\ slock' = ReleaseS(c)
              /\ Ack(c, NotFound)
         ELSE /\ cursor' = [cursor EXCEPT ![c] = Foo]
              /\ slock' = [slock EXCEPT ![Foo] = @ \cup {c}]
              /\ Ack(c, View(c, Foo))
    /\ UNCHANGED <<data, wbuf, txn, xlock, crashes, disturbed>>

\* dbc.put("foo", "bar", DB_KEYLAST): writes and positions the cursor.
CursorPut(c) ==
    /\ pc[c] < Done /\ Op(c) = "cput"
    /\ GrantX(c, Foo)
    /\ xlock' = [xlock EXCEPT ![Foo] = c]
    /\ wbuf' = [wbuf EXCEPT ![c][Foo] = Bar]
    /\ cursor' = [cursor EXCEPT ![c] = Foo]
    /\ Ack(c, TRUE)
    /\ UNCHANGED <<data, txn, slock, crashes, disturbed>>

\* dbc.count(): duplicates under the cursor (no duplicates in H.db).
CursorCount(c) ==
    /\ pc[c] < Done /\ Op(c) = "ccount"
    /\ Ack(c, IF cursor[c] \in Keys
              THEN IF View(c, cursor[c]) = NoValue THEN 0 ELSE 1
              ELSE NotPositioned)
    /\ UNCHANGED <<data, wbuf, txn, cursor, xlock, slock, crashes, disturbed>>

\* dbc.del(): deletes the record under the cursor, upgrading to a write lock.
CursorDel(c) ==
    /\ pc[c] < Done /\ Op(c) = "cdel"
    /\ \/ /\ cursor[c] \notin Keys
          /\ Ack(c, NotPositioned)
          /\ UNCHANGED <<wbuf, xlock>>
       \/ /\ cursor[c] \in Keys
          /\ GrantX(c, cursor[c])
          /\ xlock' = [xlock EXCEPT ![cursor[c]] = c]
          /\ IF View(c, cursor[c]) = NoValue
               THEN /\ Ack(c, NotFound) /\ UNCHANGED wbuf
               ELSE /\ wbuf' = [wbuf EXCEPT ![c][cursor[c]] = NoValue]
                    /\ Ack(c, TRUE)
    /\ UNCHANGED <<data, txn, cursor, slock, crashes, disturbed>>

\* dbc.close(): releases the cursor's read lock.
CursorClose(c) ==
    /\ pc[c] < Done /\ Op(c) = "cclose"
    /\ cursor' = [cursor EXCEPT ![c] = "closed"]
    /\ slock' = ReleaseS(c)
    /\ Ack(c, TRUE)
    /\ UNCHANGED <<data, wbuf, txn, xlock, crashes, disturbed>>

\* Apply a transaction's buffered writes to the committed records.
Apply(c) == [k \in Keys |-> View(c, k)]

\* txn.commit(): apply the buffered writes, release every lock.
Commit(c) ==
    /\ pc[c] < Done /\ Op(c) = "commit"
    /\ data' = Apply(c)
    /\ wbuf' = [wbuf EXCEPT ![c] = [k \in Keys |-> NoWrite]]
    /\ txn' = [txn EXCEPT ![c] = "none"]
    /\ xlock' = ReleaseX(c)
    /\ slock' = ReleaseS(c)
    /\ Ack(c, TRUE)
    /\ disturbed' = [x \in Clients |->
                      \/ disturbed[x]
                      \/ x # c /\ 1 < pc[x] /\ pc[x] < Done /\ Apply(c) # data]
    /\ UNCHANGED <<cursor, crashes>>

\* txn.abort(): discard the buffered writes, release every lock.
Abort(c) ==
    /\ pc[c] < Done /\ Op(c) = "abort"
    /\ wbuf' = [wbuf EXCEPT ![c] = [k \in Keys |-> NoWrite]]
    /\ txn' = [txn EXCEPT ![c] = "none"]
    /\ xlock' = ReleaseX(c)
    /\ slock' = ReleaseS(c)
    /\ Ack(c, TRUE)
    /\ UNCHANGED <<data, cursor, crashes, disturbed>>

-----------------------------------------------------------------------------
(* Lock waits and deadlock resolution (spec.md 4.6).                       *)

\* The lock mode c's current line needs on Foo, and whether it is blocked.
NeedsX(c) == pc[c] < Done /\ Op(c) \in {"put", "del", "cput", "cdel"}
                          /\ (Op(c) = "cdel" => cursor[c] \in Keys)
NeedsS(c) == pc[c] < Done /\ Op(c) \in {"exists", "get", "cset"}
Blocked(c) == \/ NeedsX(c) /\ ~GrantX(c, Foo)
              \/ NeedsS(c) /\ ~GrantS(c, Foo)

\* Mutant: a waits-for graph without the edges to cursor readers.
WaitsForWritersOnly == [p \in Clients \X Clients |->
                LET c == p[1] d == p[2] IN
                c # d /\ Blocked(c) /\ xlock[Foo] = d]

\* c waits for d when c is blocked and d holds a lock c's request conflicts with.
WaitsFor == [p \in Clients \X Clients |->
                LET c == p[1] d == p[2] IN
                /\ c # d /\ Blocked(c)
                /\ \/ xlock[Foo] = d
                   \/ NeedsX(c) /\ d \in slock[Foo]]

\* A client on a waits-for cycle fails its current line with DeadlockOrBusy;
\* all its locks are released and its transaction must not commit.
DetectDeadlock ==
    LET closure == R!TransitiveClosure(WaitsFor, Clients) IN
    \E v \in Clients :
        /\ closure[v, v]
        /\ txn' = [txn EXCEPT ![v] = "doomed"]
        /\ xlock' = ReleaseX(v)
        /\ slock' = ReleaseS(v)
        /\ Ack(v, DeadlockOrBusy)
        /\ disturbed' = [disturbed EXCEPT ![v] = TRUE]
        /\ UNCHANGED <<data, wbuf, cursor, crashes>>

\* The script instance dies; recovery aborts its transaction, the committed
\* records survive, and the script is run again from the top.
Crash(c) ==
    /\ crashes < MaxCrashes
    /\ pc[c] \in 2..Len(Script)
    /\ crashes' = crashes + 1
    /\ wbuf' = [wbuf EXCEPT ![c] = [k \in Keys |-> NoWrite]]
    /\ txn' = [txn EXCEPT ![c] = "none"]
    /\ cursor' = [cursor EXCEPT ![c] = "closed"]
    /\ xlock' = ReleaseX(c)
    /\ slock' = ReleaseS(c)
    /\ pc' = [pc EXCEPT ![c] = 1]
    /\ disturbed' = [disturbed EXCEPT ![c] = FALSE]
    /\ UNCHANGED <<data, ackFailed>>

\* Every instance has run to the end of the script.
Finished == \A c \in Clients : pc[c] = Done /\ UNCHANGED vars

Step(c) ==
    \/ Begin(c) \/ Put(c) \/ Read(c) \/ Del(c)
    \/ OpenCursor(c) \/ CursorSet(c) \/ CursorPut(c) \/ CursorCount(c)
    \/ CursorDel(c) \/ CursorClose(c) \/ Commit(c) \/ Abort(c)

Next ==
    \/ \E c \in Clients : Step(c) \/ Crash(c)
    \/ DetectDeadlock
    \/ Finished

\* Each instance runs whenever it is not blocked; the lock manager runs the
\* detector whenever a cycle exists.
Fairness ==
    /\ \A c \in Clients : WF_vars(Step(c))
    /\ WF_vars(DetectDeadlock)

Spec == Init /\ [][Next]_vars /\ Fairness

-----------------------------------------------------------------------------
(* Properties.                                                             *)

\* The store as its clients see it is AtomicStore: a transaction's puts
\* and deletes stay private until its commit applies them all in one step
\* (Db.js:940, 951, 963, 989), an abort (974), a deadlock failure or a
\* crash discards them, and no two open transactions ever both have a
\* pending write to "foo", so one commit never silently overwrites the
\* other's (no lost update between two instances' 936-940 and 985-989).
KV == INSTANCE AtomicStore WITH Values <- Value, pending <- wbuf

AtomicCommit == KV!Spec

\* Cursor stability under read-committed: while a live transaction's cursor
\* is positioned on a record (after DB_SET at Db.js:959), no other
\* transaction has a pending change to that record, so dbc.count() and
\* dbc.del() act on the record the cursor found.
CursorStability ==
    \A c, d \in Clients : \A k \in Keys :
        c # d /\ cursor[c] = k /\ txn[c] = "active" => wbuf[d][k] = NoWrite

\* Every script instance reaches its last line: lock waits end, and a
\* waits-for cycle between two instances (both cursors on "foo" at
\* Db.js:959, both upgrading at Db.js:961) is broken by the detector.
AllFinish == <>(\A c \in Clients : pc[c] = Done)

\* Every ack() of the transaction section sees the value the script expects.
ScriptAcks == ackFailed = {}

\* The transaction section is self-contained per run: an instance's acks
\* (Db.js:933-989) fail only in a run in which another instance committed
\* a change to "foo" while it was mid-script, or in which it was chosen as
\* a deadlock victim.  A crash between two commits (say after 951, leaving
\* "foo" = "bar") and a rerun from the top never break them on their own,
\* nor does an instance that merely waits on another's locks.
SoloAcks == \A f \in ackFailed : f[3]

=============================================================================
