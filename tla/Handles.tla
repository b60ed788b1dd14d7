------------------------------- MODULE Handles -------------------------------
(***************************************************************************)
(* The life cycle of every handle the Db.js script creates: the            *)
(* environment, the stores H, Q, B, R (setup), W, X (WORDS), G, GF, GN     *)
(* (GROUPS), the transaction and cursor of the transaction section, and    *)
(* the unopened store D used for upgrade and verify.                       *)
(*                                                                         *)
(* Script is the enabled part of Db.js as a sequence of handle events,    *)
(* each with the lines it stands for.  Any open may fail (spec 4.3, 7);   *)
(* the script never looks: new BDB(...) returns db.open's result from a   *)
(* constructor, which `new` discards (Db.js:342), and ack() only prints.  *)
(* A call on a handle that is not open is recorded with its line and the  *)
(* script carries on.                                                      *)
(***************************************************************************)
EXTENDS Naturals, Sequences, FiniteSets

CONSTANTS
  MaxFailures     \* opens that may fail in one run of the script

Stores == {"H", "Q", "B", "R", "W", "X", "G", "GF", "GN", "D"}
Handle == Stores \cup {"Env", "Txn", "Dbc"}

\* A handle is "none" before it is created, "new" when created and not
\* opened, "failed" when its open failed, "gone" once verify consumed it.
Status == {"none", "new", "open", "failed", "closed", "gone"}

E(op, hs, t, a, b) == [op |-> op, hs |-> hs, t |-> t, a |-> a, b |-> b]

Script == <<
  E("new", {}, "Env", 409, 412),
  E("open", {}, "Env", 414, 414),
  E("use", {"Env"}, "Env", 415, 416),
  E("open", {"Env"}, "H", 434, 434), E("use", {"H"}, "H", 437, 444), E("close", {}, "H", 445, 445),
  E("open", {"Env"}, "Q", 450, 450), E("use", {"Q"}, "Q", 453, 459), E("close", {}, "Q", 460, 460),
  E("open", {"Env"}, "B", 465, 465), E("use", {"B"}, "B", 468, 474), E("close", {}, "B", 475, 475),
  E("open", {"Env"}, "R", 483, 483), E("use", {"R"}, "R", 486, 495), E("close", {}, "R", 496, 496),
  E("open", {"Env"}, "W", 500, 500), E("open", {"Env"}, "X", 501, 501),
  E("use", {"X"}, "X", 522, 523), E("use", {"W"}, "W", 524, 525),
  E("use", {"W", "X"}, "W", 527, 528), E("use", {"X"}, "X", 532, 538),
  E("close", {}, "X", 540, 540), E("close", {}, "W", 541, 541),
  E("open", {"Env"}, "G", 625, 625), E("open", {"Env"}, "GF", 626, 626), E("open", {"Env"}, "GN", 627, 627),
  E("use", {"G", "GN"}, "G", 634, 636), E("use", {"G", "GN", "GF"}, "G", 644, 645),
  E("use", {"G", "GN"}, "G", 648, 656),
  E("close", {}, "GN", 658, 658), E("close", {}, "GF", 659, 659), E("close", {}, "G", 660, 660),
  \* var db = H.db (Db.js:906): the handle closed at 445
  E("use", {"H"}, "H", 910, 931),
  E("begin", {"Env"}, "Txn", 933, 935), E("use", {"H", "Txn"}, "H", 936, 939),
  E("end", {}, "Txn", 940, 940),
  E("begin", {"Env"}, "Txn", 942, 944), E("cursor", {"H", "Txn"}, "Dbc", 945, 947),
  E("use", {"Dbc"}, "Dbc", 948, 949), E("close", {}, "Dbc", 950, 950), E("end", {}, "Txn", 951, 951),
  E("begin", {"Env"}, "Txn", 953, 955), E("cursor", {"H", "Txn"}, "Dbc", 956, 958),
  E("use", {"Dbc"}, "Dbc", 959, 961), E("close", {}, "Dbc", 962, 962), E("end", {}, "Txn", 963, 963),
  E("begin", {"Env"}, "Txn", 965, 967), E("use", {"Txn"}, "Txn", 968, 973), E("end", {}, "Txn", 974, 974),
  E("begin", {"Env"}, "Txn", 976, 978), E("use", {"Txn"}, "Txn", 979, 984),
  E("use", {"H", "Txn"}, "H", 985, 988), E("end", {}, "Txn", 989, 989),
  E("use", {"H"}, "H", 991, 997), E("close", {}, "H", 999, 999),
  E("new", {"Env"}, "D", 1002, 1004), E("verify", {}, "D", 1005, 1007),
  E("close", {}, "Env", 1016, 1016)
>>

Done == Len(Script) + 1

VARIABLES
  status,          \* status[h] \in Status
  pc,              \* index into Script of the next event
  failures,        \* opens that failed so far
  calledClosed,    \* lines that called a handle after its close
  calledUnopened   \* lines that called a handle that was never opened

vars == <<status, pc, failures, calledClosed, calledUnopened>>

Init ==
  /\ status = [h \in Handle |-> "none"]
  /\ pc = 1 /\ failures = 0
  /\ calledClosed = {} /\ calledUnopened = {}


-----------------------------------------------------------------------------

Ev == Script[pc]

NotOpen == {"none", "new", "failed", "gone"}

\* The event calls the handles hs: a call on a closed handle, or on one
\* that never opened, is recorded at the event's first line.
Call(hs) ==
  /\ calledClosed' = IF \E h \in hs : status[h] = "closed"
                       THEN calledClosed \cup {Ev.a} ELSE calledClosed
  /\ calledUnopened' = IF \E h \in hs : status[h] \in NotOpen
                         THEN calledUnopened \cup {Ev.a} ELSE calledUnopened

Set(h, st) == status' = [status EXCEPT ![h] = st]

\* new rpmdbe.Dbe() and its lg_dir (409-412); new rpmdb.Db(dbenv, 0) (1002).
New ==
  /\ Ev.op = "new"
  /\ Set(Ev.t, "new") /\ Call(Ev.hs)
  /\ pc' = pc + 1 /\ UNCHANGED failures

\* Mutant: a store open that succeeds without an open environment.
OpenIgnoringEnv ==
  /\ Ev.op = "open"
  /\ \/ /\ Set(Ev.t, "open") /\ UNCHANGED failures
     \/ /\ failures < MaxFailures
        /\ Set(Ev.t, "failed") /\ failures' = failures + 1
  /\ Call(Ev.hs) /\ pc' = pc + 1

\* dbenv.open(home, eflags, emode) (414), and BDB(): db.open(...) (239-343).
\* A store handle cannot open in an environment that is not open; any open
\* may fail, and nothing in the script notices.
Open ==
  /\ Ev.op = "open"
  /\ \/ /\ Ev.t = "Env" \/ status["Env"] = "open"
        /\ Set(Ev.t, "open") /\ UNCHANGED failures
     \/ /\ Ev.t # "Env" /\ status["Env"] # "open"
        /\ Set(Ev.t, "failed") /\ UNCHANGED failures
     \/ /\ failures < MaxFailures
        /\ Set(Ev.t, "failed") /\ failures' = failures + 1
  /\ Call(Ev.hs) /\ pc' = pc + 1

\* Attribute reads and engine calls on the handles the event names.
Use ==
  /\ Ev.op = "use"
  /\ Call(Ev.hs)
  /\ pc' = pc + 1 /\ UNCHANGED <<status, failures>>

\* close(0) of a store, dbc.close(), dbenv.close(0).  Closing a handle
\* that never opened is how it is discarded; closing it twice is a call on
\* a closed handle.
Close ==
  /\ Ev.op = "close"
  /\ Set(Ev.t, "closed")
  /\ calledClosed' = IF status[Ev.t] = "closed" THEN calledClosed \cup {Ev.a}
                                                ELSE calledClosed
  /\ pc' = pc + 1 /\ UNCHANGED <<failures, calledUnopened>>

\* dbenv.txn_begin(null, 0)
Begin ==
  /\ Ev.op = "begin"
  /\ Set("Txn", IF status["Env"] = "open" THEN "open" ELSE "failed")
  /\ Call(Ev.hs)
  /\ pc' = pc + 1 /\ UNCHANGED failures

\* txn.commit() or txn.abort()
End ==
  /\ Ev.op = "end"
  /\ Set("Txn", "closed") /\ Call({"Txn"})
  /\ pc' = pc + 1 /\ UNCHANGED failures

\* db.cursor(txn)
Cursor ==
  /\ Ev.op = "cursor"
  /\ Set("Dbc", IF status["H"] = "open" /\ status["Txn"] = "open" THEN "open" ELSE "failed")
  /\ Call(Ev.hs)
  /\ pc' = pc + 1 /\ UNCHANGED failures

\* db.upgrade(dbfile) and db.verify(dbfile, dbname, 0) on the unopened D:
\* verify consumes the handle, which is then only deleted (1005-1007).
Verify ==
  /\ Ev.op = "verify"
  /\ Set("D", "gone") /\ Call({})
  /\ pc' = pc + 1 /\ UNCHANGED failures

Finished == pc = Done /\ UNCHANGED vars

Next ==
  \/ pc < Done /\ (New \/ Open \/ Use \/ Close \/ Begin \/ End \/ Cursor \/ Verify)
  \/ Finished

Spec == Init /\ [][Next]_vars

-----------------------------------------------------------------------------
(* Properties                                                              *)

\* No store, transaction or cursor handle is open while the environment is
\* not: not before dbenv.open, not after a failed one, and not after
\* dbenv.close (1016), whichever opens failed on the way.
NoHandleWithoutEnv ==
  status["Env"] # "open" => \A h \in Handle \ {"Env"} : status[h] # "open"

\* No line of the script calls a handle after that handle was closed, or a
\* handle whose open failed or never ran.
NoCallOnDeadHandle == calledClosed \cup calledUnopened = {}

=============================================================================
