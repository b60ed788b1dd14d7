-------------------------------- MODULE Assoc --------------------------------
(***************************************************************************)
(* The WORDS and GROUPS sections of Db.js (lines 498-663) over the          *)
(* association engine of spec 4.5.                                         *)
(*                                                                         *)
(* W and G are record-number primaries; X (no duplicates) and GN (unsorted *)
(* duplicates) are their secondaries, GF is the dependent store registered *)
(* on GN by associate_foreign.  Every call runs under auto-commit, so each *)
(* engine call is one atomic step and its records are durable at once.    *)
(* Associations are handle state: they exist only from the associate line  *)
(* of the current run to the close of the stores.  A crash may end a run  *)
(* between any two lines; the script then runs again from the top over the *)
(* records already in the home.                                            *)
(*                                                                         *)
(* A primary is a sequence indexed by record number, Hole marking a        *)
(* deleted number (record numbers are not reused).  A secondary is a bag  *)
(* of <<secondary key, primary record number>> pairs.                      *)
(***************************************************************************)
EXTENDS Naturals, Sequences, FiniteSets, Bags

CONSTANTS
  WordsFile,      \* the records of the "words" source file, a sequence
  GroupsFile,     \* the records of the "groups" source file, a sequence
  Wdj,            \* w = "wdj" (Db.js:521)
  Amuse,          \* glist[0] = "Amusements/Games", a line of GroupsFile
  Illegal,        \* bad = "Illegal" (Db.js:629)
  Hole,           \* a deleted record number
  NotFound, KeyExists, ForeignKeyViolation,
  MaxRuns,        \* runs of the script against one home
  MaxCrashes      \* of which at most this many end in a crash

Prim == {"W", "G"}
Sec == {"X", "GN"}
PrimaryOf == [s \in Sec |-> IF s = "X" THEN "W" ELSE "G"]
\* X is opened without flags, GN with DB_DUP (Db.js:501, 627)
Dup == [s \in Sec |-> s = "GN"]

\* The script lines that call the engine, in order; Done ends a run.
Done == 0

VARIABLES
  prim,       \* prim[p]: the records of primary p
  sec,        \* sec[s]: the bag of entries of secondary s
  assoc,      \* secondaries associated with their primary in this run
  foreign,    \* TRUE once GF is registered as dependent store of GN
  pc,         \* the line the script is about to execute
  gkey,       \* key of the loop at Db.js:634
  ackFailed,  \* lines whose ack() saw an unexpected result
  runs, crashes

vars == <<prim, sec, assoc, foreign, pc, gkey, ackFailed, runs, crashes>>

Values == {Wdj, Amuse, Illegal} \cup
          {WordsFile[i] : i \in 1..Len(WordsFile)} \cup
          {GroupsFile[i] : i \in 1..Len(GroupsFile)}

TypeOK ==
  /\ \A p \in Prim : prim[p] \in Seq(Values \cup {Hole})
  /\ \A s \in Sec : IsABag(sec[s]) /\ BagToSet(sec[s]) \subseteq Values \X Nat
  /\ assoc \subseteq Sec /\ foreign \in BOOLEAN
  /\ gkey \in Nat \ {0}
  /\ runs \in 1..MaxRuns /\ crashes \in 0..MaxCrashes

Init ==
  /\ prim = [p \in Prim |-> IF p = "W" THEN WordsFile ELSE GroupsFile]
  /\ sec = [s \in Sec |-> EmptyBag]
  /\ assoc = {} /\ foreign = FALSE
  /\ pc = 522 /\ gkey = 1
  /\ ackFailed = {} /\ runs = 1 /\ crashes = 0

-----------------------------------------------------------------------------
(* Engine operators (spec 4.3, 4.5)                                         *)

Live(p) == {k \in DOMAIN prim[p] : prim[p][k] # Hole}

\* get/exists on a record-number store: a key that is not a live record
\* number, a word among them, finds nothing.
RecGet(p, k) == IF k \in Live(p) THEN prim[p][k] ELSE NotFound

\* The derived secondary entries of primary p: value -> record number.
Image(p) == SetToBag({<<prim[p][k], k>> : k \in Live(p)})

SecKeys(s) == {e[1] : e \in BagToSet(sec[s])}

\* sec[s] without the entries whose key is in K.
Without(s, K) == [e \in {e \in BagToSet(sec[s]) : e[1] \notin K} |-> sec[s][e]]

\* Mutant: the binding's put passes key and data in swapped order.
PutSecSwapped(s, sk, pk) ==
  IF Dup[s] THEN sec[s] (+) SetToBag({<<pk, sk>>})
            ELSE Without(s, {pk}) (+) SetToBag({<<pk, sk>>})

\* A put of <<sk, pk>> into s with the default mode: an added duplicate if
\* s allows duplicates, otherwise it overwrites the entry under sk.
PutSec(s, sk, pk) ==
  IF Dup[s] THEN sec[s] (+) SetToBag({<<sk, pk>>})
            ELSE Without(s, {sk}) (+) SetToBag({<<sk, pk>>})

\* associate(primary, s, 0): register the derivation and backfill s by
\* replaying every record of the primary through a default-mode put.
Backfill(s) ==
  IF Dup[s] THEN sec[s] (+) Image(PrimaryOf[s])
            ELSE Without(s, {v[1] : v \in BagToSet(Image(PrimaryOf[s]))})
                   (+) Image(PrimaryOf[s])

\* DB_APPEND on primary p with value v: the next record number; every
\* associated secondary gets its entry in the same atomic step, and a
\* secondary without duplicates that already holds v fails the whole put.
Blocked(p, v) == \E s \in assoc : PrimaryOf[s] = p /\ ~Dup[s] /\ v \in SecKeys(s)

AppendOk(p, v) ==
  /\ prim' = [prim EXCEPT ![p] = Append(@, v)]
  /\ sec' = [s \in Sec |-> IF s \in assoc /\ PrimaryOf[s] = p
                           THEN PutSec(s, v, Len(prim[p]) + 1) ELSE sec[s]]

\* The record numbers that secondary s maps key sk to.
Targets(s, sk) == {e[2] : e \in {e \in BagToSet(sec[s]) : e[1] = sk}}

\* A store that depends on s through associate_foreign references sk.
Referenced(s, sk) == s = "GN" /\ foreign /\ \E i \in 1..Len(GroupsFile) : GroupsFile[i] = sk

\* del through associated secondary s: the primary records it maps sk to
\* are deleted, and with them every entry that refers to them.
DelThrough(s, sk) ==
  LET p == PrimaryOf[s]
      ks == Targets(s, sk)
  IN /\ prim' = [prim EXCEPT ![p] = [k \in DOMAIN @ |-> IF k \in ks THEN Hole ELSE @[k]]]
     /\ sec' = [t \in Sec |-> IF t \in assoc /\ PrimaryOf[t] = p
                              THEN [e \in {e \in BagToSet(sec[t]) : e[2] \notin ks} |-> sec[t][e]]
                              ELSE sec[t]]

\* ack(expr, expected): the script records a mismatch and carries on.
Ack(line, res, exp) == ackFailed' = IF res = exp THEN ackFailed ELSE ackFailed \cup {line}

-----------------------------------------------------------------------------
(* WORDS (Db.js:498-544)                                                   *)

\* Db.js:521-525: remove "wdj" left over from an earlier run.  X is not
\* yet associated in this run, so X.del is a plain delete.  W.exists(w)
\* asks a record-number store for the key "wdj", which is never a record
\* number, so W.del(w) never runs.
CleanupWords ==
  /\ pc = 522
  /\ IF Wdj \in SecKeys("X")
       THEN sec' = [sec EXCEPT !["X"] = Without("X", {Wdj})]
       ELSE UNCHANGED sec
  /\ RecGet("W", Wdj) = NotFound
  /\ pc' = 527
  /\ UNCHANGED <<prim, assoc, foreign, gkey, ackFailed, runs, crashes>>

\* Db.js:527 W.associate(X.db, 0)
WordsAssociate ==
  /\ pc = 527
  /\ assoc' = assoc \cup {"X"}
  /\ sec' = [sec EXCEPT !["X"] = Backfill("X")]
  /\ pc' = 528
  /\ UNCHANGED <<prim, foreign, gkey, ackFailed, runs, crashes>>

\* Db.js:528 W.db.put(W.txn, 0, w, DB_APPEND), expected true.
WordsAppendPartial ==
  /\ pc = 528
  /\ prim' = [prim EXCEPT !["W"] = Append(@, Wdj)]
  /\ IF Blocked("W", Wdj) THEN UNCHANGED sec
                          ELSE sec' = [sec EXCEPT !["X"] = PutSec("X", Wdj, Len(prim["W"]) + 1)]
  /\ Ack(528, TRUE, TRUE)
  /\ pc' = 538
  /\ UNCHANGED <<assoc, foreign, gkey, runs, crashes>>

WordsAppend ==
  /\ pc = 528
  /\ \/ /\ Blocked("W", Wdj)
        /\ UNCHANGED <<prim, sec>>
        /\ Ack(528, KeyExists, TRUE)
     \/ /\ ~Blocked("W", Wdj)
        /\ AppendOk("W", Wdj)
        /\ Ack(528, TRUE, TRUE)
  /\ pc' = 538
  /\ UNCHANGED <<assoc, foreign, gkey, runs, crashes>>

\* Db.js:531-538: the X.get lookups only print; X.del("wdj") deletes
\* through the secondary, expected true.
WordsDelete ==
  /\ pc = 538
  /\ DelThrough("X", Wdj)
  /\ Ack(538, IF Targets("X", Wdj) = {} THEN NotFound ELSE TRUE, TRUE)
  /\ pc' = 540
  /\ UNCHANGED <<assoc, foreign, gkey, runs, crashes>>

\* Db.js:540-541 X.sync() && X.close(0), W.sync() && W.close(0)
WordsClose ==
  /\ pc = 540
  /\ assoc' = assoc \ {"X"}
  /\ pc' = 634
  /\ UNCHANGED <<prim, sec, foreign, gkey, ackFailed, runs, crashes>>

-----------------------------------------------------------------------------
(* GROUPS (Db.js:623-663)                                                  *)

\* Db.js:634-637: for (key = 1; (val = G.get(key)); key++) GN.put(val, key)
\* GN is not associated yet: a plain put into a store with duplicates.
\* The loop ends at the first record number G does not hold.
GroupsFill ==
  /\ pc = 634
  /\ \/ /\ RecGet("G", gkey) # NotFound
        /\ sec' = [sec EXCEPT !["GN"] = PutSec("GN", RecGet("G", gkey), gkey)]
        /\ gkey' = gkey + 1
        /\ UNCHANGED pc
     \/ /\ RecGet("G", gkey) = NotFound
        /\ pc' = 644
        /\ UNCHANGED <<sec, gkey>>
  /\ UNCHANGED <<prim, assoc, foreign, ackFailed, runs, crashes>>

\* Db.js:644 G.associate(GN.db, 0)
GroupsAssociate ==
  /\ pc = 644
  /\ assoc' = assoc \cup {"GN"}
  /\ sec' = [sec EXCEPT !["GN"] = Backfill("GN")]
  /\ pc' = 645
  /\ UNCHANGED <<prim, foreign, gkey, ackFailed, runs, crashes>>

\* Db.js:645 GF.associate_foreign(GN.db, DB_FOREIGN_ABORT)
GroupsForeign ==
  /\ pc = 645
  /\ foreign' = TRUE
  /\ pc' = 653
  /\ UNCHANGED <<prim, sec, assoc, gkey, ackFailed, runs, crashes>>

\* Db.js:647-653: the GN.get lookups only print; G.db.put(G.txn, 0,
\* glist[0], DB_APPEND), expected true.  GN allows duplicates, and the
\* foreign policy of spec 4.5 applies to deletes only.
GroupsAppend ==
  /\ pc = 653
  /\ AppendOk("G", Amuse)
  /\ Ack(653, TRUE, TRUE)
  /\ pc' = 655
  /\ UNCHANGED <<assoc, foreign, gkey, runs, crashes>>

\* Db.js:655 G.db.put(G.txn, 0, bad, DB_APPEND), expected false.
GroupsAppendBad ==
  /\ pc = 655
  /\ AppendOk("G", Illegal)
  /\ Ack(655, TRUE, FALSE)
  /\ pc' = 656
  /\ UNCHANGED <<assoc, foreign, gkey, runs, crashes>>

\* Db.js:656 GN.del(bad), expected undefined (the binding's NotFound).
\* Under DB_FOREIGN_ABORT a key GF references cannot be deleted.
GroupsDeletePrimaryOnly ==
  /\ pc = 656
  /\ prim' = [prim EXCEPT !["G"] = [k \in DOMAIN @ |->
                IF k \in Targets("GN", Illegal) THEN Hole ELSE @[k]]]
  /\ UNCHANGED sec
  /\ Ack(656, IF Targets("GN", Illegal) = {} THEN NotFound ELSE TRUE, NotFound)
  /\ pc' = 658
  /\ UNCHANGED <<assoc, foreign, gkey, runs, crashes>>

GroupsDelete ==
  /\ pc = 656
  /\ IF Referenced("GN", Illegal)
       THEN UNCHANGED <<prim, sec>> /\ Ack(656, ForeignKeyViolation, NotFound)
       ELSE /\ DelThrough("GN", Illegal)
            /\ Ack(656, IF Targets("GN", Illegal) = {} THEN NotFound ELSE TRUE, NotFound)
  /\ pc' = 658
  /\ UNCHANGED <<assoc, foreign, gkey, runs, crashes>>

\* Db.js:658-660 GN, GF and G are synced and closed; the run ends.
GroupsClose ==
  /\ pc = 658
  /\ assoc' = {} /\ foreign' = FALSE
  /\ pc' = Done
  /\ UNCHANGED <<prim, sec, gkey, ackFailed, runs, crashes>>

-----------------------------------------------------------------------------
(* Runs of the script over one home                                        *)

\* The script is started again after it finished.
Rerun ==
  /\ pc = Done /\ runs < MaxRuns
  /\ pc' = 522 /\ gkey' = 1 /\ runs' = runs + 1
  /\ UNCHANGED <<prim, sec, assoc, foreign, ackFailed, crashes>>

\* The process dies between two lines: handles and associations are gone,
\* every record written so far stays; the script is started again.
Crash ==
  /\ pc # Done /\ runs < MaxRuns /\ crashes < MaxCrashes
  /\ assoc' = {} /\ foreign' = FALSE
  /\ pc' = 522 /\ gkey' = 1
  /\ runs' = runs + 1 /\ crashes' = crashes + 1
  /\ UNCHANGED <<prim, sec, ackFailed>>

Finished == pc = Done /\ runs = MaxRuns /\ UNCHANGED vars

Step ==
  \/ CleanupWords \/ WordsAssociate \/ WordsAppend \/ WordsDelete \/ WordsClose
  \/ GroupsFill \/ GroupsAssociate \/ GroupsForeign \/ GroupsAppend
  \/ GroupsAppendBad \/ GroupsDelete \/ GroupsClose

Next == Step \/ Rerun \/ Crash \/ Finished

Spec == Init /\ [][Next]_vars

-----------------------------------------------------------------------------
(* Properties                                                              *)

\* While W and X are associated (Db.js:527-541), X is exactly the derived
\* image of W: every word record has its entry and X holds nothing else,
\* across appends that X refuses, deletes through X, and leftovers of
\* earlier runs and crashes.
IndexWords == "X" \in assoc => sec["X"] = Image("W")

\* No associated secondary entry refers to a record its primary no longer
\* holds, or holds with another value: the deletes through X and GN
\* (Db.js:538, 656) take the primary record and its entries together.
NoDangling ==
  \A s \in assoc : \A e \in BagToSet(sec[s]) :
     e[2] \in Live(PrimaryOf[s]) /\ prim[PrimaryOf[s]][e[2]] = e[1]

\* Every ack() of the WORDS and GROUPS sections sees the value the script
\* expects, in every run, also after a run that died on the way.
ScriptAcks == ackFailed = {}

=============================================================================
