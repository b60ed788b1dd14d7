---------------------------------- MODULE Bf ----------------------------------
(***************************************************************************)
(* Bf.js: Bloom filters a, b, c of the rpmbf binding driven through add,   *)
(* chk, union, del and clr.                                                 *)
(*                                                                         *)
(* A filter is the set of its bits that are set.  The hash of an item is  *)
(* the set of bit positions its k hash functions select; it is fixed for  *)
(* the run and chosen at Init over every assignment of positions to the   *)
(* script's three strings, with the bit space shrunk from 3 * 1024 to M so *)
(* that the positions of two strings may overlap.  add sets the item's    *)
(* bits, chk tests that all of them are set, union ors the bits of        *)
(* another filter in, del clears the item's bits, clr clears all.         *)
(* members is what the script believes each filter holds.                 *)
(***************************************************************************)
EXTENDS Naturals, Sequences, FiniteSets

CONSTANTS
  M,         \* bits of a filter (Bf.js:14: 3 * 1024)
  K,         \* hash functions per item (Bf.js:14: 8)
  Overlap    \* FALSE: the three strings' positions are pairwise disjoint

Items == {"foo", "bar", "baz"}
Filters == {"bf", "a", "b", "c"}

\* The positions an item may hash to: up to K of the M bits (two hash
\* functions may pick the same bit).
Positions == {S \in SUBSET (1..M) : S # {} /\ Cardinality(S) <= K}

L(op, line, f, x, exp) == [op |-> op, line |-> line, f |-> f, x |-> x, exp |-> exp]

\* Bf.js:5-49, one record per line that calls the filter; for union x is
\* the filter or'ed in.
Script == <<
  L("new", 5, "bf", "", TRUE), L("clr", 11, "bf", "", TRUE),
  L("new", 14, "a", "", TRUE), L("add", 15, "a", "foo", TRUE),
  L("chk", 16, "a", "foo", TRUE), L("chk", 17, "a", "bar", FALSE), L("chk", 18, "a", "baz", FALSE),
  L("new", 20, "b", "", TRUE), L("add", 21, "b", "bar", TRUE),
  L("chk", 22, "b", "foo", FALSE), L("chk", 23, "b", "bar", TRUE), L("chk", 24, "b", "baz", FALSE),
  L("new", 26, "c", "", TRUE),
  L("chk", 27, "c", "foo", FALSE), L("chk", 28, "c", "bar", FALSE), L("chk", 29, "c", "baz", FALSE),
  L("union", 31, "c", "a", TRUE),
  L("chk", 32, "c", "foo", TRUE), L("chk", 33, "c", "bar", FALSE), L("chk", 34, "c", "baz", FALSE),
  L("union", 36, "c", "b", TRUE),
  L("chk", 37, "c", "foo", TRUE), L("chk", 38, "c", "bar", TRUE), L("chk", 39, "c", "baz", FALSE),
  L("del", 41, "c", "foo", TRUE),
  L("chk", 42, "c", "foo", FALSE), L("chk", 43, "c", "bar", TRUE), L("chk", 44, "c", "baz", FALSE),
  L("del", 46, "c", "bar", TRUE),
  L("chk", 47, "c", "foo", FALSE), L("chk", 48, "c", "bar", FALSE), L("chk", 49, "c", "baz", FALSE)
>>

Done == Len(Script) + 1

VARIABLES
  hash,       \* hash[x]: the bit positions of item x
  bits,       \* bits[f]: the set bits of filter f
  members,    \* members[f]: items added to f, directly or by union, not deleted
  pc,         \* index into Script of the next line
  ackFailed   \* lines whose ack() saw an unexpected result

vars == <<hash, bits, members, pc, ackFailed>>

TypeOK ==
  /\ hash \in [Items -> Positions]
  /\ bits \in [Filters -> SUBSET (1..M)]
  /\ members \in [Filters -> SUBSET Items]
  /\ pc \in 1..Done

Init ==
  /\ hash \in [Items -> Positions]
  /\ ~Overlap => \A x, y \in Items : x # y => hash[x] \cap hash[y] = {}
  /\ bits = [f \in Filters |-> {}]
  /\ members = [f \in Filters |-> {}]
  /\ pc = 1 /\ ackFailed = {}

-----------------------------------------------------------------------------

Ln == Script[pc]

\* ack(expr, exp): record the line on a mismatch and go on.
Ack(res) ==
  /\ ackFailed' = IF res = Ln.exp THEN ackFailed ELSE ackFailed \cup {Ln.line}
  /\ pc' = pc + 1

\* new GPSEE.Bf(m, k): an empty filter.
New ==
  /\ Ln.op = "new"
  /\ bits' = [bits EXCEPT ![Ln.f] = {}]
  /\ members' = [members EXCEPT ![Ln.f] = {}]
  /\ Ack(TRUE) /\ UNCHANGED hash

\* Mutant: the positions computed one bit too far.
AddShifted ==
  /\ Ln.op = "add"
  /\ bits' = [bits EXCEPT ![Ln.f] = @ \cup {p + 1 : p \in hash[Ln.x]}]
  /\ members' = [members EXCEPT ![Ln.f] = @ \cup {Ln.x}]
  /\ Ack(TRUE) /\ UNCHANGED hash

\* f.add(x)
Add ==
  /\ Ln.op = "add"
  /\ bits' = [bits EXCEPT ![Ln.f] = @ \cup hash[Ln.x]]
  /\ members' = [members EXCEPT ![Ln.f] = @ \cup {Ln.x}]
  /\ Ack(TRUE) /\ UNCHANGED hash

\* f.chk(x): all of x's bits are set.
Chk ==
  /\ Ln.op = "chk"
  /\ Ack(hash[Ln.x] \subseteq bits[Ln.f])
  /\ UNCHANGED <<hash, bits, members>>

\* f.union(g)
Union ==
  /\ Ln.op = "union"
  /\ bits' = [bits EXCEPT ![Ln.f] = @ \cup bits[Ln.x]]
  /\ members' = [members EXCEPT ![Ln.f] = @ \cup members[Ln.x]]
  /\ Ack(TRUE) /\ UNCHANGED hash

\* Mutant: del that clears the whole filter.
DelClearing ==
  /\ Ln.op = "del"
  /\ bits' = [bits EXCEPT ![Ln.f] = {}]
  /\ members' = [members EXCEPT ![Ln.f] = @ \ {Ln.x}]
  /\ Ack(TRUE) /\ UNCHANGED hash

\* f.del(x): clears x's bits, whoever else set them.
Del ==
  /\ Ln.op = "del"
  /\ bits' = [bits EXCEPT ![Ln.f] = @ \ hash[Ln.x]]
  /\ members' = [members EXCEPT ![Ln.f] = @ \ {Ln.x}]
  /\ Ack(TRUE) /\ UNCHANGED hash

\* f.clr()
Clr ==
  /\ Ln.op = "clr"
  /\ bits' = [bits EXCEPT ![Ln.f] = {}]
  /\ members' = [members EXCEPT ![Ln.f] = {}]
  /\ Ack(TRUE) /\ UNCHANGED hash

Finished == pc = Done /\ UNCHANGED vars

Next ==
  \/ pc < Done /\ (New \/ Add \/ Chk \/ Union \/ Del \/ Clr)
  \/ Finished

Spec == Init /\ [][Next]_vars

-----------------------------------------------------------------------------
(* Properties                                                              *)

\* No false negative: chk answers true for every item added to the filter,
\* directly (Bf.js:15, 21) or through union (31, 36), and not deleted from
\* it since (41, 46).
NoFalseNegative ==
  \A f \in Filters : \A x \in members[f] : hash[x] \subseteq bits[f]

\* Every ack() of Bf.js sees the value the script expects.
ScriptAcks == ackFailed = {}

=============================================================================
