----------------------------- MODULE AtomicStore -----------------------------
(***************************************************************************)
(* What the transactional store promises its clients (spec.md 4.6, 5, 7),  *)
(* with locks, cursors and waits left out.  Each client has at most one    *)
(* open transaction, whose writes are private until it commits; a commit   *)
(* makes all of them visible in one step, an abort or a failure discards  *)
(* them, and no two open transactions have a pending write to one key.     *)
(* TxnStore implements it with data as data and wbuf as pending.          *)
(***************************************************************************)
CONSTANTS
  Clients,   \* the transactions' owners
  Keys,
  Values,    \* the values a key may hold, absence included
  NoWrite    \* no pending write for the key

VARIABLES
  data,      \* the committed records
  pending    \* pending[c][k]: the write c's open transaction has made to k

vars == <<data, pending>>

NoPending == [k \in Keys |-> NoWrite]

Init ==
  /\ data \in [Keys -> Values]
  /\ pending = [c \in Clients |-> NoPending]

\* c writes v to k (a put or a delete); nobody else has a pending write to k.
Write(c, k, v) ==
  /\ \A d \in Clients \ {c} : pending[d][k] = NoWrite
  /\ pending' = [pending EXCEPT ![c][k] = v]
  /\ UNCHANGED data

\* c commits: every pending write becomes visible at once.
Commit(c) ==
  /\ data' = [k \in Keys |-> IF pending[c][k] # NoWrite THEN pending[c][k] ELSE data[k]]
  /\ pending' = [pending EXCEPT ![c] = NoPending]

\* c's transaction ends without effect: abort, or the process died.
Discard(c) ==
  /\ pending' = [pending EXCEPT ![c] = NoPending]
  /\ UNCHANGED data

Next ==
  \E c \in Clients :
    \/ \E k \in Keys, v \in Values : Write(c, k, v)
    \/ Commit(c)
    \/ Discard(c)

Spec == Init /\ [][Next]_vars

=============================================================================
