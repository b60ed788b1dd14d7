---------------------------------- MODULE Dc ----------------------------------
(***************************************************************************)
(* Dc.js: digest contexts driven through their whole life cycle, one      *)
(* context per algorithm.  A context holds an algorithm, its parameters   *)
(* and the bytes absorbed since the last init; the call form ctx(s)       *)
(* digests s in one shot with the context's algorithm and parameters.     *)
(*                                                                         *)
(* The digest itself is the external service of spec.md:71 and is not     *)
(* computed: every line that acks a digest says what the service returns  *)
(* for a key (algorithm, parameters, bytes).  Two lines that expect        *)
(* different values for one key cannot both succeed whatever the service  *)
(* computes.  A digest value is written as its first 8 hex digits and its *)
(* width in bits; bytes are the sequence of non-empty strings absorbed.   *)
(***************************************************************************)
EXTENDS Naturals, Sequences, FiniteSets, TLC

CONSTANTS
  ParamsMatter   \* TRUE: the parameters are part of the key of a digest

\* new GPSEE.Dc(algo) and init(algo) give no parameters; the CUBEHASH
\* contexts are made and initialised with 0x0801 (Dc.js:452-454).
Default == 0
P0801 == 2049
Params == {Default, P0801}

Op(op, algo, m, p, h, line) ==
  [op |-> op, algo |-> algo, m |-> m, p |-> p, h |-> h, line |-> line]

\* One context: new, call, init, the algo/asn1/name reads, update, fini.
Blk(line, algo, p, c, ch, u, fh) ==
  [line |-> line, algo |-> algo, p |-> p, c |-> c, ch |-> ch, u |-> u, fh |-> fh,
   tail |-> <<>>]

\* A CUBEHASH context then re-inits without parameters and calls twice.
CubeBlk(line, algo, ch, fh, ch2, ch3) ==
  [Blk(line, algo, P0801, "", ch, "abc", fh) EXCEPT
     !.tail = << Op("init", algo, "", Default, "", line + 8),
                 Op("call", algo, "", Default, ch2, line + 9),
                 Op("call", algo, "abc", Default, ch3, line + 10) >>]

Ops(b) ==
  << Op("new", b.algo, "", b.p, "", b.line),
     Op("call", b.algo, b.c, b.p, b.ch, b.line + 1),
     Op("init", b.algo, "", b.p, "", b.line + 2),
     Op("attr", b.algo, "", b.p, "", b.line + 3),
     Op("attr", b.algo, "", b.p, "", b.line + 4),
     Op("attr", b.algo, "", b.p, "", b.line + 5),
     Op("update", b.algo, b.u, b.p, "", b.line + 6),
     Op("fini", b.algo, "", b.p, b.fh, b.line + 7) >> \o b.tail

\* Dc.js:137-280
Blocks1 == <<
  Blk(137, "MD2", Default, "abc", "da853b0d/128", "abc", "da853b0d/128"),
  Blk(146, "MD4", Default, "abc", "a448017a/128", "abc", "a448017a/128"),
  Blk(155, "MD5", Default, "abc", "90015098/128", "abc", "90015098/128"),
  Blk(164, "SHA1", Default, "abc", "a9993e36/160", "abc", "a9993e36/160"),
  Blk(173, "SHA224", Default, "abc", "23097d22/224", "abc", "23097d22/224"),
  Blk(182, "SHA256", Default, "abc", "ba7816bf/256", "abc", "ba7816bf/256"),
  Blk(191, "SHA384", Default, "abc", "cb00753f/384", "abc", "cb00753f/384"),
  Blk(200, "SHA512", Default, "abc", "ddaf35a1/512", "abc", "ddaf35a1/512"),
  Blk(209, "SALSA10", Default, "abc", "699d0db4/512", "abc", "699d0db4/512"),
  Blk(218, "SALSA20", Default, "abc", "fc4f496b/512", "abc", "fc4f496b/512"),
  Blk(227, "RIPEMD128", Default, "abc", "c14a1219/128", "abc", "c14a1219/128"),
  Blk(236, "RIPEMD160", Default, "abc", "8eb208f7/160", "abc", "8eb208f7/160"),
  Blk(245, "RIPEMD256", Default, "abc", "afbd6e22/256", "abc", "afbd6e22/256"),
  Blk(254, "RIPEMD320", Default, "abc", "de4c01b3/320", "abc", "de4c01b3/320"),
  Blk(263, "SKEIN_224", Default, "", "50462a68/224", "", "50462a68/224"),
  Blk(272, "SKEIN_256", Default, "", "bc2763f7/256", "", "bc2763f7/256")
>>

\* Dc.js:281-424
Blocks2 == <<
  Blk(281, "SKEIN_384", Default, "", "fa35c62f/384", "", "fa35c62f/384"),
  Blk(290, "SKEIN_512", Default, "", "d3f7263a/512", "", "d3f7263a/512"),
  Blk(299, "SKEIN_1024", Default, "", "7bc3ce31/1024", "", "7bc3ce31/1024"),
  Blk(308, "ARIRANG_224", Default, "", "1937aa37/224", "abc", "40ce8ec7/224"),
  Blk(317, "ARIRANG_256", Default, "", "aab60511/256", "abc", "379e5431/256"),
  Blk(326, "ARIRANG_384", Default, "", "e413208d/384", "abc", "98b3eef2/384"),
  Blk(335, "ARIRANG_512", Default, "", "65d6e76d/512", "abc", "84a38a38/512"),
  Blk(344, "BLAKE_224", Default, "", "53f66333/224", "abc", "a94de9b9/224"),
  Blk(353, "BLAKE_256", Default, "", "73be7e1e/256", "abc", "cca0f6de/256"),
  Blk(362, "BLAKE_384", Default, "", "e0820c06/384", "abc", "e22ddc66/384"),
  Blk(371, "BLAKE_512", Default, "", "223d88a8/512", "abc", "73d4b67d/512"),
  Blk(380, "BMW_224", Default, "", "bdf29a82/224", "abc", "26088053/224"),
  Blk(389, "BMW_256", Default, "", "4c10f8ad/256", "abc", "919905e2/256"),
  Blk(398, "BMW_384", Default, "", "62f300cc/384", "abc", "1ef8b576/384"),
  Blk(407, "BMW_512", Default, "", "73db7b1d/512", "abc", "ded83592/512"),
  Blk(416, "CHI_224", Default, "", "532af150/224", "abc", "2a09fb79/224")
>>

\* Dc.js:425-571
Blocks3 == <<
  Blk(425, "CHI_256", Default, "", "fa11172a/256", "abc", "cf01da4d/256"),
  Blk(434, "CHI_384", Default, "", "841eae69/384", "abc", "924ba150/384"),
  Blk(443, "CHI_512", Default, "", "5ee66ada/512", "abc", "0a71c7e7/512"),
  CubeBlk(452, "CUBEHASH_224", "b5a6f6cb/224", "50151e3b/224", "f9802aa6/224", "6b45504b/224"),
  CubeBlk(464, "CUBEHASH_256", "38d1e8a2/256", "8de2181a/256", "44c6de3a/256", "a220b4bf/256"),
  CubeBlk(476, "CUBEHASH_384", "235e819e/384", "a6cd4e9e/384", "98ae93eb/384", "287cc173/384"),
  CubeBlk(488, "CUBEHASH_512", "90bc3f29/512", "f83d39f3/512", "4a1d00bb/512", "f63d6fa8/512"),
  Blk(500, "ECHO_224", Default, "", "17da0875/224", "abc", "d4f38071/224"),
  Blk(509, "ECHO_256", Default, "", "4496cd09/256", "abc", "871b1fad/256"),
  Blk(518, "ECHO_384", Default, "", "13404076/384", "abc", "94cbb881/384"),
  Blk(527, "ECHO_512", Default, "", "158f58cc/512", "abc", "3bf04ec8/512"),
  Blk(536, "EDONR_224", Default, "", "a9c2bc54/224", "abc", "5663c493/224"),
  Blk(545, "EDONR_256", Default, "", "3b71fd43/256", "abc", "54d78b13/256"),
  Blk(554, "EDONR_384", Default, "", "ccd8e612/384", "abc", "0e7cd785/384"),
  Blk(563, "EDONR_512", Default, "", "c57f7e17/512", "abc", "1b14db15/512")
>>

\* Dc.js:572-715
Blocks4 == <<
  Blk(572, "FUGUE_224", Default, "", "e2cd30d5/224", "abc", "5e12f2cf/224"),
  Blk(581, "FUGUE_256", Default, "", "d6ec5289/256", "abc", "2b6cca67/256"),
  Blk(590, "FUGUE_384", Default, "", "466d05f6/384", "abc", "5e5e10e8/384"),
  Blk(599, "FUGUE_512", Default, "", "3124f0cb/512", "abc", "6d3c8217/512"),
  Blk(608, "GROESTL_224", Default, "", "07f3750f/224", "abc", "321c42cd/224"),
  Blk(617, "GROESTL_256", Default, "", "6c462dc6/256", "abc", "90f0b041/256"),
  Blk(626, "GROESTL_384", Default, "", "7dbc0745/384", "abc", "fe8dd63c/384"),
  Blk(635, "GROESTL_512", Default, "", "a94b5251/512", "abc", "1f2dcaa9/512"),
  Blk(644, "HAMSI_224", Default, "", "6f570888/224", "abc", "f5942eef/224"),
  Blk(653, "HAMSI_256", Default, "", "750e9ec4/256", "abc", "6b017b90/256"),
  Blk(662, "HAMSI_384", Default, "", "fb38fae2/384", "abc", "edc3513a/384"),
  Blk(671, "HAMSI_512", Default, "", "d9bd3908/512", "abc", "74a3b36a/512"),
  Blk(680, "JH_224", Default, "", "12c53596/224", "abc", "31fcf15a/224"),
  Blk(689, "JH_256", Default, "", "020cdd61/256", "abc", "76804776/256"),
  Blk(698, "JH_384", Default, "", "604cb69a/384", "abc", "e936ff16/384"),
  Blk(707, "JH_512", Default, "", "96d728dd/512", "abc", "4d604cbc/512")
>>

\* Dc.js:716-860
Blocks5 == <<
  Blk(716, "KECCAK_224", Default, "", "6c60c1d4/224", "abc", "78e64e68/224"),
  Blk(725, "KECCAK_256", Default, "", "bcde039a/256", "abc", "4e51e136/256"),
  Blk(734, "KECCAK_384", Default, "", "3f65c0fb/384", "abc", "bf1c5ae8/384"),
  Blk(743, "KECCAK_512", Default, "", "8596f8df/512", "abc", "4a2e2187/512"),
  Blk(752, "LANE_224", Default, "", "059b1d05/224", "abc", "2056437f/224"),
  Blk(761, "LANE_256", Default, "", "39d0a057/256", "abc", "7cc93b09/256"),
  Blk(770, "LANE_384", Default, "", "a77d6bd4/384", "abc", "826d9110/384"),
  Blk(779, "LANE_512", Default, "", "bdee2ca1/512", "abc", "f149df86/512"),
  Blk(788, "LUFFA_224", Default, "", "d69dcfd4/224", "abc", "f1d566a4/224"),
  Blk(797, "LUFFA_256", Default, "", "d69dcfd4/256", "abc", "f1d566a4/256"),
  Blk(806, "LUFFA_384", Default, "", "7404fa44/384", "abc", "b13b97f6/384"),
  Blk(815, "LUFFA_512", Default, "", "2a490f6b/512", "abc", "4c1faae4/512"),
  Blk(825, "MD6_224", Default, "", "d2091aa2/224", "abc", "510c30e4/224"),
  Blk(834, "MD6_256", Default, "", "bca38b24/256", "abc", "230637d4/256"),
  Blk(843, "MD6_384", Default, "", "b0bafffc/384", "abc", "e2c6d31d/384"),
  Blk(852, "MD6_512", Default, "", "6b7f3382/512", "abc", "00918245/512")
>>

\* Dc.js:861-1004
Blocks6 == <<
  Blk(861, "SHABAL_224", Default, "", "562b4fdb/224", "abc", "f4757823/224"),
  Blk(870, "SHABAL_256", Default, "", "aec750d1/256", "abc", "07225fab/256"),
  Blk(879, "SHABAL_384", Default, "", "ff093d67/384", "abc", "66613058/384"),
  Blk(888, "SHABAL_512", Default, "", "fc2d5dff/512", "abc", "4a7f0f70/512"),
  Blk(897, "SHAVITE3_224", Default, "", "401d9f7d/224", "abc", "ab74fc01/224"),
  Blk(906, "SHAVITE3_256", Default, "", "6646a740/256", "abc", "b89f6ce5/256"),
  Blk(915, "SHAVITE3_384", Default, "", "ac40319f/384", "abc", "7951ee74/384"),
  Blk(924, "SHAVITE3_512", Default, "", "c25c67d7/512", "abc", "6c7d3d68/512"),
  Blk(933, "SIMD_224", Default, "", "3a6b867e/224", "abc", "1b7ef708/224"),
  Blk(942, "SIMD_256", Default, "", "1a53c822/256", "abc", "a9569ffe/256"),
  Blk(951, "SIMD_384", Default, "", "c5f08c18/384", "abc", "d725c640/384"),
  Blk(960, "SIMD_512", Default, "", "426ab39f/512", "abc", "1c42e151/512"),
  Blk(969, "TIB3_224", Default, "", "0bb081f8/224", "abc", "09616996/224"),
  Blk(978, "TIB3_256", Default, "", "67fcdaea/256", "abc", "d14c723a/256"),
  Blk(987, "TIB3_384", Default, "", "6968b519/384", "abc", "c59874e7/384"),
  Blk(996, "TIB3_512", Default, "", "ca9b25ae/512", "abc", "98b17414/512")
>>

\* Dc.js:1005-1048
Blocks7 == <<
  Blk(1005, "TIGER192", Default, "abc", "2aab1484/192", "abc", "2aab1484/192"),
  Blk(1014, "CRC32", Default, "abc", "352441c2/32", "abc", "352441c2/32"),
  Blk(1023, "CRC64", Default, "abc", "2cd8094a/64", "abc", "2cd8094a/64"),
  Blk(1032, "ADLER32", Default, "abc", "024d0127/32", "abc", "024d0127/32"),
  Blk(1041, "JLU32", Default, "abc", "110255fd/32", "abc", "110255fd/32")
>>
Script == Blocks1 \o Blocks2 \o Blocks3 \o Blocks4 \o Blocks5 \o Blocks6 \o Blocks7

Done == Len(Script) + 1

VARIABLES
  blk,       \* index into Script of the current context
  i,         \* index into its Ops of the next line
  ctx,       \* the current context: algorithm, parameters, absorbed bytes
  kat,       \* key -> the digest the first line acking that key expects
  mustFail   \* lines expecting another digest for a key than an earlier line

vars == <<blk, i, ctx, kat, mustFail>>

TypeOK ==
  /\ blk \in 1..Done /\ i \in 1..11
  /\ ctx.params \in Params /\ ctx.buf \in Seq({"", "abc"})
  /\ \A k \in DOMAIN kat : kat[k] # ""

Init ==
  /\ blk = 1 /\ i = 1
  /\ ctx = [algo |-> "", params |-> Default, buf |-> <<>>]
  /\ kat = [k \in {} |-> ""]
  /\ mustFail = {}

-----------------------------------------------------------------------------

Cur == Ops(Script[blk])[i]

Advance ==
  IF i = Len(Ops(Script[blk]))
    THEN blk' = blk + 1 /\ i' = 1
    ELSE i' = i + 1 /\ UNCHANGED blk

Bytes(s) == SelectSeq(s, LAMBDA m : m # "")

Key(algo, params, s) ==
  IF ParamsMatter THEN <<algo, params, Bytes(s)>> ELSE <<algo, Bytes(s)>>

\* ack("x(...)", hex) / ack("x.fini()", hex) on the digest of key k.
Expect(k, h) ==
  /\ kat' = IF k \in DOMAIN kat THEN kat ELSE kat @@ (k :> h)
  /\ mustFail' = IF k \in DOMAIN kat /\ kat[k] # h
                   THEN mustFail \cup {Cur.line} ELSE mustFail

\* var x = new GPSEE.Dc(algo[, params])
New ==
  /\ Cur.op = "new"
  /\ ctx' = [algo |-> Cur.algo, params |-> Cur.p, buf |-> <<>>]
  /\ Advance /\ UNCHANGED <<kat, mustFail>>

\* x(s): one-shot digest with the context's algorithm and parameters.
Call ==
  /\ Cur.op = "call"
  /\ Expect(Key(ctx.algo, ctx.params, <<Cur.m>>), Cur.h)
  /\ Advance /\ UNCHANGED ctx

\* Mutants of InitCtx: parameters left indeterminate when none are given;
\* parameters kept from before when none are given.
InitCtxUninitialised ==
  /\ Cur.op = "init"
  /\ ctx' = [algo |-> Cur.algo, buf |-> <<>>,
             params |-> IF Cur.p = Default THEN CHOOSE v \in 1..P0801 : v \notin Params
                                          ELSE Cur.p]
  /\ Advance /\ UNCHANGED <<kat, mustFail>>

InitKeepingParams ==
  /\ Cur.op = "init"
  /\ ctx' = [algo |-> Cur.algo, buf |-> <<>>,
             params |-> IF Cur.p = Default THEN ctx.params ELSE Cur.p]
  /\ Advance /\ UNCHANGED <<kat, mustFail>>

\* x.init(algo[, params]): restart with the given (or no) parameters.
InitCtx ==
  /\ Cur.op = "init"
  /\ ctx' = [algo |-> Cur.algo, params |-> Cur.p, buf |-> <<>>]
  /\ Advance /\ UNCHANGED <<kat, mustFail>>

\* x.algo, x.asn1, x.name
Attr ==
  /\ Cur.op = "attr"
  /\ Advance /\ UNCHANGED <<ctx, kat, mustFail>>

\* x.update(s)
Update ==
  /\ Cur.op = "update"
  /\ ctx' = [ctx EXCEPT !.buf = Append(@, Cur.m)]
  /\ Advance /\ UNCHANGED <<kat, mustFail>>

\* x.fini(): the digest of the bytes absorbed since init.
Fini ==
  /\ Cur.op = "fini"
  /\ Expect(Key(ctx.algo, ctx.params, ctx.buf), Cur.h)
  /\ ctx' = [ctx EXCEPT !.buf = <<>>]
  /\ Advance

Finished == blk = Done /\ UNCHANGED vars

Next ==
  \/ blk < Done /\ (New \/ Call \/ InitCtx \/ Attr \/ Update \/ Fini)
  \/ Finished

Spec == Init /\ [][Next]_vars

-----------------------------------------------------------------------------
(* Properties                                                              *)

\* No two digest acks of Dc.js expect different values for the same
\* algorithm, parameters and bytes, with the call form, init, update and
\* fini as the context implements them: some engine can pass them all.
KATConsistent == mustFail = {}

=============================================================================
