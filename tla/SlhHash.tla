------------------------------ MODULE SlhHash ------------------------------
(***************************************************************************)
(* Addresses and hashing (crates/slh-script/src/adrs.rs).  Bytes are       *)
(* numbers in 0..255, as in the code; SHA-256 is replaced by a small       *)
(* polynomial hash of every byte, which keeps what the properties need:    *)
(* equal preimages give equal values and, in the runs, different ones do   *)
(* not.                                                                    *)
(***************************************************************************)
EXTENDS SlhParams, Sequences

\* All sequences one after the other, joined by halves: a signature has more
\* chains than FlattenSeq can join.
Joined(seqs) ==
  LET Part[span \in (DOMAIN seqs) \X (DOMAIN seqs)] ==
        LET lo == span[1] hi == span[2] middle == (lo + hi) \div 2
        IN  IF lo >= hi THEN seqs[lo]
            ELSE Part[<<lo, middle>>] \o Part[<<middle + 1, hi>>]
  IN  IF seqs = <<>> THEN <<>> ELSE Part[<<1, Len(seqs)>>]

Octet == 0..255

Zeros(n) == [i \in 1..n |-> 0]

\* The value of a byte by its place, the last one first.  Values stay below
\* 2^31, the model's integers.
ByteWeight == <<1, 256, 65536, 16777216>>

\* v as n big-endian bytes.
BigEndian(v, n) ==
  [i \in 1..n |-> IF n - i > 3 THEN 0 ELSE (v \div ByteWeight[n - i + 1]) % 256]

\* Every byte is absorbed, by halves, into a residue of a prime.
Prime    == 8388593
Residues == 0 .. Prime - 1
Absorbed(b) ==
  LET Absorb[span \in Residues \X (DOMAIN b) \X (DOMAIN b)] ==
        LET acc == span[1] lo == span[2] hi == span[3] middle == (lo + hi) \div 2
        IN  IF lo >= hi THEN (acc * 251 + b[lo] + 1) % Prime
            ELSE Absorb[<<Absorb[<<acc, lo, middle>>], middle + 1, hi>>]
  IN  IF b = <<>> THEN 1 ELSE Absorb[<<1, 1, Len(b)>>]
Sha256(b) ==
  LET state == Absorbed(b)
  IN  [j \in 1..DigestLen |-> ((state % (4093 + 2 * j)) * 37) % 256]

Trunc(b) == SubSeq(b, 1, N)

(***************************************************************************)
(* The compressed address: layer, tree, type and three words whose meaning *)
(* depends on the type: w1 is the key pair, w2 the chain or the height of  *)
(* a node, w3 the step of a chain or the index of a node.                  *)
(***************************************************************************)
Adrs(layer, tree, ty, kp) ==
  [layer |-> layer, tree |-> tree, ty |-> ty, w1 |-> kp, w2 |-> 0, w3 |-> 0]

SetTypeAndClear(adrs, ty) == Adrs(adrs.layer, adrs.tree, ty, 0)

AdrsBytes(adrs) ==
  <<adrs.layer>> \o BigEndian(adrs.tree, 8) \o <<adrs.ty>>
    \o BigEndian(adrs.w1, 4) \o BigEndian(adrs.w2, 4) \o BigEndian(adrs.w3, 4)

HashPad(seed) == seed \o Zeros(PAD_LEN)

Hash(seed, adrs, msg) == Trunc(Sha256(HashPad(seed) \o AdrsBytes(adrs) \o msg))
=============================================================================
