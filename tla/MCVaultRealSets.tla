-------------------------- MODULE MCVaultRealSets --------------------------
(* The sets in use, at their real widths.  Their keys are far too large to  *)
(* compute, so the signatures are made up of arbitrary bytes.  An SLH-DSA   *)
(* script rejects them, in its last comparison; an LMS key is made up to    *)
(* fit: the root of the tree is what the signature leads to, which only     *)
(* works for LMS because the root is not part of what is signed.            *)
EXTENDS VaultScript

Arbitrary(tag, i, len) == SubSeq(Sha256(<<tag, i % 256, i \div 256>>), 1, len)

Spend ==
  [version |-> 1, txid |-> Arbitrary(1, 0, 32), index |-> 128,
   outputs |-> [i \in 1..2 |-> [amount |-> 899000000 + i, version |-> 0,
                                script |-> Arbitrary(2, i, 32) \o <<32, 135, 1>>]]]

SlhKey(tag) == [seed |-> Arbitrary(tag, 0, N), root |-> Arbitrary(tag, 1, N)]

\* Arbitrary elements, and elements of nothing but sign bits.
SlhCases(p, pk) ==
  LET Elements(Element(_)) == [i \in 1 .. SigElements(p) |-> Element(i)]
      Case(sig) == [scheme |-> "slh", p |-> p, pk |-> pk, sig |-> sig, tx |-> Spend, own |-> FALSE]
  IN  <<Case(Elements(LAMBDA i : Arbitrary(3, i, N))), Case(Elements(LAMBDA i : [j \in 1..N |-> 128]))>>

-----------------------------------------------------------------------------
LmsSigOf(p) ==
  [c |-> Arbitrary(5, 0, 32), y |-> [i \in 1..p.p |-> Arbitrary(6, i, 32)],
   path |-> [i \in 1..p.h |-> Arbitrary(7, i, 32)]]

Fitted(p, key, sig) ==
  [id |-> key.id, q |-> key.q,
   root |-> LmsRoot(p, key, sig, LmsSource(p, key, sig, BindingDigest(Spend)))]

\* The signature that fits the key, and the same for the leaf beside it.
LmsCasesFor(p, key, sig) ==
  <<[scheme |-> "lms", p |-> p, pk |-> Fitted(p, key, sig), sig |-> sig, tx |-> Spend, own |-> TRUE],
    [scheme |-> "lms", p |-> p, pk |-> [Fitted(p, key, sig) EXCEPT !.q = @ + 1], sig |-> sig,
     tx |-> Spend, own |-> FALSE]>>
LmsCases(p, q) == LmsCasesFor(p, [id |-> Arbitrary(8, q, 16), q |-> q], LmsSigOf(p))

MCCases ==
  SlhCases(SHA2_128_24, SlhKey(1)) \o SlhCases(SHA2_128_24_D2, SlhKey(2))
    \o LmsCases(SHA256_H15_W2, 19286) \o LmsCases(SHA256_H5_W4, 30)
=============================================================================
