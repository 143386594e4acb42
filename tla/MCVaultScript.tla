--------------------------- MODULE MCVaultScript ---------------------------
(* Small sets whose whole key can be computed: signatures of their own keys, *)
(* and the same with one thing changed, in the signature or in the           *)
(* transaction.                                                              *)
EXTENDS VaultScript, SlhSigner

\* Three layers, chains of 15 steps, FORS leaves beyond the seven bits of a byte.
ThreeLayers == [h |-> 6, d |-> 3, hp |-> 2, a |-> 6, k |-> 3, lgw |-> 4, m |-> 5]

\* One layer, so an empty tree index, and chains of 3 steps.
OneLayer == [h |-> 3, d |-> 1, hp |-> 3, a |-> 3, k |-> 3, lgw |-> 2, m |-> 3]

KeyOf(p, tag) ==
  Generate(p, [skSeed |-> <<tag, 17>>, skPrf |-> <<tag, 34>>, pkSeed |-> <<tag, 200>>])
ThreeLayersKey == KeyOf(ThreeLayers, 1)
OneLayerKey    == KeyOf(OneLayer, 2)

\* Four leaves; chains of 3 steps, 24 for the digest and 4 for the checksum.
FourLeaves == [w |-> 2, h |-> 2, p |-> 28, u |-> 24, v |-> 4, ls |-> 8]

-----------------------------------------------------------------------------
\* A payment and its change; one with script versions that are not the same
\* when their bytes are exchanged, at the limit of the version field.
Payment ==
  [version |-> 1, txid |-> <<200, 7>>, index |-> 3,
   outputs |-> <<[amount |-> 130, version |-> 0, script |-> <<5, 250>>],
                 [amount |-> 70000, version |-> 0, script |-> <<9>>]>>]
Unusual ==
  [version |-> MAX_TX_VERSION, txid |-> <<0, 128>>, index |-> 2147483647,
   outputs |-> <<[amount |-> 0, version |-> 1, script |-> <<>>],
                 [amount |-> 2147483647, version |-> 128, script |-> <<0, 255>>]>>]

\* Every field of a payment changed, bytes moved from one field to the next,
\* outputs exchanged, one more and one less, and fields that do not fit.
Redirected ==
  <<[Payment EXCEPT !.version = 2], [Payment EXCEPT !.txid[2] = 8],
    [Payment EXCEPT !.index = 0], [Payment EXCEPT !.outputs[1].amount = 131],
    [Payment EXCEPT !.outputs[2].version = 256],
    [Payment EXCEPT !.outputs[1].script = <<5>>, !.outputs[2].script = <<250, 9>>],
    [Payment EXCEPT !.outputs = Reverse(@)], [Payment EXCEPT !.outputs = @ \o <<@[1]>>],
    [Payment EXCEPT !.outputs = <<@[1]>>]>>
TooWide ==
  <<[Payment EXCEPT !.version = MAX_TX_VERSION + 1],
    [Payment EXCEPT !.outputs[1].script = Zeros(MAX_SPK_LEN - 1)]>>

-----------------------------------------------------------------------------
Case(key, sig, tx, own) ==
  [scheme |-> "slh", p |-> key.p, pk |-> key.pk, sig |-> sig, tx |-> tx, own |-> own, key |-> key]

\* One element changed, or two of them exchanged.
Changed(sig, e)      == [sig EXCEPT ![e][N] = (@ + 128) % 256]
Exchanged(sig, e, f) == [sig EXCEPT ![e] = sig[f], ![f] = sig[e]]

\* Elements of every kind: R, a secret, a sibling, a chain, the last sibling.
Altered(p, sig) ==
  LET fors == 1 + p.k * (1 + p.a)
      last == Len(sig)
  IN  <<Changed(sig, 1), Changed(sig, 2), Changed(sig, fors), Changed(sig, fors + 1),
        Changed(sig, last), Exchanged(sig, 2, 3), Exchanged(sig, last - 1, last)>>

\* Two signatures of the key, the first with another transaction, and altered.
SlhCasesFrom(key, first, second, altered) ==
  <<Case(key, first, Payment, TRUE), Case(key, second, Unusual, TRUE),
    Case(key, first, Redirected[3], FALSE)>>
    \o [i \in DOMAIN altered |-> Case(key, altered[i], Payment, FALSE)]

WithSignature(key, first) ==
  SlhCasesFrom(key, first, Sign(key, BindingDigest(Unusual)), Altered(key.p, first))
SlhCases(key) == WithSignature(key, Sign(key, BindingDigest(Payment)))

-----------------------------------------------------------------------------
LmsSecret == [id |-> <<3, 131>>, seed |-> <<77, 201>>, q |-> 0]
LmsNodes  == LmsTree(FourLeaves, LmsSecret)

\* The key as pinned into the script of leaf q, and a signature of that leaf.
Pinned(q) == [id |-> LmsSecret.id, root |-> LmsNodes[1], q |-> q]
LmsSigned(q, tx) ==
  LmsSign(FourLeaves, At(LmsSecret, q), LmsNodes, Zeros(DigestLen), BindingDigest(tx))

LmsCase(q, sig, tx, own) ==
  [scheme |-> "lms", p |-> FourLeaves, pk |-> Pinned(q), sig |-> sig, tx |-> tx, own |-> own]

LmsAltered(sig) ==
  <<[sig EXCEPT !.c[1] = 1], [sig EXCEPT !.y = Changed(@, 1)],
    [sig EXCEPT !.y = Changed(@, FourLeaves.p)], [sig EXCEPT !.y = Exchanged(@, 1, 2)],
    [sig EXCEPT !.path = Changed(@, 1)], [sig EXCEPT !.path = Exchanged(@, 1, 2)]>>

\* A signature of every leaf, one of another leaf, the first transaction's
\* signature with others, and altered ones.
LmsCasesFrom(sig) ==
  [i \in 1..4 |-> LmsCase(i - 1, LmsSigned(i - 1, Unusual), Unusual, TRUE)]
    \o <<LmsCase(2, sig, Payment, TRUE), LmsCase(1, sig, Payment, FALSE)>>
    \o [i \in 1..9 |-> LmsCase(2, sig, Redirected[i], FALSE)]
    \o [i \in 1..2 |-> LmsCase(2, sig, TooWide[i], FALSE)]
    \o [i \in 1..6 |-> LmsCase(2, LmsAltered(sig)[i], Payment, FALSE)]

MCCases ==
  SlhCases(ThreeLayersKey) \o SlhCases(OneLayerKey) \o LmsCasesFrom(LmsSigned(2, Payment))

\* The roots a verifier recovers are those of the signer's trees, whichever
\* leaves a signature opens.  The signer signs what the verifier's path
\* recovers, so a wrong path would verify, but the one-time key above would
\* then sign another root for every message.  (fors_tree, sign)
ForsRootsAreTheTrees ==
  IsSlh /\ Emitted /\ given.own =>
    LET adrs == Adrs(0, trace.start.tree, FORS_TREE, trace.start.leaf)
    IN  \A i \in 1..given.p.k :
          trace.fors.roots[i] = ForsTreehash(given.key, adrs, i - 1, 0).root
=============================================================================
