----------------------------- MODULE MCSettings -----------------------------
(* Small instances of Settings for TLC: a seed written in words and in hex, *)
(* a bare key of the same digits, and texts that are no key, the empty one  *)
(* included.                                                                *)
EXTENDS Settings, TLC

MCTextOf ==
    "words" :> [form |-> "words", secret |-> "a"] @@
    "seed"  :> [form |-> "seed",  secret |-> "a"] @@
    "raw"   :> [form |-> "raw",   secret |-> "a"] @@
    ""      :> [form |-> "junk",  secret |-> ""]

\* 2^31 stands scaled at the limit of the cfg.
MCIndexOf == "1" :> {1} @@ "2147483648" :> {ChildLimit} @@ "one" :> {}

MCNetworks == {"mainnet", "tn10", "tn11"}
=============================================================================
